----------------------------- MODULE TimerProofs -----------------------------
(***************************************************************************)
(* Proofs about the two components that timers drive, each on its own: the *)
(* price cache (Pricer), for any provider, timeout and delay, and the      *)
(* agent's life with its weekly digest (Digest), for any configurations,   *)
(* any length of the step of the clock, and any number of restarts.        *)
(***************************************************************************)
EXTENDS Pricer, Digest, PartialMapsProofs, FiniteSetTheorems, TLAPS

(***************************************************************************)
(* RefreshesBounded is not inductive: it holds because no two refreshes    *)
(* are of one age, Get being called once in a tick, and none outlives the  *)
(* timeout and the store delay.  The ages then map the running goroutines  *)
(* one to one into 0 .. Timeout + StoreDelay.                              *)
(***************************************************************************)
Lives == 0 .. Timeout + StoreDelay

LifeLimit(x) == IF x.pc = "fetch" THEN x.life <= Timeout /\ x.stamp = 0
                                  ELSE x.life <= Timeout + x.stamp

LivesInvariant ==
    /\ PricerTypeOK
    /\ \A r \in DOMAIN refreshes : LifeLimit(refreshes[r])
    /\ \A r, s \in DOMAIN refreshes : r # s => refreshes[r].life # refreshes[s].life
    /\ due => \A r \in DOMAIN refreshes : refreshes[r].life > 0

(* Refreshes with lives of their own are no more than there are lives.     *)
LEMMA LivesBound == LivesInvariant => RefreshesBounded
<1> SUFFICES ASSUME LivesInvariant PROVE RefreshesBounded
  OBVIOUS
<1> DEFINE f == [r \in DOMAIN refreshes |-> refreshes[r].life]
<1>1. f \in Injection(DOMAIN refreshes, Lives)
  BY DEF LivesInvariant, PricerTypeOK, IsMap, Refresh, Lives, Injection, IsInjective
<1>2. IsFiniteSet(Lives) /\ Cardinality(Lives) = Timeout + StoreDelay + 1
  BY FS_Interval, TimeoutAssumption, StoreDelayAssumption DEF Lives
<1>3. Cardinality(DOMAIN refreshes) <= Cardinality(Lives)
  BY <1>1, <1>2, FS_Injection
<1> QED BY <1>2, <1>3 DEF RefreshesBounded

(* There is always an identity left for the goroutine that Get starts.     *)
LEMMA FreeRefresherExists ==
    ASSUME LivesInvariant
    PROVE  FreeRefresher \in Refreshers \ DOMAIN refreshes
<1>1. DOMAIN refreshes # Refreshers
  BY LivesBound, RefreshersAssumption, TimeoutAssumption, StoreDelayAssumption, FS_CardinalityType
     DEF RefreshesBounded
<1>2. \E r \in Refreshers : r \notin DOMAIN refreshes
  BY <1>1 DEF LivesInvariant, PricerTypeOK, IsMap
<1> QED BY <1>2 DEF FreeRefresher

(* No refresh runs at the start.                                           *)
LEMMA LivesInit == PricerInit => LivesInvariant
<1> SUFFICES ASSUME PricerInit PROVE LivesInvariant
  OBVIOUS
<1>1. IsMap(refreshes, Refreshers, Refresh) /\ DOMAIN refreshes = {}
  BY NoKeysIsMap DEF PricerInit
<1>2. 0 \in Ages
  BY MaxAgeAssumption DEF Ages
<1>3. PricerTypeOK
  BY <1>1, <1>2 DEF PricerInit, PricerTypeOK
<1> QED BY <1>1, <1>3 DEF LivesInvariant

(* Every step preserves the lives.                                         *)
LEMMA LivesNext == LivesInvariant /\ [PricerNext]_pricerVars => LivesInvariant'
<1> SUFFICES ASSUME LivesInvariant, [PricerNext]_pricerVars PROVE LivesInvariant'
  OBVIOUS
<1> USE TimeoutAssumption, StoreDelayAssumption
<1> USE DEF LivesInvariant, LifeLimit
<1>1. CASE Get
  <2>1. CASE ~Stale
    BY <1>1, <2>1 DEF Get, PricerTypeOK
  <2>2. CASE Stale
    <3> DEFINE x == FreeRefresher
               new == [pc |-> "fetch", life |-> 0, stamp |-> 0]
    <3>1. x \in Refreshers /\ x \notin DOMAIN refreshes
      BY FreeRefresherExists
    <3>2. new \in Refresh
      BY DEF Refresh
    <3>3. /\ refreshes' = Put(refreshes, x, new)
          /\ due /\ due' = FALSE /\ prices' = prices
          /\ failed' = failed /\ served' = [age |-> prices.age, failed |-> failed]
      BY <1>1, <2>2 DEF Get, Started
    <3> HIDE DEF x
    <3>4. /\ DOMAIN refreshes' = DOMAIN refreshes \cup {x}
          /\ refreshes'[x] = new
          /\ \A r \in DOMAIN refreshes : refreshes'[r] = refreshes[r]
          /\ refreshes' = [r \in DOMAIN refreshes' |-> refreshes'[r]]
      BY <3>1, <3>3 DEF Put
    <3>5. PricerTypeOK'
      <4>1. IsMap(refreshes', Refreshers, Refresh)
        BY <3>1, <3>2, <3>3, PutIsMap DEF PricerTypeOK
      <4> QED BY <4>1, <3>3 DEF PricerTypeOK
    <3>6. \A r \in DOMAIN refreshes : refreshes[r].life > 0
      BY <3>3
    <3> QED BY <3>3, <3>4, <3>5, <3>6
  <2> QED BY <2>1, <2>2
<1>2. ASSUME NEW r \in Refreshers, Answer(r)
      PROVE  LivesInvariant'
  BY <1>2 DEF Answer, PricerTypeOK, IsMap, Refresh
<1>3. ASSUME NEW r \in Refreshers, Fail(r)
      PROVE  LivesInvariant'
  BY <1>3 DEF Fail, Ended, PricerTypeOK, IsMap
<1>4. ASSUME NEW r \in Refreshers, Store(r)
      PROVE  LivesInvariant'
  <2>1. refreshes[r].stamp \in Ages
    BY <1>4, MaxAgeAssumption, HourAssumption DEF Store, PricerTypeOK, IsMap, Refresh, Ages
  <2>2. /\ DOMAIN refreshes' = DOMAIN refreshes \ {r}
        /\ \A s \in DOMAIN refreshes' : refreshes'[s] = refreshes[s]
        /\ refreshes' = [s \in DOMAIN refreshes' |-> refreshes'[s]]
        /\ prices' = [source |-> "fetched", age |-> refreshes[r].stamp]
        /\ failed' = FALSE /\ UNCHANGED <<due, served>>
    BY <1>4 DEF Store, Ended
  <2>3. IsMap(refreshes', Refreshers, Refresh)
    BY <2>2 DEF PricerTypeOK, IsMap
  <2>4. PricerTypeOK'
    BY <2>1, <2>2, <2>3 DEF PricerTypeOK
  <2> QED BY <2>2, <2>4
<1>5. CASE Tick
  <2>1. /\ DOMAIN refreshes' = DOMAIN refreshes
        /\ \A r \in DOMAIN refreshes : refreshes'[r] = OneTickOlder(r)
        /\ refreshes' = [r \in DOMAIN refreshes' |-> refreshes'[r]]
    BY <1>5 DEF Tick
  <2>2. ASSUME NEW r \in DOMAIN refreshes
        PROVE  /\ refreshes'[r] \in Refresh
               /\ refreshes'[r].life = refreshes[r].life + 1
               /\ LifeLimit(refreshes'[r])
    <3>1. refreshes[r] \in Refresh /\ LifeLimit(refreshes[r]) /\ MayWait(r)
      BY <1>5 DEF PricerTypeOK, IsMap, Tick
    <3>2. refreshes'[r] = OneTickOlder(r)
      BY <2>1
    <3> DEFINE x == refreshes[r]
    <3>3. /\ x.pc \in {"fetch", "store"} /\ x.life \in Nat /\ x.stamp \in Nat
          /\ x = [pc |-> x.pc, life |-> x.life, stamp |-> x.stamp]
      BY <3>1 DEF Refresh
    <3>4. CASE x.pc = "fetch"
      <4>1. refreshes'[r] = [pc |-> "fetch", life |-> x.life + 1, stamp |-> 0]
        BY <3>1, <3>2, <3>3, <3>4 DEF OneTickOlder
      <4>2. x.life < Timeout
        BY <3>1, <3>4 DEF MayWait
      <4> QED BY <4>1, <4>2, <3>3 DEF Refresh
    <3>5. CASE x.pc = "store"
      <4>1. refreshes'[r] = [pc |-> "store", life |-> x.life + 1, stamp |-> x.stamp + 1]
        BY <3>1, <3>2, <3>3, <3>5 DEF OneTickOlder
      <4>2. x.stamp < StoreDelay /\ x.life <= Timeout + x.stamp
        BY <3>1, <3>5 DEF MayWait
      <4> QED BY <4>1, <4>2, <3>3 DEF Refresh
    <3> QED BY <3>3, <3>4, <3>5
  <2>3. \A r \in DOMAIN refreshes : refreshes[r].life \in Nat
    BY DEF PricerTypeOK, IsMap, Refresh
  <2>4. prices' \in [source : {"default", "fetched"}, age : Ages]
    BY <1>5, MaxAgeAssumption DEF Tick, PricerTypeOK, Ages
  <2>5. PricerTypeOK'
    BY <1>5, <2>1, <2>2, <2>4 DEF Tick, PricerTypeOK, IsMap
  <2> QED BY <2>1, <2>2, <2>3, <2>5
<1>6. CASE UNCHANGED pricerVars
  BY <1>6 DEF pricerVars, PricerTypeOK
<1> QED BY <1>1, <1>2, <1>3, <1>4, <1>5, <1>6 DEF PricerNext

(* However slow or broken the pricing API is, Get never has more than one  *)
(* refresh per tick of the timeout and the store delay in flight.          *)
THEOREM RefreshesBoundedCorrect == PricerSpec => []RefreshesBounded
<1>1. PricerInit => LivesInvariant
  BY LivesInit
<1>2. LivesInvariant /\ [PricerNext]_pricerVars => LivesInvariant'
  BY LivesNext
<1>3. LivesInvariant => RefreshesBounded
  BY LivesBound
<1> QED BY <1>1, <1>2, <1>3, PTL DEF PricerSpec

(* The cache's variables keep their types.                                 *)
THEOREM PricerTypeCorrect == PricerSpec => []PricerTypeOK
<1>1. PricerInit => LivesInvariant
  BY LivesInit
<1>2. LivesInvariant /\ [PricerNext]_pricerVars => LivesInvariant'
  BY LivesNext
<1>3. LivesInvariant => PricerTypeOK
  BY DEF LivesInvariant
<1> QED BY <1>1, <1>2, <1>3, PTL DEF PricerSpec

-----------------------------------------------------------------------------
(***************************************************************************)
(* ServedAgeBounded.  Once Get has seen a stale table, and unless a fetch  *)
(* fails, a goroutine is running that was started when the table became    *)
(* stale: it grows old with the table, and it is stored before its life    *)
(* is over.                                                                *)
(***************************************************************************)
SeenStale == prices.age > Hour + 1 \/ (prices.age = Hour + 1 /\ ~due)

RefreshUnderWay ==
    \E r \in DOMAIN refreshes : prices.age <= Hour + 1 + refreshes[r].life

AgeInvariant ==
    /\ LivesInvariant
    /\ ~failed /\ SeenStale => RefreshUnderWay
    /\ ServedAgeBounded

(* The table is no older than the goroutine's life allows.                 *)
LEMMA UnderWayBound ==
    ASSUME LivesInvariant, RefreshUnderWay
    PROVE  prices.age <= Hour + 1 + Timeout + StoreDelay
<1>1. PICK r \in DOMAIN refreshes : prices.age <= Hour + 1 + refreshes[r].life
  BY DEF RefreshUnderWay
<1>2. refreshes[r].life \in 0 .. Timeout + StoreDelay
  BY DEF LivesInvariant, PricerTypeOK, IsMap, Refresh
<1>3. prices.age \in Nat
  BY MaxAgeAssumption DEF LivesInvariant, PricerTypeOK, Ages
<1> QED BY <1>1, <1>2, <1>3, HourAssumption, TimeoutAssumption, StoreDelayAssumption

(* Every step keeps such a goroutine running, or ends the need for it.     *)
LEMMA AgeNext == AgeInvariant /\ [PricerNext]_pricerVars => AgeInvariant'
<1> SUFFICES ASSUME AgeInvariant, [PricerNext]_pricerVars PROVE AgeInvariant'
  OBVIOUS
<1> USE HourAssumption, TimeoutAssumption, StoreDelayAssumption
<1>1. LivesInvariant /\ LivesInvariant'
  BY LivesNext DEF AgeInvariant
<1>2. prices.age \in Nat /\ \A r \in DOMAIN refreshes : refreshes[r].life \in Nat
  BY <1>1, MaxAgeAssumption DEF LivesInvariant, PricerTypeOK, Ages, IsMap, Refresh
<1>3. CASE Get
  <2>1. /\ due /\ ~due' /\ UNCHANGED <<prices, failed>>
        /\ served' = [age |-> prices.age, failed |-> failed]
        /\ refreshes' = IF Stale THEN Started(FreeRefresher) ELSE refreshes
    BY <1>3 DEF Get
  <2>2. ~failed => prices.age <= Hour + 1 + Timeout + StoreDelay
    <3>1. CASE prices.age <= Hour + 1
      BY <1>2, <3>1
    <3>2. CASE prices.age > Hour + 1
      BY <1>1, <3>2, UnderWayBound DEF AgeInvariant, SeenStale
    <3> QED BY <1>2, <3>1, <3>2
  <2>3. CASE Stale
    <3> DEFINE x == FreeRefresher
               new == [pc |-> "fetch", life |-> 0, stamp |-> 0]
    <3>1. x \notin DOMAIN refreshes
      BY <1>1, FreeRefresherExists
    <3>2. refreshes' = Put(refreshes, x, new)
      BY <2>1, <2>3 DEF Started
    <3> HIDE DEF x
    <3>3. /\ DOMAIN refreshes' = DOMAIN refreshes \cup {x} /\ refreshes'[x] = new
          /\ \A r \in DOMAIN refreshes : refreshes'[r] = refreshes[r]
      BY <3>1, <3>2 DEF Put
    <3>4. prices.age = Hour + 1 => RefreshUnderWay'
      BY <1>2, <2>1, <3>3 DEF RefreshUnderWay
    <3>5. ASSUME prices.age # Hour + 1
          PROVE  ~failed' /\ SeenStale' => RefreshUnderWay'
      <4>1. ~failed' /\ SeenStale' => ~failed /\ SeenStale
        BY <2>1, <3>5 DEF SeenStale
      <4>2. RefreshUnderWay => RefreshUnderWay'
        BY <2>1, <3>3 DEF RefreshUnderWay
      <4> QED BY <4>1, <4>2 DEF AgeInvariant
    <3>6. ~failed' /\ SeenStale' => RefreshUnderWay'
      BY <3>4, <3>5
    <3> QED BY <1>1, <2>1, <2>2, <3>6 DEF AgeInvariant, ServedAgeBounded
  <2>4. CASE ~Stale
    <3>1. ~SeenStale'
      BY <1>2, <2>1, <2>4 DEF Stale, SeenStale
    <3> QED BY <1>1, <2>1, <2>2, <3>1 DEF AgeInvariant, ServedAgeBounded
  <2> QED BY <2>3, <2>4
<1>4. ASSUME NEW r \in Refreshers, Answer(r)
      PROVE  AgeInvariant'
  <2>1. /\ UNCHANGED <<prices, due, failed, served>> /\ DOMAIN refreshes' = DOMAIN refreshes
        /\ \A x \in DOMAIN refreshes : refreshes'[x].life = refreshes[x].life
    BY <1>1, <1>4 DEF Answer, LivesInvariant, PricerTypeOK, IsMap, Refresh
  <2>2. (SeenStale' => SeenStale) /\ (RefreshUnderWay => RefreshUnderWay')
    BY <2>1 DEF SeenStale, RefreshUnderWay
  <2> QED BY <1>1, <2>1, <2>2 DEF AgeInvariant, ServedAgeBounded
<1>5. ASSUME NEW r \in Refreshers, Fail(r)
      PROVE  AgeInvariant'
  BY <1>1, <1>5 DEF Fail, AgeInvariant, ServedAgeBounded
<1>6. ASSUME NEW r \in Refreshers, Store(r)
      PROVE  AgeInvariant'
  <2>1. prices'.age <= StoreDelay /\ prices'.age \in Nat
    BY <1>1, <1>6 DEF Store, LivesInvariant, PricerTypeOK, IsMap, Refresh
  <2>2. ~SeenStale'
    BY <2>1 DEF SeenStale
  <2> QED BY <1>1, <1>6, <2>2 DEF Store, AgeInvariant, ServedAgeBounded
<1>7. CASE Tick
  <2>1. /\ ~due /\ due' /\ UNCHANGED <<failed, served>>
        /\ prices'.age <= prices.age + 1 /\ prices'.age \in Nat
        /\ DOMAIN refreshes' = DOMAIN refreshes
        /\ \A r \in DOMAIN refreshes : refreshes'[r].life = refreshes[r].life + 1
    <3>1. prices' = [prices EXCEPT !.age = IF prices.age < MaxAge THEN prices.age + 1 ELSE prices.age]
      BY <1>7 DEF Tick
    <3>2. prices'.age = IF prices.age < MaxAge THEN prices.age + 1 ELSE prices.age
      BY <1>1, <3>1 DEF LivesInvariant, PricerTypeOK
    <3>3. \A r \in DOMAIN refreshes : OneTickOlder(r).life = refreshes[r].life + 1
      BY <1>1 DEF OneTickOlder, LivesInvariant, PricerTypeOK, IsMap, Refresh
    <3> QED BY <1>2, <1>7, <3>2, <3>3 DEF Tick
  <2>2. SeenStale' => SeenStale
    BY <1>2, <2>1 DEF SeenStale
  <2>3. RefreshUnderWay => RefreshUnderWay'
    <3>1. ASSUME NEW r \in DOMAIN refreshes, prices.age <= Hour + 1 + refreshes[r].life
          PROVE  prices'.age <= Hour + 1 + refreshes'[r].life
      BY <1>2, <2>1, <3>1
    <3> QED BY <2>1, <3>1 DEF RefreshUnderWay
  <2> QED BY <1>1, <2>1, <2>2, <2>3 DEF AgeInvariant, ServedAgeBounded
<1>8. CASE UNCHANGED pricerVars
  BY <1>1, <1>8 DEF pricerVars, AgeInvariant, SeenStale, RefreshUnderWay, ServedAgeBounded
<1> QED BY <1>3, <1>4, <1>5, <1>6, <1>7, <1>8 DEF PricerNext

(* Unless a fetch has failed since it was stored, no table is billed with  *)
(* that is older than an hour and what one refresh can take.               *)
THEOREM ServedAgeCorrect == PricerSpec => []ServedAgeBounded
<1>1. PricerInit => AgeInvariant
  <2>1. PricerInit => prices.age = 0 /\ served.age = 0
    BY DEF PricerInit
  <2>2. PricerInit => ~SeenStale /\ ServedAgeBounded
    BY <2>1, HourAssumption, TimeoutAssumption, StoreDelayAssumption
       DEF SeenStale, ServedAgeBounded
  <2> QED BY <2>2, LivesInit DEF AgeInvariant
<1>2. AgeInvariant /\ [PricerNext]_pricerVars => AgeInvariant'
  BY AgeNext
<1>3. AgeInvariant => ServedAgeBounded
  BY DEF AgeInvariant
<1> QED BY <1>1, <1>2, <1>3, PTL DEF PricerSpec

(* A table that is stored was fetched no more than the store delay before  *)
(* the one it replaces.                                                    *)
THEOREM FetchedAtCorrect == PricerSpec => FetchedAtBarelyRegresses
<1> DEFINE Barely == \A r \in Refreshers : Store(r) => prices'.age <= prices.age + StoreDelay
<1>1. PricerInit => LivesInvariant
  BY LivesInit
<1>2. LivesInvariant /\ [PricerNext]_pricerVars => LivesInvariant'
  BY LivesNext
<1>3. LivesInvariant => Barely
  <2> SUFFICES ASSUME LivesInvariant, NEW r \in Refreshers, Store(r)
               PROVE  prices'.age <= prices.age + StoreDelay
    OBVIOUS
  <2>1. prices'.age = refreshes[r].stamp /\ refreshes[r].stamp \in 0 .. StoreDelay
    BY DEF Store, LivesInvariant, PricerTypeOK, IsMap, Refresh
  <2>2. prices.age \in Nat
    BY MaxAgeAssumption DEF LivesInvariant, PricerTypeOK, Ages
  <2> QED BY <2>1, <2>2, StoreDelayAssumption
<1> HIDE DEF Barely
<1>4. PricerSpec => [][Barely]_pricerVars
  BY <1>1, <1>2, <1>3, PTL DEF PricerSpec
<1> QED BY <1>4 DEF FetchedAtBarelyRegresses, Barely

-----------------------------------------------------------------------------
(* The assumptions on the clock, in the form the proofs cite.              *)
LEMMA Constants ==
    /\ PerHour \in Nat /\ PerHour > 0
    /\ Start \in Nat /\ End \in Nat /\ Start <= End
BY ClockAssumption, WeekAssumption

-----------------------------------------------------------------------------
(***************************************************************************)
(* Which times are due: the clock meets one Monday, 9:00.                  *)
(***************************************************************************)
(* A day is 24 hours, also in steps of the clock.                          *)
LEMMA Days ==
    ASSUME NEW t \in Int
    PROVE  t \div (24 * PerHour) = (t \div PerHour) \div 24
<1> DEFINE h == t \div PerHour
           day == h \div 24
<1>1. PerHour \in Nat \ {0} /\ 24 * PerHour \in Nat \ {0}
  BY ClockAssumption
<1>2. h \in Int /\ PerHour * h <= t /\ t < PerHour * h + PerHour
  BY <1>1, DivBounds
<1> HIDE DEF h
<1>3. day \in Int /\ 24 * day <= h /\ h <= 24 * day + 23
  BY <1>2
<1> HIDE DEF day
<1>4. PICK k \in Nat : h = 24 * day + k /\ k <= 23
  <2>1. h - 24 * day \in Nat /\ h - 24 * day <= 23 /\ h = 24 * day + (h - 24 * day)
    BY <1>2, <1>3
  <2> QED BY <2>1
<1>5. PerHour * h = (24 * PerHour) * day + PerHour * k
  BY <1>1, <1>3, <1>4
<1>6. PerHour * k >= 0 /\ PerHour * k + PerHour <= 24 * PerHour
  BY <1>1, <1>4
<1>7. (24 * PerHour) * day <= t /\ t < (24 * PerHour) * day + 24 * PerHour
  BY <1>1, <1>2, <1>3, <1>5, <1>6
<1> QED BY <1>1, <1>3, <1>7, DivIs DEF h, day

(* t is due when its hour is the 33rd of a week.                           *)
DueIn(t, week) == 168 * PerHour * week + 33 * PerHour <= t /\ t < 168 * PerHour * week + 34 * PerHour

(* What is due is one hour of each week.                                   *)
LEMMA DueWeek ==
    ASSUME NEW t \in Int
    PROVE  IsDue(t) <=> \E week \in Int : DueIn(t, week)
<1> DEFINE h == t \div PerHour
<1>1. PerHour \in Nat \ {0}
  BY ClockAssumption
<1>2. h \in Int /\ PerHour * h <= t /\ t < PerHour * h + PerHour
  BY <1>1, DivBounds
<1>3. IsDue(t) <=> (h \div 24) % 7 = 1 /\ h % 24 = 9
  BY Days DEF IsDue
<1>4. \A x \in Int : (x \div 24) % 7 = 1 /\ x % 24 = 9 => x = 168 * (x \div 168) + 33
  OBVIOUS
<1>5. \A week \in Int : LET x == 168 * week + 33 IN (x \div 24) % 7 = 1 /\ x % 24 = 9
  OBVIOUS
<1>6. ASSUME IsDue(t)
      PROVE  \E week \in Int : DueIn(t, week)
  <2> DEFINE week == h \div 168
  <2>1. h = 168 * week + 33 /\ week \in Int
    BY <1>2, <1>3, <1>4, <1>6
  <2> HIDE DEF h, week
  <2>2. PerHour * h = 168 * PerHour * week + 33 * PerHour
    BY <1>1, <1>2, <2>1
  <2> QED BY <1>1, <1>2, <2>1, <2>2 DEF DueIn
<1>7. ASSUME NEW week \in Int, DueIn(t, week)
      PROVE  IsDue(t)
  <2> DEFINE x == 168 * week + 33
  <2>1. PerHour * x <= t /\ t < PerHour * x + PerHour
    <3>1. PerHour * x = 168 * PerHour * week + 33 * PerHour
      BY <1>1, <1>7
    <3> QED BY <1>1, <1>7, <3>1 DEF DueIn
  <2>2. h = x
    BY <1>1, <2>1, DivIs
  <2> QED BY <1>3, <1>5, <2>2
<1> QED BY <1>6, <1>7

(* Two weeks are a week's steps apart, or more.                            *)
LEMMA WeeksApart ==
    ASSUME NEW v \in Int, NEW w \in Int, v < w
    PROVE  168 * PerHour * v + 168 * PerHour <= 168 * PerHour * w
<1>1. PerHour \in Nat \ {0}
  BY ClockAssumption
<1>2. 168 * PerHour * w - 168 * PerHour * v = 168 * PerHour * (w - v)
  BY <1>1
<1>3. \A n \in Nat, d \in Nat : n >= 1 => d * n >= d
  OBVIOUS
<1>4. 168 * PerHour * (w - v) >= 168 * PerHour
  BY <1>1, <1>3
<1> QED BY <1>1, <1>2, <1>4

(* From Start to End there is one hour that is due, and Nine begins it.    *)
LEMMA NineIs ==
    /\ Nine \in Start..End
    /\ \A t \in Start..End : IsDue(t) <=> Nine <= t /\ t < Nine + PerHour
<1> DEFINE Begin(week) == 168 * PerHour * week + 33 * PerHour
<1>1. /\ PerHour \in Nat /\ PerHour > 0 /\ Start \in Nat /\ End \in Nat
      /\ End - Start < 168 * PerHour
  BY ClockAssumption
<1>2. PICK t \in Start..End : IsDue(t)
  BY WeekAssumption
<1>3. PICK week \in Int : DueIn(t, week)
  BY <1>2, DueWeek
<1>4. \A w \in Int : Begin(w) \in Int /\ (\A u \in Int : DueIn(u, w) <=> Begin(w) <= u /\ u < Begin(w) + PerHour)
  BY <1>1 DEF DueIn
<1>5. \A v, w \in Int : v < w => Begin(v) + 168 * PerHour <= Begin(w)
  BY <1>1, WeeksApart
<1>6. ~DueIn(Start, week)
  BY <1>1, WeekAssumption, DueWeek
<1> HIDE DEF Begin
<1>7. Start < Begin(week) /\ Begin(week) <= t
  BY <1>1, <1>2, <1>3, <1>4, <1>6
<1>8. ASSUME NEW u \in (Start - 1)..End, IsDue(u), u >= Start \/ u = Begin(week) - 1
      PROVE  Begin(week) <= u /\ u < Begin(week) + PerHour
  <2>1. PICK w \in Int : DueIn(u, w)
    BY <1>1, <1>8, DueWeek
  <2>2. Begin(w) <= u /\ u < Begin(w) + PerHour /\ Begin(w) \in Int
    BY <1>1, <1>4, <2>1
  <2>3. CASE w = week
    BY <2>2, <2>3
  <2>4. CASE w > week
    <3>1. Begin(week) + 168 * PerHour <= Begin(w)
      BY <1>5, <2>4
    <3> QED BY <1>1, <1>2, <1>4, <1>7, <2>2, <3>1
  <2>5. CASE w < week
    <3>1. Begin(w) + 168 * PerHour <= Begin(week)
      BY <1>5, <2>5
    <3>2. Begin(w) < Start
      BY <1>1, <1>2, <1>4, <1>7, <2>2, <3>1
    <3>3. Start <= u
      BY <1>1, <1>4, <1>7, <1>8, <2>2, <3>1
    <3>4. DueIn(Start, w)
      BY <1>1, <1>4, <2>1, <2>2, <3>2, <3>3
    <3> QED BY <1>1, <3>4, WeekAssumption, DueWeek
  <2> QED BY <2>3, <2>4, <2>5
<1>9. \A u \in Start..End : IsDue(u) <=> Begin(week) <= u /\ u < Begin(week) + PerHour
  <2>1. ASSUME NEW u \in Start..End, Begin(week) <= u /\ u < Begin(week) + PerHour
        PROVE  IsDue(u)
    BY <1>1, <1>4, <2>1, DueWeek
  <2> QED BY <1>1, <1>8, <2>1
<1>10. Begin(week) \in Start..End /\ IsDue(Begin(week)) /\ ~IsDue(Begin(week) - 1)
  <2>1. Begin(week) \in Start..End
    BY <1>1, <1>2, <1>4, <1>7
  <2>2. Begin(week) - 1 \in (Start - 1)..End
    BY <1>1, <2>1
  <2> QED BY <1>1, <1>4, <1>8, <1>9, <2>1, <2>2
<1>11. Nine \in Start..End /\ IsDue(Nine) /\ ~IsDue(Nine - 1)
  BY <1>10 DEF Nine
<1>12. Nine = Begin(week)
  <2>1. Begin(week) <= Nine /\ Nine < Begin(week) + PerHour
    BY <1>9, <1>11
  <2>2. Nine \in Int /\ Begin(week) \in Int
    BY <1>1, <1>4, <1>11
  <2>3. ASSUME Nine > Begin(week)
        PROVE  FALSE
    <3>1. Nine - 1 \in Start..End /\ Begin(week) <= Nine - 1 /\ Nine - 1 < Begin(week) + PerHour
      BY <1>1, <1>10, <1>11, <2>1, <2>2, <2>3
    <3>2. IsDue(Nine - 1)
      BY <1>9, <3>1
    <3> QED BY <1>11, <3>2
  <2> QED BY <2>1, <2>2, <2>3
<1> QED BY <1>9, <1>11, <1>12

-----------------------------------------------------------------------------
(***************************************************************************)
(* The life of the process.                                                *)
(***************************************************************************)
(* A process that begins has started nothing.                              *)
LEMMA LifeStarts ==
    ASSUME LifeInit
    PROVE  LifeTypeOK
<1>1. 1 \in 1..Len(Steps) + 1
  BY DEF Steps
<1>2. 1 \in 1..MaxStarts
  BY MaxStartsAssumption
<1> QED BY <1>1, <1>2 DEF LifeInit, LifeTypeOK

(* Where main is at a step, it can go one further.                         *)
LEMMA AtStep ==
    ASSUME step \in 1..Len(Steps) + 1, NEW name, At(name)
    PROVE  step + 1 \in 1..Len(Steps) + 1
BY DEF At, Steps

(* Each step of main goes one further and starts what is its own.          *)
LEMMA LifeBoot ==
    ASSUME LifeTypeOK, Boot
    PROVE  LifeTypeOK'
<1>0. step \in 1..Len(Steps) + 1
  BY DEF LifeTypeOK
<1>1. ASSUME Prepare
      PROVE  LifeTypeOK'
  <2>1. step' \in 1..Len(Steps) + 1
    BY <1>0, <1>1, AtStep DEF Prepare
  <2> QED BY <1>1, <2>1 DEF Prepare, LifeTypeOK
<1>2. ASSUME NEW kind \in Kinds, StartCollector(kind)
      PROVE  LifeTypeOK'
  <2>1. step' \in 1..Len(Steps) + 1
    BY <1>0, <1>2, AtStep DEF StartCollector
  <2> QED BY <1>2, <2>1 DEF StartCollector, LifeTypeOK
<1>3. ASSUME NEW name, At(name), NEW goroutines \in SUBSET Goroutines, Go(goroutines)
      PROVE  LifeTypeOK'
  <2>1. step' \in 1..Len(Steps) + 1
    BY <1>0, <1>3, AtStep DEF Go
  <2> QED BY <1>3, <2>1 DEF Go, LifeTypeOK
<1>4. CASE StartGoroutines
  <2>1. /\ {"digest", "anomalies"} \subseteq Goroutines
        /\ \A name \in {"aggregator", "prometheus", "api"} : {name} \subseteq Goroutines
    BY DEF Goroutines, Servers
  <2> QED BY <1>3, <1>4, <2>1 DEF StartGoroutines
<1> QED BY <1>1, <1>2, <1>4 DEF Boot

(* Signals, servers and loops start nothing.                               *)
LEMMA LifeServe ==
    ASSUME LifeTypeOK, Serve
    PROVE  LifeTypeOK'
<1>1. ASSUME Signal
      PROVE  LifeTypeOK'
  BY <1>1 DEF Signal, LifeTypeOK
<1>2. ASSUME NEW server \in Servers, Listen(server) \/ Return(server) \/ Close(server)
      PROVE  LifeTypeOK'
  BY <1>2 DEF Listen, Return, Close, LifeTypeOK
<1>3. ASSUME NEW name \in Goroutines, LoopEnds(name)
      PROVE  LifeTypeOK'
  BY <1>3 DEF LoopEnds, LifeTypeOK
<1> QED BY <1>1, <1>2, <1>3 DEF Serve

(* However a process ends, nothing of it runs on.                          *)
LEMMA LifeTerminate ==
    ASSUME LifeTypeOK, Terminate
    PROVE  LifeTypeOK' /\ running' = {}
<1>1. ASSUME NEW kind \in Kinds, CollectorFails(kind)
      PROVE  LifeTypeOK' /\ running' = {}
  BY <1>1 DEF CollectorFails, Ends, LifeTypeOK
<1>2. CASE PrepareFails \/ Shutdown \/ Kill
  BY <1>2 DEF PrepareFails, Shutdown, Kill, Fatal, Ends, LifeTypeOK
<1> QED BY <1>1, <1>2 DEF Terminate

(* A restart begins anew.                                                  *)
LEMMA LifeAgain ==
    ASSUME LifeTypeOK, Again
    PROVE  LifeTypeOK' /\ running' = {}
<1>1. starts + 1 \in 1..MaxStarts
  BY MaxStartsAssumption DEF Again, Restart, LifeTypeOK
<1>2. 1 \in 1..Len(Steps) + 1
  BY DEF Steps
<1> QED BY <1>1, <1>2 DEF Again, Restart, NewProcess, LifeTypeOK

(* All the steps together.                                                 *)
LEMMA LifeSteps ==
    ASSUME LifeTypeOK, [Next]_vars
    PROVE  LifeTypeOK'
<1>1. UNCHANGED lifeVars => LifeTypeOK'
  BY DEF lifeVars, LifeTypeOK
<1>2. Clock \/ SendDigest \/ UNCHANGED vars => UNCHANGED lifeVars
  BY DEF Clock, SendDigest, DigestTick, DigestPost, vars
<1> QED BY <1>1, <1>2, LifeBoot, LifeServe, LifeTerminate, LifeAgain DEF Next

-----------------------------------------------------------------------------
(***************************************************************************)
(* The digest.                                                             *)
(***************************************************************************)
(* Digests posted, and the one being written.                              *)
Posted == attempts + (IF digestPc = "wait" THEN 0 ELSE 1)

(* Two ticks of one process are an hour apart, and the first comes an hour *)
(* after its start.  Once a digest is posted or being written, the next    *)
(* tick of whoever runs is past the hour that is due; and one that ran     *)
(* before nine has a tick in that hour to come until it has taken it.      *)
HourInvariant ==
    /\ "digest" \in running => now < nextTick /\ nextTick <= now + PerHour
    /\ tick # {} => tick = {now} /\ nextTick = now + PerHour
    /\ Posted <= 1
    /\ Posted = 1 => now >= Nine
    /\ Posted = 1 /\ "digest" \in running => nextTick >= Nine + PerHour
    /\ Posted = 1 /\ tick # {} => ~IsDue(now)
    /\ "digest" \in running /\ early
       => nextTick < Nine + PerHour \/ Posted = 1 \/ (tick # {} /\ IsDue(now))

DigestInvariant == TypeOK /\ HourInvariant

(* Nine is a time.                                                         *)
LEMMA NineTyped == Nine \in Nat /\ Start <= Nine
BY Constants, NineIs

(* The invariant holds at the beginning.                                   *)
LEMMA Starts ==
    ASSUME Init
    PROVE  DigestInvariant
<1>1. TypeOK
  <2>1. LifeTypeOK /\ Start \in Start..End
    BY LifeStarts, Constants DEF Init
  <2> QED BY <2>1 DEF Init, TypeOK
<1>2. Posted = 0 /\ running = {} /\ tick = {}
  BY DEF Init, LifeInit, Posted
<1>3. HourInvariant
  BY <1>2 DEF HourInvariant
<1> QED BY <1>1, <1>3 DEF DigestInvariant

(* Servers and loops end, and start nothing.                               *)
LEMMA ServeRuns == Serve => running' \subseteq running
BY DEF Serve, Signal, Listen, Return, Close, LoopEnds

(* Every step keeps the types.                                             *)
LEMMA TypeSteps ==
    ASSUME TypeOK, [Next]_vars
    PROVE  TypeOK'
<1> USE Constants, NineTyped
<1>1. LifeTypeOK'
  BY LifeSteps DEF TypeOK
<1>2. CASE Boot
  <2>1. nextTick' \in Nat
    BY <1>2 DEF Boot, TypeOK
  <2>2. early' = (now < Nine) \/ early' = early
    BY <1>2 DEF Boot
  <2>3. early' \in BOOLEAN
    <3>1. (now < Nine) \in BOOLEAN
      OBVIOUS
    <3>2. early \in BOOLEAN
      BY DEF TypeOK
    <3> QED BY <2>2, <3>1, <3>2, Zenon
  <2>4. UNCHANGED <<now, tick, digestPc, attempts>>
    BY <1>2 DEF Boot
  <2> QED BY <1>1, <2>1, <2>3, <2>4 DEF TypeOK
<1>3. CASE Serve \/ Again \/ UNCHANGED vars
  <2>1. UNCHANGED <<now, digestVars, attempts>>
    BY <1>3 DEF Serve, Again, vars
  <2>2. early' = early /\ UNCHANGED <<now, nextTick, tick, digestPc, attempts>>
    BY <2>1 DEF digestVars
  <2> QED BY <1>1, <2>2 DEF TypeOK
<1>4. CASE Terminate
  <2>1. /\ early' = FALSE /\ nextTick' = 0 /\ tick' = {} /\ digestPc' = "wait"
        /\ UNCHANGED <<now, attempts>>
    BY <1>4 DEF Terminate, NoDigest
  <2>2. now \in Start..End /\ attempts \in Nat
    BY DEF TypeOK
  <2> QED BY <1>1, <2>1, <2>2 DEF TypeOK
<1>5. CASE Clock
  <2>1. now' \in Start..End /\ now' = now + 1 /\ now \in Start..End
    BY <1>5 DEF Clock, TypeOK
  <2>2. tick' = {} \/ tick' = {now'}
    BY <1>5 DEF Clock
  <2>3. tick' = {} \/ \E t \in Start..now' : tick' = {t}
    BY <2>1, <2>2
  <2>4. nextTick' \in Nat
    BY <1>5, <2>1 DEF Clock, TypeOK
  <2> QED BY <1>1, <1>5, <2>1, <2>3, <2>4 DEF Clock, TypeOK
<1>6. CASE DigestTick
  BY <1>1, <1>6 DEF DigestTick, TypeOK
<1>7. CASE DigestPost
  BY <1>1, <1>7 DEF DigestPost, TypeOK
<1> QED BY <1>2, <1>3, <1>4, <1>5, <1>6, <1>7 DEF Next, SendDigest

(* Every step keeps what is known of the tickers.                          *)
LEMMA HourSteps ==
    ASSUME DigestInvariant, [Next]_vars
    PROVE  HourInvariant'
<1> USE Constants, NineTyped
<1>1. /\ now \in Nat /\ nextTick \in Nat /\ attempts \in Nat /\ early \in BOOLEAN
      /\ Posted \in Nat /\ Nine \in Nat
  BY DEF DigestInvariant, TypeOK, Posted
<1>2. CASE Boot
  <2>1. UNCHANGED <<now, tick, Posted>>
    BY <1>2 DEF Boot, Posted
  <2>2. CASE "digest" \in running' \ running
    <3>1. nextTick' = now + PerHour /\ early' = (now < Nine)
      BY <1>2, <2>2 DEF Boot
    <3>2. early' => now < Nine
      BY <3>1, Zenon
    <3>3. now < Nine => nextTick' < Nine + PerHour
      BY <1>1, <3>1
    <3>4. early' => nextTick' < Nine + PerHour
      BY <3>2, <3>3, Zenon
    <3>5. /\ now' < nextTick' /\ nextTick' <= now' + PerHour
          /\ tick' # {} => tick' = {now'} /\ nextTick' = now' + PerHour
          /\ Posted' <= 1
          /\ Posted' = 1 => now' >= Nine
          /\ Posted' = 1 => nextTick' >= Nine + PerHour
          /\ Posted' = 1 /\ tick' # {} => ~IsDue(now')
      BY <1>1, <2>1, <3>1 DEF DigestInvariant, HourInvariant
    <3> QED BY <3>4, <3>5 DEF HourInvariant
  <2>3. CASE "digest" \notin running' \ running
    <3>1. UNCHANGED <<nextTick, early>> /\ ("digest" \in running' => "digest" \in running)
      BY <1>2, <2>3 DEF Boot
    <3> QED BY <1>1, <2>1, <3>1 DEF DigestInvariant, HourInvariant
  <2> QED BY <2>2, <2>3
<1>3. CASE Serve \/ Again \/ UNCHANGED vars
  <2>1. UNCHANGED <<now, tick, Posted, nextTick, early>>
    BY <1>3 DEF Serve, Again, Posted, vars, digestVars
  <2>2. "digest" \in running' => "digest" \in running
    BY <1>3, ServeRuns, LifeAgain DEF vars, lifeVars, DigestInvariant, TypeOK
  <2> QED BY <2>1, <2>2 DEF DigestInvariant, HourInvariant
<1>4. CASE Terminate
  <2>1. tick' = {} /\ running' = {} /\ now' = now
    BY <1>4, LifeTerminate DEF Terminate, NoDigest, DigestInvariant, TypeOK
  <2>2. Posted' = attempts /\ attempts <= Posted
    BY <1>1, <1>4 DEF Terminate, NoDigest, Posted
  <2> QED BY <1>1, <2>1, <2>2 DEF DigestInvariant, HourInvariant
<1>5. CASE Clock
  <2>1. /\ tick = {} /\ now' = now + 1 /\ now' \in Start..End
        /\ UNCHANGED <<Posted, early, running>>
    BY <1>5 DEF Clock, Posted, DigestInvariant, TypeOK, lifeVars
  <2>2. IsDue(now') <=> Nine <= now' /\ now' < Nine + PerHour
    BY <2>1, NineIs
  <2>3. CASE "digest" \in running /\ now' = nextTick
    <3>1. tick' = {now'} /\ nextTick' = now' + PerHour
      BY <1>5, <2>3 DEF Clock
    <3> QED BY <1>1, <2>1, <2>2, <2>3, <3>1 DEF DigestInvariant, HourInvariant
  <2>4. CASE ~("digest" \in running /\ now' = nextTick)
    <3>1. tick' = {} /\ nextTick' = nextTick
      BY <1>5, <2>1, <2>4 DEF Clock
    <3> QED BY <1>1, <2>1, <2>4, <3>1 DEF DigestInvariant, HourInvariant
  <2> QED BY <2>3, <2>4
<1>6. CASE DigestTick
  <2>1. /\ digestPc = "wait" /\ tick = {now} /\ tick' = {} /\ nextTick = now + PerHour
        /\ UNCHANGED <<now, nextTick, early, running, attempts>>
    BY <1>6 DEF DigestTick, lifeVars, DigestInvariant, HourInvariant
  <2>2. now \in Start..End
    BY DEF DigestInvariant, TypeOK
  <2>3. IsDue(now) <=> Nine <= now /\ now < Nine + PerHour
    BY <2>2, NineIs
  <2>4. CASE IsDue(now)
    <3>1. digestPc' = "post" /\ Posted = 0
      BY <1>1, <1>6, <2>1, <2>4 DEF DigestTick, DigestInvariant, HourInvariant
    <3>2. Posted' = 1
      BY <1>1, <2>1, <3>1 DEF Posted
    <3> QED BY <1>1, <2>1, <2>3, <2>4, <3>2 DEF DigestInvariant, HourInvariant
  <2>5. CASE ~IsDue(now)
    <3>1. Posted' = Posted
      BY <1>6, <2>1, <2>5 DEF DigestTick, Posted
    <3> QED BY <1>1, <2>1, <2>5, <3>1 DEF DigestInvariant, HourInvariant
  <2> QED BY <2>4, <2>5
<1>7. CASE DigestPost
  <2>1. UNCHANGED <<now, tick, nextTick, early, running>>
    BY <1>7 DEF DigestPost, lifeVars
  <2>2. Posted' = Posted
    BY <1>1, <1>7 DEF DigestPost, Posted
  <2> QED BY <2>1, <2>2 DEF DigestInvariant, HourInvariant
<1> QED BY <1>2, <1>3, <1>4, <1>5, <1>6, <1>7 DEF Next, SendDigest

(* The clock, the ticker, the goroutine and the process together.          *)
LEMMA Invariant == Spec => []DigestInvariant
<1>1. DigestInvariant /\ [Next]_vars => DigestInvariant'
  BY TypeSteps, HourSteps DEF DigestInvariant
<1> QED BY <1>1, Starts, PTL DEF Spec

(* The variables of the digest and of the process keep their types.        *)
THEOREM DigestTypeCorrect == Spec => []TypeOK
<1>1. DigestInvariant => TypeOK
  BY DEF DigestInvariant
<1> QED BY <1>1, Invariant, PTL

(* One digest a week, however often the process ends and starts again and  *)
(* whatever the phases of the tickers (StartWeeklyDigest).                 *)
THEOREM DigestOnceCorrect == Spec => []DigestOnce
<1>1. ASSUME DigestInvariant
      PROVE  DigestOnce
  BY <1>1 DEF DigestInvariant, TypeOK, HourInvariant, Posted, DigestOnce
<1> QED BY <1>1, Invariant, PTL

(* A process that ran before nine and still does at ten has posted the     *)
(* digest, or one before it had: no phase of the ticker misses the hour.   *)
THEOREM DigestSentCorrect == Spec => []DigestSent
<1>1. ASSUME DigestInvariant
      PROVE  DigestSent
  <2>1. now \in Nat /\ nextTick \in Nat /\ attempts \in Nat
    BY <1>1, Constants DEF DigestInvariant, TypeOK
  <2>2. digestPc = "wait" => Posted = attempts
    BY <2>1 DEF Posted
  <2>3. ASSUME "digest" \in running, early, now >= Nine + PerHour, tick = {}, digestPc = "wait"
        PROVE  attempts = 1
    <3>1. nextTick < Nine + PerHour \/ Posted = 1
      BY <1>1, <2>3, Zenon DEF DigestInvariant, HourInvariant
    <3>2. now < nextTick
      BY <1>1, <2>3 DEF DigestInvariant, HourInvariant
    <3> QED BY <2>1, <2>2, <2>3, <3>1, <3>2, Constants, NineTyped
  <2> QED BY <2>3 DEF DigestSent
<1> QED BY <1>1, Invariant, PTL
=============================================================================
