------------------------------- MODULE Digest -------------------------------
(***************************************************************************)
(* The agent in the hours around a Monday 9:00: the process that may end   *)
(* and start again, and the goroutine of StartWeeklyDigest with its hourly *)
(* ticker (internal/exporter/slack.go).                                    *)
(*                                                                         *)
(* Time is in steps of an hour divided by PerHour, from a Sunday 0:00.     *)
(***************************************************************************)
EXTENDS Lifecycle

CONSTANTS
    PerHour,      \* steps of the clock in an hour
    Start, End    \* bound: the clock goes from Start to End, within one week

ASSUME ClockAssumption ==
    /\ PerHour \in Nat \ {0}
    /\ Start \in Nat /\ End \in Nat /\ End - Start < 7 * 24 * PerHour

VARIABLES
    now,          \* the clock
    nextTick,     \* when the ticker fires next
    tick,         \* the channel of the ticker: at most one time
    digestPc,     \* where the goroutine is
    attempts,     \* history variable: digests posted, by all processes
    early         \* history variable: this process's goroutine started before nine

digestVars == <<nextTick, tick, digestPc, early>>
vars == <<lifeVars, now, digestVars, attempts>>

TypeOK ==
    /\ LifeTypeOK
    /\ now \in Start..End
    /\ nextTick \in Nat /\ early \in BOOLEAN
    /\ tick = {} \/ \E t \in Start..now : tick = {t}
    /\ digestPc \in {"wait", "post"}
    /\ attempts \in Nat

(* Mutant: any day of the week.                                            *)
IsDueDaily(t) == (t \div PerHour) % 24 = 9

(* Mutant: the hour must have just begun.                                  *)
IsDueOnTheHour(t) ==
    (t \div (24 * PerHour)) % 7 = 1 /\ (t \div PerHour) % 24 = 9 /\ t % PerHour = 0

(* t.Weekday() == time.Monday && t.Hour() == 9                             *)
IsDue(t) == (t \div (24 * PerHour)) % 7 = 1 /\ (t \div PerHour) % 24 = 9

(* The clock does not start in the hour of the digest, and comes to it.    *)
ASSUME WeekAssumption == ~IsDue(Start) /\ \E t \in Start..End : IsDue(t)

(* When that hour begins.                                                  *)
Nine == CHOOSE t \in Start..End : IsDue(t) /\ ~IsDue(t - 1)

Init ==
    /\ LifeInit
    /\ now = Start
    /\ nextTick = 0 /\ tick = {} /\ digestPc = "wait" /\ early = FALSE
    /\ attempts = 0

-----------------------------------------------------------------------------
(* Steps of the process.  The ticker is made when the goroutine starts.    *)
Boot ==
    /\ \/ Prepare
       \/ \E kind \in Kinds : StartCollector(kind)
       \/ StartGoroutines
    /\ IF "digest" \in running' \ running
         THEN nextTick' = now + PerHour /\ early' = (now < Nine)
         ELSE UNCHANGED <<nextTick, early>>
    /\ UNCHANGED <<now, tick, digestPc, attempts>>

Serve ==
    /\ \/ Signal
       \/ \E server \in Servers : Listen(server) \/ Return(server) \/ Close(server)
       \/ \E name \in Goroutines : LoopEnds(name) /\ (name = "digest" => digestPc = "wait")
    /\ UNCHANGED <<now, digestVars, attempts>>

NoDigest == nextTick' = 0 /\ tick' = {} /\ digestPc' = "wait" /\ early' = FALSE

Terminate ==
    /\ PrepareFails \/ (\E kind \in Kinds : CollectorFails(kind)) \/ Shutdown \/ Kill
    /\ NoDigest
    /\ UNCHANGED <<now, attempts>>

Again == Restart /\ UNCHANGED <<now, digestVars, attempts>>

-----------------------------------------------------------------------------
(* The clock.  What is due within seconds is done before it moves: a tick  *)
(* is taken, a post is over in 10 s, a server listens or fails, and main   *)
(* waits only for the API server of the cluster and at its end, where it   *)
(* returns at a signal.                                                    *)
Clock ==
    /\ now < End
    /\ status = "up" => At("enricher") \/ (step > Len(Steps) /\ ~cancelled)
    /\ Servers \cap running \subseteq listening
    /\ tick = {} /\ digestPc = "wait"
    /\ now' = now + 1
    /\ IF "digest" \in running /\ now' = nextTick
         THEN tick' = {now'} /\ nextTick' = now' + PerHour
         ELSE UNCHANGED <<tick, nextTick>>
    /\ UNCHANGED <<lifeVars, digestPc, attempts, early>>

(* A tick is received; if it is due, sendWeeklyDigest begins: it makes its *)
(* message of the latest snapshot and of the waste report.                 *)
DigestTick ==
    /\ "digest" \in running /\ digestPc = "wait" /\ tick # {}
    /\ tick' = {}
    /\ digestPc' = IF \E t \in tick : IsDue(t) THEN "post" ELSE "wait"
    /\ UNCHANGED <<lifeVars, now, nextTick, attempts, early>>

(* sendAlert: posted once, whatever comes of it.                           *)
DigestPost ==
    /\ digestPc = "post"
    /\ digestPc' = "wait"
    /\ attempts' = attempts + 1
    /\ UNCHANGED <<lifeVars, now, nextTick, tick, early>>

SendDigest == DigestTick \/ DigestPost

Next == Boot \/ Serve \/ Terminate \/ Again \/ Clock \/ SendDigest

Spec == Init /\ [][Next]_vars

(* main goes on when it can; nobody else owes anything.                    *)
FairSpec == Spec /\ WF_vars(Boot) /\ WF_vars(Shutdown /\ Terminate)

-----------------------------------------------------------------------------
(* An agent posts the digest of a week at most once, although processes    *)
(* that follow one another each have a ticker of their own phase.          *)
DigestOnce == attempts <= 1

(* When one process was running before nine and still is at ten, it has    *)
(* posted the digest, at whatever minute its ticker fires.  (It has tried  *)
(* to: what becomes of the post is not looked at.)                         *)
DigestSent ==
    /\ "digest" \in running /\ early /\ now >= Nine + PerHour
    /\ tick = {} /\ digestPc = "wait"
    => attempts = 1

(* A signal ends the process, whatever step main is at when it comes and   *)
(* whatever the servers, the aggregator or a digest are in the middle of.  *)
ShutdownEnds == signalled /\ status = "up" ~> status # "up"
=============================================================================
