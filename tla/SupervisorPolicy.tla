-------------------------- MODULE SupervisorPolicy --------------------------
(***************************************************************************)
(* The restart policy of the champion engine: bounded exponential backoff, *)
(* a circuit breaker with a half-open probe, and the warm-up grace of a    *)
(* start (src/cortex-speech-app/src-tauri/src/engine_supervisor.rs).       *)
(*                                                                         *)
(* The code keeps instants on one monotonic clock and compares them with   *)
(* the present.  Here every instant is kept relative to the present: an    *)
(* instant to come by what is left of it (0 once it has passed), the last  *)
(* attempt by its age, which no comparison tells apart beyond MaxBackoff.  *)
(***************************************************************************)
EXTENDS Integers

CONSTANTS
    MaxFailures,    \* consecutive failures that trip the breaker
    BaseBackoff,    \* first delay between two attempts
    MaxBackoff,     \* largest delay between two attempts
    OpenCooldown,   \* how long a tripped breaker stays open
    MaxTrips,       \* trips before giving up
    Warmup          \* grace of a start

ASSUME PolicyAssumption ==
    /\ MaxFailures \in Nat \ {0}
    /\ BaseBackoff \in Nat \ {0}
    /\ MaxBackoff \in Nat \ {0}
    /\ OpenCooldown \in Nat \ {0}
    /\ MaxTrips \in Nat \ {0}
    /\ Warmup \in Nat \ {0}

\* Option::None of an instant.
Unset == -1

Breakers == {"Closed", "Open", "HalfOpen", "GaveUp"}

Decisions == {"Idle", "Restart", "Wait", "Cooldown", "GaveUp"}

Least(a, b) == IF a < b THEN a ELSE b

\* EngineSupervisor and the warm-up of its SupervisionState.
SupervisionStates ==
    [breaker   : Breakers,
     failures  : 0 .. (MaxFailures + MaxTrips),
     trips     : 0 .. MaxTrips,
     lastAge   : {Unset} \cup 0 .. MaxBackoff,
     openLeft  : {Unset} \cup 0 .. OpenCooldown,
     warmLeft  : {Unset} \cup 0 .. Warmup]

NewState ==
    [breaker |-> "Closed", failures |-> 0, trips |-> 0,
     lastAge |-> Unset, openLeft |-> Unset, warmLeft |-> Unset]

\* The clock moves on by t.
Left(left, t) ==
    IF left = Unset THEN Unset ELSE IF left < t THEN 0 ELSE left - t

Elapsed(s, t) ==
    [s EXCEPT !.lastAge  = IF @ = Unset THEN Unset ELSE Least(@ + t, MaxBackoff),
              !.openLeft = Left(@, t),
              !.warmLeft = Left(@, t)]

OnHealthy(s) ==
    [s EXCEPT !.failures = 0, !.trips = 0, !.breaker = "Closed", !.openLeft = Unset]

\* Variant: the failure that reaches the limit does not trip yet.
OnFailureLate(s) ==
    LET failures == s.failures + 1
        tripped  == s.breaker = "HalfOpen" \/ failures > MaxFailures
        trips    == s.trips + 1
        gaveUp   == trips >= MaxTrips
    IN  IF s.breaker = "GaveUp" THEN s
        ELSE IF ~tripped THEN [s EXCEPT !.failures = failures, !.lastAge = 0]
        ELSE [s EXCEPT !.failures = failures, !.lastAge = 0, !.trips = trips,
                       !.breaker  = IF gaveUp THEN "GaveUp" ELSE "Open",
                       !.openLeft = IF gaveUp THEN Unset ELSE OpenCooldown]

\* Both counters saturate in the code; GaveUp is reached long before.
OnFailure(s) ==
    LET failures == s.failures + 1
        tripped  == s.breaker = "HalfOpen" \/ failures >= MaxFailures
        trips    == s.trips + 1
        gaveUp   == trips >= MaxTrips
    IN  IF s.breaker = "GaveUp" THEN s
        ELSE IF ~tripped THEN [s EXCEPT !.failures = failures, !.lastAge = 0]
        ELSE [s EXCEPT !.failures = failures,
                       !.lastAge  = 0,
                       !.trips    = trips,
                       !.breaker  = IF gaveUp THEN "GaveUp" ELSE "Open",
                       !.openLeft = IF gaveUp THEN Unset ELSE OpenCooldown]

\* An attempt made while the breaker is open is the half-open probe.
OnRestartAttempt(s) ==
    [s EXCEPT !.lastAge = 0,
              !.breaker = IF @ = "Open" THEN "HalfOpen" ELSE @]

Reset(s) ==
    [s EXCEPT !.breaker = "Closed", !.failures = 0, !.trips = 0,
              !.openLeft = Unset, !.lastAge = Unset]

CurrentBackoff(s) ==
    IF s.failures = 0 THEN 0
    ELSE Least(BaseBackoff * 2 ^ (s.failures - 1), MaxBackoff)

\* Variant: a cooldown that ends exactly at a tick is taken for one that runs.
DecideStrictly(s) ==
    CASE s.breaker = "GaveUp"   -> "GaveUp"
      [] s.breaker = "Open"     -> IF s.openLeft < 0 THEN "Restart" ELSE "Cooldown"
      [] s.breaker = "HalfOpen" -> "Wait"
      [] s.breaker = "Closed"   -> IF s.lastAge # Unset /\ s.lastAge < CurrentBackoff(s)
                                   THEN "Wait" ELSE "Restart"

Decide(s) ==
    CASE s.breaker = "GaveUp"   -> "GaveUp"
      [] s.breaker = "Open"     -> IF s.openLeft <= 0 THEN "Restart" ELSE "Cooldown"
      [] s.breaker = "HalfOpen" -> "Wait"
      [] s.breaker = "Closed"   -> IF s.lastAge # Unset /\ s.lastAge < CurrentBackoff(s)
                                   THEN "Wait" ELSE "Restart"

ManualStart(s) == [OnRestartAttempt(Reset(s)) EXCEPT !.warmLeft = Warmup]

\* A start that fails at once is charged now, without the grace of a load.
OnStartFailed(s) == OnFailure([s EXCEPT !.warmLeft = Unset])

\* A start whose warm-up is over without an answer has failed, once.
Judged(s) == IF s.warmLeft = 0 THEN OnStartFailed(s) ELSE s

\* One tick: the state after it and what the loop is to do.
TickDecision(s, healthy) ==
    CASE healthy                 -> "Idle"
      [] ~healthy /\ s.warmLeft > 0 -> "Wait"
      [] OTHER                   -> Decide(Judged(s))

TickState(s, healthy) ==
    IF healthy THEN [OnHealthy(s) EXCEPT !.warmLeft = Unset]
    ELSE IF s.warmLeft > 0 THEN s
    ELSE IF Decide(Judged(s)) = "Restart"
         THEN [OnRestartAttempt(Judged(s)) EXCEPT !.warmLeft = Warmup]
         ELSE Judged(s)

=============================================================================
