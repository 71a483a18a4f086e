------------------------ MODULE ChampionEngineProofs ------------------------
(***************************************************************************)
(* Theorems about ChampionEngine: for every restart policy and any number  *)
(* of crashes, clicks and toggles the loop starts a silent engine a        *)
(* bounded number of times, no ordinary start meets a promotion that is    *)
(* unresolved, what the journal records is true of the registry and of     *)
(* champion.json, and a promotion ends on a proof made by its own process. *)
(***************************************************************************)
EXTENDS ChampionEngine, SequenceTheorems, TLAPS

-----------------------------------------------------------------------------
(* The bound of the starts.                                                *)

\* The shape of a supervisor's state, without the bounds of its fields.
SupervisorRecords ==
    [breaker : Breakers, failures : Nat, trips : Nat,
     lastAge : Int, openLeft : Int, warmLeft : Int]

\* The supervisor's state with its counters tied to its breaker: a closed
\* breaker has not reached the limit and has never tripped; after the first
\* trip every failure is a trip.
Charged(s) ==
    /\ s \in SupervisorRecords
    /\ s.warmLeft >= Unset
    /\ s.breaker = "Closed" => s.failures < MaxFailures /\ s.trips = 0
    /\ s.breaker # "Closed" => s.failures = MaxFailures + s.trips - 1 /\ s.trips > 0
    /\ s.trips <= MaxTrips
    /\ s.breaker \in {"Open", "HalfOpen"} => s.trips < MaxTrips
    /\ s.breaker \in {"Open", "GaveUp"} => s.warmLeft = Unset

\* Every start but the one that is warming up has been charged as a failure.
Accounted(n, s) ==
    /\ n \in Nat
    /\ n <= s.failures + (IF s.warmLeft = Unset THEN 0 ELSE 1)

\* A start that was decided and not yet made is warming up.
StartIsWarm == loop.at \in {"start", "spawn"} => sup.warmLeft # Unset

LoopTyped ==
    loop \in [at : {"off", "sleep", "probe", "decide", "start", "spawn"},
              healthy : BOOLEAN, was : BOOLEAN]

BoundInv == Charged(sup) /\ Accounted(starts, sup) /\ StartIsWarm /\ LoopTyped

\* A new or a reset supervisor has nothing to its charge.
LEMMA ChargedNew == Charged(NewState) /\ Accounted(0, NewState)
  BY PolicyAssumption DEF Charged, Accounted, NewState, SupervisorRecords, Breakers, Unset

\* A state is made from its fields.
LEMMA Made ==
    ASSUME NEW b \in Breakers, NEW f \in Nat, NEW t \in Nat,
           NEW a \in Int, NEW o \in Int, NEW w \in Int,
           NEW r, r = [breaker |-> b, failures |-> f, trips |-> t, lastAge |-> a,
                       openLeft |-> o, warmLeft |-> w]
    PROVE  /\ r \in SupervisorRecords
           /\ r.breaker = b /\ r.failures = f /\ r.trips = t /\ r.warmLeft = w
  BY DEF SupervisorRecords

\* The fields of a supervisor's state are in their sets.
LEMMA Fields ==
    ASSUME NEW s \in SupervisorRecords
    PROVE  /\ s.breaker \in Breakers /\ s.failures \in Nat /\ s.trips \in Nat
           /\ s.lastAge \in Int /\ s.openLeft \in Int /\ s.warmLeft \in Int
  BY DEF SupervisorRecords

\* Time moves no counter, and ends no warm-up before it is judged.
LEMMA ChargedElapsed ==
    ASSUME NEW s, NEW n, NEW t \in Nat, Charged(s), Accounted(n, s)
    PROVE  /\ Charged(Elapsed(s, t)) /\ Accounted(n, Elapsed(s, t))
           /\ s.warmLeft # Unset => Elapsed(s, t).warmLeft # Unset
<1> DEFINE r == Elapsed(s, t)
           age == IF s.lastAge = Unset THEN Unset ELSE Least(s.lastAge + t, MaxBackoff)
<1>1. s \in SupervisorRecords /\ s.warmLeft \in Int /\ s.openLeft \in Int /\ s.lastAge \in Int
  BY DEF Charged, SupervisorRecords
<1>2. /\ Left(s.openLeft, t) \in Int /\ Left(s.warmLeft, t) \in Int /\ age \in Int
      /\ s.warmLeft = Unset => Left(s.warmLeft, t) = Unset
      /\ s.warmLeft > Unset => Left(s.warmLeft, t) > Unset
  BY <1>1, PolicyAssumption DEF Left, Least, Unset
<1>3. /\ r \in SupervisorRecords
      /\ r.breaker = s.breaker /\ r.failures = s.failures /\ r.trips = s.trips
      /\ r.warmLeft = Left(s.warmLeft, t)
  <2>1. r = [s EXCEPT !.lastAge = age, !.openLeft = Left(s.openLeft, t),
                      !.warmLeft = Left(s.warmLeft, t)]
    BY DEF Elapsed
  <2> HIDE DEF r, age
  <2> QED BY <1>1, <1>2, <2>1 DEF SupervisorRecords
<1> HIDE DEF r
<1>4. s.warmLeft >= Unset
  BY DEF Charged
<1>5. (r.warmLeft = Unset) = (s.warmLeft = Unset) /\ r.warmLeft >= Unset
  BY <1>1, <1>2, <1>3, <1>4 DEF Unset
<1>6. Charged(r) /\ Accounted(n, r) /\ (s.warmLeft # Unset => r.warmLeft # Unset)
  BY <1>3, <1>5 DEF Charged, Accounted
<1> QED BY <1>6 DEF r

\* A failure that is charged accounts for the start that was warming up.
LEMMA ChargedFailure ==
    ASSUME NEW s, NEW n, Charged(s), Accounted(n, s), s.warmLeft # Unset
    PROVE  /\ Charged(OnStartFailed(s)) /\ Accounted(n, OnStartFailed(s))
           /\ OnStartFailed(s).warmLeft = Unset
<1> DEFINE c == [s EXCEPT !.warmLeft = Unset]
           r == OnStartFailed(s)
           tripped == s.breaker = "HalfOpen" \/ s.failures + 1 >= MaxFailures
           gaveUp == s.trips + 1 >= MaxTrips
<1>1. s \in SupervisorRecords /\ s.breaker \in {"Closed", "HalfOpen"}
  BY DEF Charged, SupervisorRecords, Breakers
<1>2. s.failures \in Nat /\ s.trips \in Nat /\ s.openLeft \in Int /\ s.warmLeft \in Int
  BY <1>1, Fields
<1>3. /\ c \in SupervisorRecords /\ c.breaker = s.breaker /\ c.failures = s.failures
      /\ c.trips = s.trips /\ c.warmLeft = Unset /\ c.openLeft = s.openLeft
  BY <1>1 DEF SupervisorRecords, Unset
<1>4. r = OnFailure(c)
  BY DEF OnStartFailed
<1> HIDE DEF c
<1>5. CASE ~tripped
  <2>1. r = [c EXCEPT !.failures = s.failures + 1, !.lastAge = 0]
    BY <1>1, <1>2, <1>3, <1>4, <1>5 DEF OnFailure
  <2> HIDE DEF r
  <2>2. r = [breaker |-> s.breaker, failures |-> s.failures + 1, trips |-> s.trips,
             lastAge |-> 0, openLeft |-> s.openLeft, warmLeft |-> Unset]
    BY <1>3, <2>1 DEF SupervisorRecords
  <2>3. /\ r \in SupervisorRecords /\ r.breaker = s.breaker /\ r.failures = s.failures + 1
        /\ r.trips = s.trips /\ r.warmLeft = Unset
    <3>1. s.breaker \in Breakers /\ s.failures + 1 \in Nat /\ Unset \in Int
      BY <1>1, <1>2 DEF Breakers, Unset
    <3> QED BY <1>2, <2>2, <3>1 DEF SupervisorRecords
  <2>4. Charged(r) /\ Accounted(n, r) /\ r.warmLeft = Unset
    BY <1>1, <1>2, <1>5, <2>3, PolicyAssumption DEF Charged, Accounted, Unset
  <2> QED BY <2>4 DEF r
<1>6. CASE tripped
  <2> DEFINE b == IF gaveUp THEN "GaveUp" ELSE "Open"
             o == IF gaveUp THEN Unset ELSE OpenCooldown
  <2>1. r = [c EXCEPT !.failures = s.failures + 1, !.lastAge = 0, !.trips = s.trips + 1,
                      !.breaker = b, !.openLeft = o]
    BY <1>1, <1>2, <1>3, <1>4, <1>6 DEF OnFailure
  <2>2. b \in Breakers /\ o \in Int /\ s.failures + 1 \in Nat /\ s.trips + 1 \in Nat
        /\ Unset \in Int
    BY <1>2, PolicyAssumption DEF Breakers, Unset
  <2> HIDE DEF r, o
  <2>3. r.breaker = b /\ r \in SupervisorRecords /\ r.failures = s.failures + 1
        /\ r.trips = s.trips + 1 /\ r.warmLeft = Unset
    <3> HIDE DEF b
    <3>1. r = [breaker |-> b, failures |-> s.failures + 1, trips |-> s.trips + 1,
               lastAge |-> 0, openLeft |-> o, warmLeft |-> Unset]
      BY <1>3, <2>1 DEF SupervisorRecords
    <3> QED BY <2>2, <3>1, Made
  <2>4. Charged(r) /\ Accounted(n, r) /\ r.warmLeft = Unset
    BY <1>1, <1>2, <1>6, <2>3, PolicyAssumption DEF Charged, Accounted, Unset
  <2> QED BY <2>4 DEF r
<1> QED BY <1>5, <1>6

\* The owner's start begins from nothing.
LEMMA ChargedManual ==
    ASSUME NEW s, Charged(s)
    PROVE  Charged(ManualStart(s)) /\ Accounted(0, ManualStart(s))
<1> DEFINE r == ManualStart(s)
<1>1. s \in SupervisorRecords
  BY DEF Charged
<1>2. /\ r \in SupervisorRecords /\ r.breaker = "Closed" /\ r.failures = 0
      /\ r.trips = 0 /\ r.warmLeft = Warmup
  <2> DEFINE q == Reset(s)
  <2>1. q = [breaker |-> "Closed", failures |-> 0, trips |-> 0, lastAge |-> Unset,
             openLeft |-> Unset, warmLeft |-> s.warmLeft]
    <3>1. "Closed" \in Breakers /\ Unset \in Int
      BY DEF Breakers, Unset
    <3>2. q = [s EXCEPT !.breaker = "Closed", !.failures = 0, !.trips = 0,
                        !.openLeft = Unset, !.lastAge = Unset]
      BY DEF Reset
    <3> HIDE DEF q
    <3> QED BY <1>1, <3>1, <3>2 DEF SupervisorRecords
  <2>2. r = [OnRestartAttempt(q) EXCEPT !.warmLeft = Warmup]
    BY DEF ManualStart
  <2> HIDE DEF q
  <2>3. OnRestartAttempt(q) = [breaker |-> "Closed", failures |-> 0, trips |-> 0,
                               lastAge |-> 0, openLeft |-> Unset, warmLeft |-> s.warmLeft]
    <3>1. OnRestartAttempt(q) = [q EXCEPT !.lastAge = 0, !.breaker = "Closed"]
      BY <2>1 DEF OnRestartAttempt
    <3> QED BY <2>1, <3>1
  <2>4. r = [breaker |-> "Closed", failures |-> 0, trips |-> 0,
             lastAge |-> 0, openLeft |-> Unset, warmLeft |-> Warmup]
    BY <2>2, <2>3
  <2>5. "Closed" \in Breakers /\ Unset \in Int /\ Warmup \in Int
    BY PolicyAssumption DEF Breakers, Unset
  <2> HIDE DEF r
  <2> QED BY <2>4, <2>5, Made
<1> HIDE DEF r
<1>3. Charged(r) /\ Accounted(0, r)
  BY <1>2, PolicyAssumption DEF Charged, Accounted, Unset
<1> QED BY <1>3 DEF r

\* A start whose warm-up is over is charged before anything is decided.
LEMMA ChargedJudged ==
    ASSUME NEW s, NEW n, Charged(s), Accounted(n, s), ~(s.warmLeft > 0)
    PROVE  /\ Charged(Judged(s)) /\ Accounted(n, Judged(s))
           /\ Judged(s).warmLeft = Unset
<1>1. CASE s.warmLeft = 0
  BY <1>1, ChargedFailure DEF Judged, Unset
<1>2. CASE s.warmLeft # 0
  BY <1>2 DEF Judged, Charged, SupervisorRecords, Unset
<1> QED BY <1>1, <1>2

\* Only a closed breaker, or an open one, asks for a restart.
LEMMA RestartFrom ==
    ASSUME NEW s, Charged(s), Decide(s) = "Restart"
    PROVE  s.breaker \in {"Closed", "Open"}
  BY DEF Decide, Charged, SupervisorRecords, Breakers

\* A restart is one more start, warming up.
LEMMA ChargedRestart ==
    ASSUME NEW s, NEW n, Charged(s), Accounted(n, s), s.warmLeft = Unset,
           s.breaker \in {"Closed", "Open"}
    PROVE  LET r == [OnRestartAttempt(s) EXCEPT !.warmLeft = Warmup]
           IN  Charged(r) /\ Accounted(n + 1, r) /\ r.warmLeft # Unset
<1> DEFINE r == [OnRestartAttempt(s) EXCEPT !.warmLeft = Warmup]
<1>1. s \in SupervisorRecords /\ s.failures \in Nat /\ s.trips \in Nat
  BY DEF Charged, SupervisorRecords
<1>2. /\ r \in SupervisorRecords /\ r.failures = s.failures /\ r.trips = s.trips
      /\ r.breaker = (IF s.breaker = "Open" THEN "HalfOpen" ELSE "Closed")
      /\ r.warmLeft = Warmup
  <2> DEFINE b == IF s.breaker = "Open" THEN "HalfOpen" ELSE "Closed"
  <2>1. /\ s.breaker = "Open" => b = "HalfOpen"
        /\ s.breaker # "Open" => b = s.breaker
        /\ b \in Breakers
    BY DEF Breakers
  <2> HIDE DEF b
  <2>2. OnRestartAttempt(s) = [s EXCEPT !.lastAge = 0, !.breaker = b]
    <3>1. CASE s.breaker = "Open"
      BY <2>1, <3>1 DEF OnRestartAttempt
    <3>2. CASE s.breaker # "Open"
      BY <2>1, <3>2 DEF OnRestartAttempt
    <3> QED BY <3>1, <3>2
  <2>3. r = [breaker |-> b, failures |-> s.failures, trips |-> s.trips, lastAge |-> 0,
             openLeft |-> s.openLeft, warmLeft |-> Warmup]
    <3>1. r = [s EXCEPT !.lastAge = 0, !.breaker = b, !.warmLeft = Warmup]
      BY <2>2
    <3> HIDE DEF r
    <3> QED BY <1>1, <2>1, <3>1 DEF SupervisorRecords
  <2> HIDE DEF r
  <2>4. s.openLeft \in Int /\ Warmup \in Int
    BY <1>1, Fields, PolicyAssumption
  <2>5. /\ r \in SupervisorRecords /\ r.failures = s.failures /\ r.trips = s.trips
        /\ r.breaker = b /\ r.warmLeft = Warmup
    <3> DEFINE f == s.failures
               t == s.trips
               o == s.openLeft
    <3>1. b \in Breakers /\ f \in Nat /\ t \in Nat /\ o \in Int /\ Warmup \in Int
      BY <1>1, <2>1, <2>4
    <3>2. r = [breaker |-> b, failures |-> f, trips |-> t, lastAge |-> 0, openLeft |-> o,
               warmLeft |-> Warmup]
      BY <2>3
    <3> HIDE DEF f, t, o
    <3>3. /\ r \in SupervisorRecords
          /\ r.breaker = b /\ r.failures = f /\ r.trips = t /\ r.warmLeft = Warmup
      BY <3>1, <3>2, Made
    <3> QED BY <3>3 DEF f, t
  <2> QED BY <2>5 DEF b
<1> HIDE DEF r
<1>3. Charged(r) /\ Accounted(n + 1, r) /\ r.warmLeft # Unset
  BY <1>1, <1>2, PolicyAssumption DEF Charged, Accounted, Unset
<1> QED BY <1>3 DEF r

\* One tick of the loop.
LEMMA ChargedTick ==
    ASSUME NEW s, NEW n, NEW healthy \in BOOLEAN, Charged(s), Accounted(n, s),
           NEW m, m = CASE TickDecision(s, healthy) = "Idle"    -> 0
                        [] TickDecision(s, healthy) = "Restart" -> n + 1
                        [] OTHER                                -> n
    PROVE  /\ Charged(TickState(s, healthy)) /\ Accounted(m, TickState(s, healthy))
           /\ TickDecision(s, healthy) = "Restart" => TickState(s, healthy).warmLeft # Unset
<1>1. CASE healthy
  <2>1. m = 0 /\ TickDecision(s, healthy) = "Idle"
    BY <1>1 DEF TickDecision
  <2>2. TickState(s, healthy) = [OnHealthy(s) EXCEPT !.warmLeft = Unset]
    BY <1>1 DEF TickState
  <2> DEFINE r == TickState(s, healthy)
  <2>3. s \in SupervisorRecords
    BY DEF Charged
  <2>4. /\ r \in SupervisorRecords /\ r.breaker = "Closed" /\ r.failures = 0
        /\ r.trips = 0 /\ r.warmLeft = Unset
    <3>1. r = [breaker |-> "Closed", failures |-> 0, trips |-> 0, lastAge |-> s.lastAge,
               openLeft |-> Unset, warmLeft |-> Unset]
      BY <2>2, <2>3 DEF OnHealthy, SupervisorRecords
    <3>2. s.lastAge \in Int /\ "Closed" \in Breakers /\ Unset \in Int
      BY <2>3, Fields DEF Breakers, Unset
    <3> HIDE DEF r
    <3> QED BY <3>1, <3>2, Made
  <2> HIDE DEF r
  <2>5. Charged(r) /\ Accounted(0, r)
    BY <2>4, PolicyAssumption DEF Charged, Accounted, Unset
  <2> QED BY <2>1, <2>5 DEF r
<1>2. CASE ~healthy /\ s.warmLeft > 0
  <2>1. TickDecision(s, healthy) = "Wait" /\ TickState(s, healthy) = s
    BY <1>2 DEF TickDecision, TickState
  <2>2. m = n
    BY <2>1
  <2> QED BY <2>1, <2>2
<1>3. CASE ~healthy /\ ~(s.warmLeft > 0)
  <2> DEFINE j == Judged(s)
  <2>1. Charged(j) /\ Accounted(n, j) /\ j.warmLeft = Unset
    BY <1>3, ChargedJudged
  <2>2. TickDecision(s, healthy) = Decide(j)
    BY <1>3 DEF TickDecision
  <2>3. TickState(s, healthy) =
          IF Decide(j) = "Restart" THEN [OnRestartAttempt(j) EXCEPT !.warmLeft = Warmup] ELSE j
    BY <1>3 DEF TickState
  <2>4. Decide(j) # "Idle"
    BY <2>1 DEF Decide, Charged, SupervisorRecords, Breakers
  <2> HIDE DEF j
  <2>5. CASE Decide(j) = "Restart"
    <3>1. j.breaker \in {"Closed", "Open"}
      BY <2>1, <2>5, RestartFrom
    <3>2. m = n + 1
      BY <2>2, <2>5
    <3> DEFINE r == [OnRestartAttempt(j) EXCEPT !.warmLeft = Warmup]
    <3>3. Charged(r) /\ Accounted(n + 1, r) /\ r.warmLeft # Unset
      BY <2>1, <3>1, ChargedRestart
    <3>4. TickState(s, healthy) = r
      BY <2>3, <2>5
    <3> HIDE DEF r
    <3> QED BY <3>2, <3>3, <3>4
  <2>6. CASE Decide(j) # "Restart"
    <3>1. m = n
      BY <2>2, <2>4, <2>6
    <3> QED BY <2>1, <2>2, <2>3, <2>6, <3>1
  <2> QED BY <2>5, <2>6
<1> QED BY <1>1, <1>2, <1>3

\* Nothing is to the charge of a loop that has not run.
LEMMA BoundInit == Init => BoundInv
  BY ChargedNew DEF Init, BoundInv, StartIsWarm, LoopTyped

\* Every step of the loop keeps the account, and only the loop, its setup and
\* the end of the process move it.
LEMMA BoundNext == BoundInv /\ [Next]_vars => BoundInv'
<1> SUFFICES ASSUME BoundInv, [Next]_vars PROVE BoundInv'
  OBVIOUS
<1> USE DEF BoundInv
<1>1. CASE FinishSetup
  <2>1. loop'.at = "sleep" /\ LoopTyped'
    BY <1>1 DEF FinishSetup, LoopTyped
  <2> QED BY <1>1, <2>1 DEF FinishSetup, StartIsWarm
<1>2. CASE ProcessEnds
  BY <1>2, ChargedNew DEF ProcessEnds, StartIsWarm, LoopTyped
<1>3. CASE LoopWakes
  <2> DEFINE s == Elapsed(sup, TickLength)
  <2>1. Charged(s) /\ Accounted(starts, s)
    BY EngineAssumption, ChargedElapsed
  <2>2. loop'.at \notin {"start", "spawn"} /\ LoopTyped'
    BY <1>3 DEF LoopWakes, LoopTyped
  <2>3. Charged(ManualStart(s)) /\ Accounted(0, ManualStart(s))
    BY <2>1, ChargedManual
  <2>4. \/ sup' = s /\ starts' = starts
        \/ sup' = NewState /\ starts' = 0
        \/ sup' = ManualStart(s) /\ starts' = 0
    BY <1>3 DEF LoopWakes
  <2> HIDE DEF s
  <2> QED BY <2>1, <2>2, <2>3, <2>4, ChargedNew DEF StartIsWarm
<1>4. CASE LoopProbes
  <2>1. loop'.at = "decide"
    BY <1>4 DEF LoopProbes, LoopTyped
  <2>2. LoopTyped'
    BY <1>4 DEF LoopProbes, LoopTyped
  <2> QED BY <1>4, <2>1, <2>2 DEF LoopProbes, StartIsWarm
<1>5. CASE LoopDecides
  <2> DEFINE decision == TickDecision(sup, loop.healthy)
  <2>1. loop.healthy \in BOOLEAN
    BY DEF LoopTyped
  <2>2. /\ Charged(sup') /\ Accounted(starts', sup')
        /\ decision = "Restart" => sup'.warmLeft # Unset
    BY <1>5, <2>1, ChargedTick DEF LoopDecides
  <2>3. /\ loop'.at = IF decision = "Restart" THEN "start" ELSE "sleep"
        /\ LoopTyped'
    BY <1>5 DEF LoopDecides, LoopTyped
  <2> HIDE DEF decision
  <2> QED BY <2>2, <2>3 DEF StartIsWarm
<1>6. CASE LoopChecks
  <2>1. sup.warmLeft # Unset
    BY <1>6 DEF LoopChecks, StartIsWarm
  <2>2. CASE EnsureStartAllowed(FALSE)
    <3>1. loop'.at = "spawn" /\ LoopTyped' /\ sup' = sup /\ starts' = starts
      BY <1>6, <2>2 DEF LoopChecks, LoopTyped
    <3> QED BY <2>1, <3>1 DEF StartIsWarm
  <2>3. CASE ~EnsureStartAllowed(FALSE)
    <3>1. /\ loop'.at = "sleep" /\ LoopTyped'
          /\ sup' = OnStartFailed(sup) /\ starts' = starts
      BY <1>6, <2>3 DEF LoopChecks, LoopTyped
    <3> QED BY <2>1, <3>1, ChargedFailure DEF StartIsWarm
  <2> QED BY <2>2, <2>3
<1>7. CASE LoopSpawns
  <2>1. sup.warmLeft # Unset
    BY <1>7 DEF LoopSpawns, StartIsWarm
  <2>2. loop'.at = "sleep" /\ LoopTyped' /\ starts' = starts
    BY <1>7 DEF LoopSpawns, LoopTyped
  <2>3. sup' = sup \/ sup' = OnStartFailed(sup)
    BY <1>7 DEF LoopSpawns
  <2> QED BY <2>1, <2>2, <2>3, ChargedFailure DEF StartIsWarm
<1>8. CASE UNCHANGED loop_vars
  BY <1>8 DEF loop_vars, StartIsWarm, LoopTyped
<1>9. CASE UNCHANGED vars
  BY <1>9, <1>8 DEF vars
<1>10. CASE Next
  <2>1. CASE Boot
    BY <2>1, <1>8 DEF Boot
  <2>2. CASE BeginShutdown \/ ChildReady \/ ChildDies
    BY <2>2, <1>8 DEF BeginShutdown, ChildReady, ChildDies
  <2>3. CASE ButtonCheck \/ ButtonSpawn \/ ButtonNote \/ ToggleSupervision
    BY <2>3, <1>8 DEF ButtonCheck, ButtonSpawn, ButtonNote, ToggleSupervision
  <2>4. CASE SagaLease \/ SetDatabaseChampion \/ PublishChampionPointer
    BY <2>4, <1>8 DEF SagaLease, SetDatabaseChampion, PublishChampionPointer
  <2>5. CASE RestartChampion \/ VerifyExactAndCanary
    BY <2>5, <1>8 DEF RestartChampion, VerifyExactAndCanary
  <2>6. CASE Stamp \/ FinalSync
    BY <2>6, <1>8 DEF Stamp, FinalSync
  <2>7. CASE SyncAside \/ SyncPromote \/ SyncClean
    BY <2>7, <1>8 DEF SyncAside, SyncPromote, SyncClean
  <2> QED BY <1>1, <1>2, <1>3, <1>4, <1>5, <1>6, <1>7, <1>10,
             <2>1, <2>2, <2>3, <2>4, <2>5, <2>6, <2>7 DEF Next
<1> QED BY <1>9, <1>10

\* A breaker that gave up has no start warming up; one that did not has a trip left.
LEMMA BoundImplies == BoundInv => StartsAreBounded
<1> SUFFICES ASSUME BoundInv PROVE starts <= MaxFailures + MaxTrips - 1
  BY DEF StartsAreBounded
<1>1. /\ sup.breaker \in Breakers /\ sup.failures \in Nat /\ sup.trips \in Nat
  BY Fields DEF BoundInv, Charged
<1>2. CASE sup.breaker = "GaveUp"
  BY <1>1, <1>2, PolicyAssumption DEF BoundInv, Charged, Accounted
<1>3. CASE sup.breaker # "GaveUp"
  BY <1>1, <1>3, PolicyAssumption DEF BoundInv, Charged, Accounted, Breakers
<1> QED BY <1>2, <1>3

\* The loop starts an engine that does not answer at most MaxFailures +
\* MaxTrips - 1 times before it gives up, for every policy, any tick and any
\* number of crashes, clicks and toggles (on_failure, on_restart_attempt).
THEOREM StartsBounded == Spec => []StartsAreBounded
<1>1. Spec => []BoundInv
  BY BoundInit, BoundNext, PTL DEF Spec
<1> QED BY <1>1, BoundImplies, PTL

-----------------------------------------------------------------------------
(* The fence before the ordinary starts.                                   *)

\* The records an action rewrites by a field have that field.
Shapes ==
    /\ "state" \in DOMAIN job
    /\ saga \in [at : {"off", "lease", "drive", "stamp", "final"}, ok : BOOLEAN]
    /\ sync \in [at : {"off", "aside", "promote", "clean"}, by : {"boot", "saga", "final"}]
    /\ LoopTyped
    /\ child # None => "fate" \in DOMAIN child

\* A promotion that is unresolved has the fence shut.
FenceShut == Running /\ app # "down" => blocked

\* A process that is gone has no threads.
NoThreads ==
    app = "down" => /\ loop.at = "off" /\ button # "spawn"
                    /\ sync.at = "off" /\ saga.at = "off"

\* Who has passed the check, and who may open the fence, has no promotion
\* running against it.
PassedUnfenced ==
    /\ loop.at = "spawn" => ~Running
    /\ button = "spawn" => ~Running
    /\ sync.at # "off" /\ sync.by \in {"boot", "final"} => ~Running
    /\ saga.at = "final" => ~Running

FenceInv == Shapes /\ FenceShut /\ NoThreads /\ PassedUnfenced

\* A first process finds the journal, and has not started anything.
LEMMA FenceInit == Init => FenceInv
  BY DEF Init, FenceInv, Shapes, FenceShut, NoThreads, PassedUnfenced, LoopTyped

\* A publication opens the fence for startup and for a promotion that ended
\* only, and leaves the row alone.
LEMMA PublishedKeeps ==
    ASSUME FenceInv, NEW by \in {"boot", "saga", "final"}, NEW ok \in BOOLEAN,
           by \in {"boot", "final"} => ~Running,
           Published(by, ok), app' # "down", app = "down" => by = "boot",
           UNCHANGED <<job, child, loop, button>>
    PROVE  FenceInv'
<1> USE DEF FenceInv
<1>1. sync'.at = "off" /\ sync' \in [at : {"off", "aside", "promote", "clean"},
                                     by : {"boot", "saga", "final"}]
  BY DEF Published, Shapes
<1>2. /\ saga' = saga \/ saga'.at \in {"off", "stamp"}
      /\ saga' \in [at : {"off", "lease", "drive", "stamp", "final"}, ok : BOOLEAN]
  <2>1. CASE saga' = saga
    BY <2>1 DEF Shapes
  <2>2. CASE saga' = [at |-> "stamp", ok |-> ok]
    BY <2>2
  <2>3. CASE saga' = [saga EXCEPT !.at = "off"]
    BY <2>3 DEF Shapes
  <2> QED BY <2>1, <2>2, <2>3 DEF Published
<1>3. Shapes' /\ NoThreads' /\ PassedUnfenced'
  BY <1>1, <1>2 DEF Shapes, NoThreads, PassedUnfenced, LoopTyped, Running
<1>4. FenceShut'
  BY DEF FenceShut, Published, Running
<1> QED BY <1>3, <1>4

\* The call of a publication, up to its first rename.
LEMMA SyncKeeps ==
    ASSUME FenceInv, NEW by \in {"boot", "saga", "final"},
           by \in {"boot", "final"} => ~Running,
           SyncChampionPointer(by), app' # "down", app = "down" => by = "boot",
           UNCHANGED <<job, child, loop, button>>
    PROVE  FenceInv'
<1>1. CASE \E ok \in BOOLEAN : Published(by, ok)
  BY <1>1, PublishedKeeps
<1>2. CASE /\ sync' = [at |-> IF file'.main = None THEN "promote" ELSE "aside", by |-> by]
           /\ UNCHANGED <<saga, blocked>>
  <2>1. sync' \in [at : {"off", "aside", "promote", "clean"}, by : {"boot", "saga", "final"}]
        /\ sync'.by = by
    BY <1>2
  <2>2. Shapes'
    BY <1>2, <2>1 DEF FenceInv, Shapes, LoopTyped
  <2>3. FenceShut'
    BY <1>2 DEF FenceInv, FenceShut, Running
  <2>4. NoThreads' /\ PassedUnfenced'
    BY <1>2, <2>1 DEF FenceInv, NoThreads, PassedUnfenced, Running
  <2> QED BY <2>2, <2>3, <2>4 DEF FenceInv
<1> QED BY <1>1, <1>2 DEF SyncChampionPointer

\* Steps that leave the fence, the recovery, the file and the button alone.
LEMMA LoopKeeps ==
    ASSUME FenceInv, LoopTyped', loop'.at = "spawn" => ~blocked \/ ~Running,
           UNCHANGED <<job, app, blocked, saga, sync, button>>,
           child' # None => "fate" \in DOMAIN child',
           app = "down" => loop'.at = "off"
    PROVE  FenceInv'
<1>1. Shapes'
  BY DEF FenceInv, Shapes, LoopTyped
<1>2. FenceShut'
  BY DEF FenceInv, FenceShut, Running
<1>3. NoThreads' /\ PassedUnfenced'
  BY DEF FenceInv, NoThreads, PassedUnfenced, Running, FenceShut
<1> QED BY <1>1, <1>2, <1>3 DEF FenceInv

\* How a running row goes on never makes a row run that does not.
LEMMA StampedEnds ==
    ASSUME "state" \in DOMAIN job, job' = Stamped
    PROVE  "state" \in DOMAIN job' /\ (job'.state = "running" => Running)
<1>1. CASE \E phase : job' = [job EXCEPT !.phase = phase]
  BY <1>1 DEF Running
<1>2. CASE job' \in {[state |-> "succeeded", phase |-> "Completed", code |-> "none"],
                     [state |-> "failed", phase |-> "RollbackVerified",
                      code |-> "PROMOTION_FAILED"],
                     [state |-> "failed", phase |-> "RollbackUnverified",
                      code |-> "ROLLBACK_UNVERIFIED"]}
  BY <1>2
<1> QED BY <1>1, <1>2 DEF Stamped

\* Every step keeps the fence: it opens for startup without a promotion and
\* for one that ended, and the row never runs again.
LEMMA FenceNext == FenceInv /\ [Next]_vars => FenceInv'
<1> SUFFICES ASSUME FenceInv, [Next]_vars PROVE FenceInv'
  OBVIOUS
<1> USE DEF FenceInv
<1>1. CASE Boot
  <2>1. app = "down" /\ app' = "setup" /\ UNCHANGED <<job, child, loop, button>>
    BY <1>1 DEF Boot, saga_vars, loop_vars, owner_vars
  <2>2. CASE ~Running /\ SyncChampionPointer("boot")
    BY <2>1, <2>2, SyncKeeps
  <2>3. CASE /\ blocked' = TRUE /\ UNCHANGED sync
             /\ saga' \in {saga, [at |-> "lease", ok |-> TRUE]}
    <3>1. saga' \in [at : {"off", "lease", "drive", "stamp", "final"}, ok : BOOLEAN]
          /\ saga'.at # "final"
      <4>1. CASE saga' = saga
        BY <2>1, <4>1 DEF Shapes, NoThreads
      <4>2. CASE saga' = [at |-> "lease", ok |-> TRUE]
        BY <4>2
      <4> QED BY <2>3, <4>1, <4>2
    <3>2. Shapes' /\ FenceShut'
      BY <2>1, <2>3, <3>1 DEF Shapes, LoopTyped, FenceShut
    <3>3. NoThreads' /\ PassedUnfenced'
      BY <2>1, <2>3, <3>1 DEF NoThreads, PassedUnfenced, Running
    <3> QED BY <3>2, <3>3
  <2> QED BY <1>1, <2>2, <2>3 DEF Boot
<1>2. CASE FinishSetup
  <2>1. LoopTyped' /\ loop'.at = "sleep" /\ app # "down" /\ app' # "down"
    BY <1>2 DEF FinishSetup, Shapes, LoopTyped
  <2>2. UNCHANGED <<job, blocked, saga, sync, button, child>>
    BY <1>2 DEF FinishSetup, saga_vars, fence, owner_vars
  <2>3. Shapes' /\ FenceShut'
    BY <2>1, <2>2 DEF Shapes, FenceShut, Running
  <2>4. NoThreads' /\ PassedUnfenced'
    BY <2>1, <2>2 DEF NoThreads, PassedUnfenced, Running
  <2> QED BY <2>3, <2>4
<1>3. CASE ProcessEnds
  BY <1>3 DEF ProcessEnds, Shapes, LoopTyped, FenceShut, NoThreads, PassedUnfenced, Running
<1>4. CASE BeginShutdown \/ ChildReady \/ ChildDies
  <2>1. UNCHANGED <<job, app, blocked, saga, sync, button, loop>>
    BY <1>4 DEF BeginShutdown, ChildReady, ChildDies, saga_vars, fence, loop_vars, owner_vars
  <2>2. child' # None => "fate" \in DOMAIN child'
    <3>1. CASE BeginShutdown
      BY <3>1 DEF BeginShutdown
    <3>2. CASE ChildReady \/ ChildDies
      BY <3>2 DEF ChildReady, ChildDies, Shapes
    <3> QED BY <1>4, <3>1, <3>2
  <2>3. LoopTyped'
    BY <2>1 DEF Shapes, LoopTyped
  <2>4. (loop'.at = "spawn" => ~Running) /\ (app = "down" => loop'.at = "off")
    BY <2>1 DEF PassedUnfenced, NoThreads
  <2> QED BY <2>1, <2>2, <2>3, <2>4, LoopKeeps
<1>5. CASE ButtonCheck \/ ButtonNote \/ ToggleSupervision
  <2>1. UNCHANGED <<job, app, blocked, saga, sync, child, loop>>
    BY <1>5 DEF ButtonCheck, ButtonNote, ToggleSupervision, saga_vars, fence, loop_vars
  <2>2. button' = "spawn" => app # "down" /\ ~Running
    BY <1>5 DEF ButtonCheck, ButtonNote, ToggleSupervision, EnsureStartAllowed, FenceShut,
                PassedUnfenced, NoThreads
  <2>3. Shapes' /\ FenceShut'
    BY <2>1 DEF Shapes, LoopTyped, FenceShut, Running
  <2>4. NoThreads' /\ PassedUnfenced'
    BY <2>1, <2>2 DEF NoThreads, PassedUnfenced, Running
  <2> QED BY <2>3, <2>4
<1>6. CASE ButtonSpawn
  <2>1. UNCHANGED <<job, app, blocked, saga, sync, loop>> /\ button' # "spawn"
    BY <1>6 DEF ButtonSpawn, saga_vars, fence, loop_vars
  <2>2. child' # None => "fate" \in DOMAIN child'
    BY <1>6 DEF ButtonSpawn, StartChild
  <2>3. Shapes' /\ FenceShut'
    BY <2>1, <2>2 DEF Shapes, LoopTyped, FenceShut, Running
  <2>4. NoThreads' /\ PassedUnfenced'
    BY <2>1 DEF NoThreads, PassedUnfenced, Running
  <2> QED BY <2>3, <2>4
<1>7. CASE LoopWakes \/ LoopProbes \/ LoopDecides \/ LoopChecks \/ LoopSpawns
  <2>1. UNCHANGED <<job, app, blocked, saga, sync, button>>
    BY <1>7 DEF LoopWakes, LoopProbes, LoopDecides, LoopChecks, LoopSpawns, saga_vars, fence,
                owner_vars
  <2>2. LoopTyped'
    <3>1. LoopTyped
      BY DEF Shapes
    <3>2. CASE LoopWakes
      BY <3>1, <3>2 DEF LoopWakes, LoopTyped
    <3>3. CASE LoopProbes
      BY <3>1, <3>3 DEF LoopProbes, LoopTyped
    <3>4. CASE LoopDecides
      BY <3>1, <3>4 DEF LoopDecides, LoopTyped
    <3>5. CASE LoopChecks \/ LoopSpawns
      BY <3>1, <3>5 DEF LoopChecks, LoopSpawns, LoopTyped
    <3> QED BY <1>7, <3>2, <3>3, <3>4, <3>5
  <2>3. child' # None => "fate" \in DOMAIN child'
    <3>1. CASE LoopSpawns
      BY <3>1 DEF LoopSpawns, StartChild
    <3>2. CASE ~LoopSpawns
      BY <1>7, <3>2 DEF LoopWakes, LoopProbes, LoopDecides, LoopChecks, Shapes
    <3> QED BY <3>1, <3>2
  <2>4. loop'.at = "spawn" => ~blocked
    <3>1. LoopTyped
      BY DEF Shapes
    <3>2. CASE LoopChecks
      BY <3>1, <3>2 DEF LoopChecks, LoopTyped, EnsureStartAllowed
    <3>3. CASE LoopWakes \/ LoopProbes
      BY <3>1, <3>3 DEF LoopWakes, LoopProbes, LoopTyped
    <3>4. CASE LoopDecides \/ LoopSpawns
      BY <3>1, <3>4 DEF LoopDecides, LoopSpawns, LoopTyped
    <3> QED BY <1>7, <3>2, <3>3, <3>4
  <2>5. app # "down"
    BY <1>7 DEF LoopWakes, LoopProbes, LoopDecides, LoopChecks, LoopSpawns, NoThreads
  <2> QED BY <2>1, <2>2, <2>3, <2>4, <2>5, LoopKeeps
<1>8. CASE SagaLease \/ SetDatabaseChampion \/ RestartChampion \/ VerifyExactAndCanary
  <2>1. UNCHANGED <<job, app, sync, loop, button>> /\ saga.at # "off"
    BY <1>8 DEF SagaLease, SetDatabaseChampion, RestartChampion, VerifyExactAndCanary,
                saga_vars, loop_vars, owner_vars
  <2>2. blocked => blocked'
    BY <1>8 DEF SagaLease, SagaEnds, SetDatabaseChampion, RestartChampion,
                VerifyExactAndCanary, fence
  <2>3. /\ saga' \in [at : {"off", "lease", "drive", "stamp", "final"}, ok : BOOLEAN]
        /\ saga'.at # "final"
    <3>1. CASE SagaLease
      BY <3>1 DEF SagaLease, SagaEnds, Shapes
    <3>2. CASE ~SagaLease
      <4>1. \E ok \in BOOLEAN : saga' = [at |-> "stamp", ok |-> ok]
        BY <1>8, <3>2 DEF SetDatabaseChampion, RestartChampion, VerifyExactAndCanary,
                          SagaResult
      <4> QED BY <4>1
    <3> QED BY <3>1, <3>2
  <2>4. child' # None => "fate" \in DOMAIN child'
    <3>1. CASE RestartChampion
      <4>1. \/ child' = child \/ child' = None
            \/ child' = [model |-> file'.main, fate |-> "loading", by |-> "saga"]
        BY <3>1 DEF RestartChampion, StartChild
      <4> QED BY <4>1 DEF Shapes
    <3>2. CASE ~RestartChampion
      BY <1>8, <3>2 DEF SagaLease, SetDatabaseChampion, VerifyExactAndCanary, Shapes
    <3> QED BY <3>1, <3>2
  <2>5. Shapes'
    BY <2>1, <2>3, <2>4 DEF Shapes, LoopTyped
  <2>6. FenceShut'
    BY <2>1, <2>2 DEF FenceShut, Running
  <2>7. NoThreads' /\ PassedUnfenced'
    BY <2>1, <2>3 DEF NoThreads, PassedUnfenced, Running
  <2> QED BY <2>5, <2>6, <2>7
<1>9. CASE PublishChampionPointer
  <2>1. saga.at = "drive" /\ app # "down" /\ UNCHANGED <<job, app, child, loop, button>>
    BY <1>9 DEF PublishChampionPointer, NoThreads, saga_vars, loop_vars, owner_vars
  <2>2. CASE SyncChampionPointer("saga")
    BY <2>1, <2>2, SyncKeeps
  <2>3. CASE SagaResult(FALSE) /\ UNCHANGED <<sync, blocked>>
    <3>1. /\ saga' \in [at : {"off", "lease", "drive", "stamp", "final"}, ok : BOOLEAN]
          /\ saga'.at # "final"
      BY <2>3 DEF SagaResult
    <3>2. Shapes' /\ FenceShut'
      BY <2>1, <2>3, <3>1 DEF Shapes, LoopTyped, FenceShut, Running
    <3>3. NoThreads' /\ PassedUnfenced'
      BY <2>1, <2>3, <3>1 DEF NoThreads, PassedUnfenced, Running
    <3> QED BY <3>2, <3>3
  <2> QED BY <1>9, <2>2, <2>3 DEF PublishChampionPointer
<1>10. CASE Stamp
  <2>1. saga.at = "stamp" /\ app # "down" /\ UNCHANGED <<app, sync, child, loop, button>>
    BY <1>10 DEF Stamp, NoThreads, loop_vars, owner_vars
  <2>2. "state" \in DOMAIN job' /\ (Running' => Running)
    <3>1. "state" \in DOMAIN job
      BY DEF Shapes
    <3>2. job' = job \/ job' = Stamped
      BY <1>10 DEF Stamp
    <3>3. CASE job' = job
      BY <3>1, <3>3 DEF Running
    <3>4. CASE job' = Stamped
      BY <3>1, <3>4, StampedEnds DEF Running
    <3> QED BY <3>2, <3>3, <3>4
  <2>3. /\ saga' \in [at : {"off", "lease", "drive", "stamp", "final"}, ok : BOOLEAN]
        /\ saga'.at = "final" => ~Running'
    BY <1>10 DEF Stamp, SagaEnds, Shapes, Running
  <2>4. blocked => blocked'
    BY <1>10 DEF Stamp, SagaEnds, fence
  <2>5. Shapes'
    BY <2>1, <2>2, <2>3 DEF Shapes, LoopTyped
  <2>6. FenceShut'
    BY <2>1, <2>2, <2>4 DEF FenceShut
  <2>7. NoThreads' /\ PassedUnfenced'
    BY <2>1, <2>2, <2>3 DEF NoThreads, PassedUnfenced
  <2> QED BY <2>5, <2>6, <2>7
<1>11. CASE FinalSync
  <2>1. /\ saga.at = "final" /\ app # "down" /\ ~Running
        /\ UNCHANGED <<job, app, child, loop, button>>
    BY <1>11 DEF FinalSync, NoThreads, PassedUnfenced, saga_vars, loop_vars, owner_vars
  <2>2. CASE SyncChampionPointer("final")
    BY <2>1, <2>2, SyncKeeps
  <2>3. CASE SagaEnds(FALSE) /\ UNCHANGED sync
    <3>1. /\ saga' \in [at : {"off", "lease", "drive", "stamp", "final"}, ok : BOOLEAN]
          /\ saga'.at # "final"
      BY <2>3 DEF SagaEnds, Shapes
    <3>2. Shapes' /\ FenceShut'
      BY <2>1, <2>3, <3>1 DEF Shapes, LoopTyped, FenceShut, Running
    <3>3. NoThreads' /\ PassedUnfenced'
      BY <2>1, <2>3, <3>1 DEF NoThreads, PassedUnfenced, Running
    <3> QED BY <3>2, <3>3
  <2> QED BY <1>11, <2>2, <2>3 DEF FinalSync
<1>12. CASE SyncAside \/ SyncPromote \/ SyncClean
  <2>1. sync.at # "off" /\ app # "down" /\ UNCHANGED <<job, app, child, loop, button>>
    BY <1>12 DEF SyncAside, SyncPromote, SyncClean, NoThreads, saga_vars, loop_vars, owner_vars
  <2>2. /\ sync.by \in {"boot", "saga", "final"}
        /\ sync.by \in {"boot", "final"} => ~Running
    BY <2>1 DEF Shapes, PassedUnfenced
  <2>3. CASE \E ok \in BOOLEAN : Published(sync.by, ok)
    BY <2>1, <2>2, <2>3, PublishedKeeps
  <2>4. CASE \E at \in {"promote", "clean"} :
               sync' = [sync EXCEPT !.at = at] /\ UNCHANGED <<saga, blocked>>
    <3>1. sync' \in [at : {"off", "aside", "promote", "clean"}, by : {"boot", "saga", "final"}]
          /\ sync'.by = sync.by
      BY <2>4 DEF Shapes
    <3>2. Shapes' /\ FenceShut'
      BY <2>1, <2>4, <3>1 DEF Shapes, LoopTyped, FenceShut, Running
    <3>3. NoThreads' /\ PassedUnfenced'
      BY <2>1, <2>2, <2>4, <3>1 DEF NoThreads, PassedUnfenced, Running
    <3> QED BY <3>2, <3>3
  <2> QED BY <1>12, <2>3, <2>4 DEF SyncAside, SyncPromote, SyncClean
<1>13. CASE UNCHANGED vars
  BY <1>13 DEF vars, saga_vars, fence, loop_vars, owner_vars, Shapes, LoopTyped, FenceShut,
               NoThreads, PassedUnfenced, Running
<1> QED BY <1>1, <1>2, <1>3, <1>4, <1>5, <1>6, <1>7, <1>8, <1>9, <1>10, <1>11, <1>12, <1>13
        DEF Next

\* A step that starts an engine for the loop or the button is the spawn of one
\* that passed the check.
LEMMA StartsByOrdinary ==
    ASSUME FenceInv, [Next]_vars,
           child' # child, child' # None, child'.by # "saga", child'.fate = "loading"
    PROVE  ButtonSpawn \/ LoopSpawns
<1>1. ~(ChildReady \/ ChildDies)
  BY DEF ChildReady, ChildDies, FenceInv, Shapes
<1>2. ~RestartChampion
  <2> SUFFICES ASSUME RestartChampion PROVE FALSE
    OBVIOUS
  <2>1. \/ child' = child \/ child' = None
        \/ child' = [model |-> file'.main, fate |-> "loading", by |-> "saga"]
    BY DEF RestartChampion, StartChild
  <2> QED BY <2>1
<1>3. ~(Boot \/ FinishSetup \/ BeginShutdown \/ ProcessEnds)
  BY DEF Boot, FinishSetup, BeginShutdown, ProcessEnds
<1>4. ~(ButtonCheck \/ ButtonNote \/ ToggleSupervision)
  BY DEF ButtonCheck, ButtonNote, ToggleSupervision
<1>5. ~(LoopWakes \/ LoopProbes \/ LoopDecides \/ LoopChecks)
  BY DEF LoopWakes, LoopProbes, LoopDecides, LoopChecks
<1>6. ~(SagaLease \/ SetDatabaseChampion \/ PublishChampionPointer \/ VerifyExactAndCanary)
  BY DEF SagaLease, SetDatabaseChampion, PublishChampionPointer, VerifyExactAndCanary
<1>7. ~(Stamp \/ FinalSync \/ SyncAside \/ SyncPromote \/ SyncClean)
  BY DEF Stamp, FinalSync, SyncAside, SyncPromote, SyncClean
<1>8. Next
  BY DEF vars
<1> QED BY <1>1, <1>2, <1>3, <1>4, <1>5, <1>6, <1>7, <1>8 DEF Next

\* The loop and the Start button never start an engine while a promotion is
\* unresolved, although they start it a step after their check and the recovery
\* and the exit run meanwhile (ensure_start_allowed, recover_interrupted_promotion).
THEOREM StartsFenced == Spec => OrdinaryStartsAreFenced
<1>1. Spec => []FenceInv
  BY FenceInit, FenceNext, PTL DEF Spec
<1>2. FenceInv /\ [Next]_vars =>
        [(child' # child /\ child' # None /\ child'.by # "saga" /\ child'.fate = "loading")
           => ~Running]_vars
  <2> SUFFICES ASSUME FenceInv, [Next]_vars,
                      child' # child, child' # None, child'.by # "saga",
                      child'.fate = "loading"
               PROVE  ~Running
    OBVIOUS
  <2>1. ButtonSpawn \/ LoopSpawns
    BY StartsByOrdinary
  <2> QED BY <2>1 DEF ButtonSpawn, LoopSpawns, FenceInv, PassedUnfenced
<1> QED BY <1>1, <1>2, PTL DEF Spec, OrdinaryStartsAreFenced

-----------------------------------------------------------------------------
(* The pointer file: what recovery finds in it.                            *)

\* The pointer file and its backups.
Backup == [model : Models, mine : BOOLEAN]
FileOK(f) == f \in [main : Models \cup {None}, backups : Seq(Backup)]

\* The newest backup, and the ones before it.
LEMMA LastBackup ==
    ASSUME NEW s \in Seq(Backup), s # <<>>
    PROVE  Len(s) \in 1 .. Len(s) /\ s[Len(s)] \in Backup /\ SubSeq(s, 1, Len(s) - 1) \in Seq(Backup)
<1>1. Len(s) \in Nat /\ Len(s) # 0
  BY EmptySeq, LenProperties
<1>2. s[Len(s)] \in Backup
  BY <1>1, ElementOfSeq
<1>3. SubSeq(s, 1, Len(s) - 1) \in Seq(Backup)
  BY <1>1, <1>2, SubSeqProperties, ElementOfSeq
<1> QED BY <1>1, <1>2, <1>3

\* What recovery finds in a file.
PointedBy(f) == RecoverInterruptedReplace(f).main

\* Recovery changes nothing about what recovery finds.
LEMMA RecoverKeeps ==
    ASSUME NEW f, FileOK(f)
    PROVE  /\ FileOK(RecoverInterruptedReplace(f))
           /\ PointedBy(RecoverInterruptedReplace(f)) = PointedBy(f)
           /\ f.main # None => RecoverInterruptedReplace(f) = f
<1>1. CASE f.main # None \/ f.backups = <<>>
  BY <1>1 DEF RecoverInterruptedReplace, PointedBy
<1>2. CASE f.main = None /\ f.backups # <<>>
  <2> DEFINE b == f.backups[Len(f.backups)]
             rest == SubSeq(f.backups, 1, Len(f.backups) - 1)
             r == RecoverInterruptedReplace(f)
  <2>1. b \in Backup /\ rest \in Seq(Backup)
    BY <1>2, LastBackup DEF FileOK
  <2>2. r = [main |-> b.model, backups |-> rest]
    BY <1>2 DEF RecoverInterruptedReplace
  <2>3. b.model \in Models /\ b.model # None
    BY <2>1, EngineAssumption DEF Backup, Models
  <2> HIDE DEF b, rest, r
  <2>4. FileOK(r) /\ r.main = b.model
    BY <2>1, <2>2, <2>3 DEF FileOK
  <2>5. PointedBy(r) = b.model /\ PointedBy(f) = b.model
    BY <2>3, <2>4 DEF PointedBy, RecoverInterruptedReplace, r
  <2> QED BY <1>2, <2>4, <2>5 DEF r
<1> QED BY <1>1, <1>2

\* The removal of a backup leaves the file in place alone.
LEMMA RemoveOwnKeeps ==
    ASSUME NEW f, FileOK(f)
    PROVE  FileOK(RemoveOwn(f)) /\ RemoveOwn(f).main = f.main
<1>1. CASE Len(f.backups) > 0 /\ f.backups[Len(f.backups)].mine
  <2> DEFINE rest == SubSeq(f.backups, 1, Len(f.backups) - 1)
  <2>1. f.backups # <<>>
    BY <1>1, EmptySeq DEF FileOK
  <2>2. rest \in Seq(Backup)
    BY <2>1, LastBackup DEF FileOK
  <2>3. RemoveOwn(f) = [f EXCEPT !.backups = rest]
    BY <1>1 DEF RemoveOwn
  <2> HIDE DEF rest
  <2> QED BY <2>2, <2>3 DEF FileOK
<1>2. CASE ~(Len(f.backups) > 0 /\ f.backups[Len(f.backups)].mine)
  BY <1>2 DEF RemoveOwn
<1> QED BY <1>1, <1>2

\* Between the two renames recovery finds what was in place.
LEMMA SetAsideKeeps ==
    ASSUME NEW f, FileOK(f), f.main # None
    PROVE  FileOK(SetAside(f)) /\ PointedBy(SetAside(f)) = f.main
<1> DEFINE rest == RemoveOwn(f).backups
           b == [model |-> f.main, mine |-> TRUE]
           r == SetAside(f)
<1>1. rest \in Seq(Backup) /\ b \in Backup /\ b.model = f.main
  BY RemoveOwnKeeps DEF FileOK, Backup
<1>2. r = [main |-> None, backups |-> Append(rest, b)]
  BY DEF SetAside
<1> HIDE DEF rest, b, r
<1>3. /\ Append(rest, b) \in Seq(Backup) /\ Append(rest, b) # <<>>
      /\ Append(rest, b)[Len(Append(rest, b))] = b
  BY <1>1, AppendProperties, LenProperties
<1>4. FileOK(r) /\ r.main = None /\ r.backups = Append(rest, b)
  BY <1>2, <1>3 DEF FileOK
<1>5. PointedBy(r) = f.main
  BY <1>1, <1>3, <1>4 DEF PointedBy, RecoverInterruptedReplace
<1> QED BY <1>4, <1>5 DEF r

\* A new process finds what the old one left.
LEMMA DisownKeeps ==
    ASSUME NEW f, FileOK(f)
    PROVE  FileOK(Disown(f)) /\ PointedBy(Disown(f)) = PointedBy(f)
<1> DEFINE s == f.backups
           d == [i \in DOMAIN s |-> [s[i] EXCEPT !.mine = FALSE]]
           r == Disown(f)
<1>1. s \in Seq(Backup) /\ Len(s) \in Nat /\ DOMAIN s = 1 .. Len(s)
  BY LenProperties DEF FileOK
<1>2. \A i \in 1 .. Len(s) : s[i] \in Backup /\ d[i] \in Backup /\ d[i].model = s[i].model
  <2> TAKE i \in 1 .. Len(s)
  <2>1. s[i] \in Backup
    BY <1>1, ElementOfSeq
  <2>2. d[i] = [s[i] EXCEPT !.mine = FALSE]
    BY <1>1
  <2> HIDE DEF s, d
  <2> QED BY <2>1, <2>2 DEF Backup
<1>3. d \in [1 .. Len(s) -> Backup] /\ d \in Seq(Backup) /\ Len(d) = Len(s)
  <2>1. d \in [1 .. Len(s) -> Backup]
    BY <1>1, <1>2
  <2>2. d \in Seq(Backup)
    BY <1>1, <2>1, IsASeq
  <2>3. Len(d) = Len(s)
    BY <1>1, <2>1, <2>2, LenProperties
  <2> QED BY <2>1, <2>2, <2>3
<1>4. r = [f EXCEPT !.backups = d]
  BY DEF Disown
<1> HIDE DEF d, r
<1>5. FileOK(r) /\ r.main = f.main /\ r.backups = d
  BY <1>3, <1>4 DEF FileOK
<1>6. CASE s = <<>>
  <2>1. d = <<>>
    BY <1>3, <1>6, EmptySeq
  <2> QED BY <1>5, <1>6, <2>1 DEF PointedBy, RecoverInterruptedReplace, r
<1>7. CASE s # <<>>
  <2>1. d # <<>> /\ Len(s) \in 1 .. Len(s)
    BY <1>1, <1>3, <1>7, EmptySeq
  <2>2. d[Len(d)].model = s[Len(s)].model
    BY <1>2, <1>3, <2>1
  <2>3. PointedBy(r) = PointedBy(f)
    BY <1>5, <1>7, <2>1, <2>2 DEF PointedBy, RecoverInterruptedReplace
  <2> QED BY <1>5, <2>3 DEF r
<1> QED BY <1>6, <1>7

-----------------------------------------------------------------------------
(* The truth of the recorded phases.                                       *)

PublishPhases == {"CandidateDbActivated", "RollbackDbRestored"}

VerifyPhases == {"CandidateRestarted", "CandidateVerified",
                 "RollbackRestarted", "RollbackVerified"}

\* The phases that stand for a published pointer.
PublishedPhases ==
    VerifyPhases \cup {"CandidatePointerPublished", "RollbackPointerRestored", "Completed"}

Typed ==
    /\ job \in [state : {"none", "running", "succeeded", "failed"}, phase : Phases,
                code : {"none", "PROMOTION_FAILED", "ROLLBACK_UNVERIFIED"}]
    /\ db \in Models
    /\ FileOK(file)
    /\ PointedBy(file) = last

\* The recovery thread works on a row that runs, behind the fence.
SagaRuns ==
    /\ Running => job.phase \in Forward \cup Backward
    /\ saga.at \in {"lease", "drive", "stamp"} => Running
    /\ saga.at # "off" => blocked

\* Each replacement has one caller, and the caller waits for it.
SyncOwner ==
    sync.at # "off" =>
        \/ sync.by = "boot" /\ saga.at = "off"
        \/ sync.by = "saga" /\ saga.at = "drive" /\ job.phase \in PublishPhases
        \/ sync.by = "final" /\ saga.at = "final"

SyncFile ==
    /\ sync.at = "aside" => file.main # None
    /\ sync.at = "clean" => file.main = db /\ last = db

\* What a recorded phase stands for.
PhaseTrue ==
    /\ job.phase \in (Forward \ {"Prepared"}) \cup {"Completed"} => db = Candidate
    /\ job.phase \in Backward \ {"RollbackPending"} => db = Incumbent
    /\ job.phase \in PublishedPhases => last = db

\* What a success that is not yet recorded stands for.
StampTrue ==
    saga.at = "stamp" /\ saga.ok =>
        /\ db = Target
        /\ job.phase \notin {"Prepared", "RollbackPending"} => last = db
        /\ job.phase \in VerifyPhases => proof = db

\* The fence is open for startup's own publication, and for its result.
OpenPublished ==
    app # "down" /\ ~blocked =>
        \/ sync.at # "off" /\ sync.by = "boot"
        \/ sync.at = "off" /\ file.main = db

\* Setup does not end before its publication.
SetupFirst == app = "up" => ~(sync.at # "off" /\ sync.by = "boot")

TruthInv ==
    /\ Typed /\ SagaRuns /\ SyncOwner /\ SyncFile
    /\ PhaseTrue /\ StampTrue /\ OpenPublished /\ SetupFirst

\* A first process finds a pointer that names the registry's champion.
LEMMA TruthInit == Init => TruthInv
<1> SUFFICES ASSUME Init PROVE TruthInv
  OBVIOUS
<1>1. FileOK(file) /\ file.main = Incumbent
  BY EmptySeq DEF Init, FileOK, Models
<1>2. PointedBy(file) = last
  BY <1>1, EngineAssumption DEF Init, PointedBy, RecoverInterruptedReplace
<1>3. Typed
  BY <1>1, <1>2 DEF Init, Typed, Models, Phases, Forward
<1>4. SagaRuns /\ SyncOwner /\ SyncFile /\ PhaseTrue /\ StampTrue /\ OpenPublished /\ SetupFirst
  BY DEF Init, SagaRuns, SyncOwner, SyncFile, PhaseTrue, StampTrue, OpenPublished, SetupFirst,
         Running, Forward, Backward, PublishedPhases, VerifyPhases
<1> QED BY <1>3, <1>4 DEF TruthInv

\* Steps that leave the row, the registry, the file and its users alone, or
\* recover the file.
LEMMA TruthKept ==
    ASSUME TruthInv, UNCHANGED <<job, db, proof, last, blocked, saga, sync, app>>,
           file' \in {file, RecoverInterruptedReplace(file)}
    PROVE  TruthInv'
<1> USE DEF TruthInv
<1>1. FileOK(file') /\ PointedBy(file') = PointedBy(file) /\ (file.main # None => file' = file)
  BY RecoverKeeps DEF Typed
<1>2. Typed'
  BY <1>1 DEF Typed
<1>3. db # None
  BY EngineAssumption DEF Typed, Models
<1>4. SyncFile' /\ OpenPublished'
  BY <1>1, <1>3 DEF SyncFile, OpenPublished
<1>5. SagaRuns' /\ SyncOwner' /\ PhaseTrue' /\ StampTrue' /\ SetupFirst'
  BY DEF SagaRuns, SyncOwner, PhaseTrue, StampTrue, SetupFirst, Running, Target
<1> QED BY <1>2, <1>4, <1>5

\* A publication reports success only of a file that names the champion.
LEMMA PublishedTrue ==
    ASSUME TruthInv, FenceInv, NEW by \in {"boot", "saga", "final"}, NEW ok \in BOOLEAN,
           Published(by, ok), UNCHANGED <<job, db, proof>>,
           FileOK(file'), PointedBy(file') = last', last' \in {last, db},
           ok => file'.main = db /\ last' = db,
           by = "boot" => saga.at = "off",
           by = "saga" => saga.at = "drive" /\ job.phase \in PublishPhases,
           by = "final" => saga.at = "final",
           app' # "down"
    PROVE  TruthInv'
<1> USE DEF TruthInv
<1>1. sync'.at = "off"
  BY DEF Published, FenceInv, Shapes
<1>2. Typed'
  BY DEF Typed
<1>3. SyncOwner' /\ SyncFile' /\ SetupFirst'
  BY <1>1 DEF SyncOwner, SyncFile, SetupFirst
<1>4. PhaseTrue'
  BY DEF PhaseTrue
<1>5. CASE by = "boot"
  <2>1. saga' = saga /\ blocked' = ~ok /\ saga.at = "off"
    BY <1>5 DEF Published
  <2>2. SagaRuns' /\ StampTrue'
    BY <2>1 DEF SagaRuns, StampTrue, Running
  <2>3. OpenPublished'
    BY <1>1, <2>1 DEF OpenPublished
  <2> QED BY <1>2, <1>3, <1>4, <2>2, <2>3
<1>6. CASE by = "saga"
  <2>1. /\ saga' = [at |-> "stamp", ok |-> ok] /\ blocked' = blocked
        /\ saga.at = "drive" /\ job.phase \in PublishPhases
    BY <1>6 DEF Published
  <2>2. SagaRuns' /\ OpenPublished'
    BY <2>1 DEF SagaRuns, OpenPublished, Running
  <2>3. StampTrue'
    <3>1. saga'.ok = ok
      BY <2>1
    <3>2. db = Target
      BY <2>1 DEF PhaseTrue, Target, PublishPhases, Forward, Backward
    <3>3. job.phase \notin VerifyPhases
      BY <2>1 DEF PublishPhases, VerifyPhases
    <3> QED BY <3>1, <3>2, <3>3 DEF StampTrue, Target
  <2> QED BY <1>2, <1>3, <1>4, <2>2, <2>3
<1>7. CASE by = "final"
  <2>1. saga' = [saga EXCEPT !.at = "off"] /\ blocked' = (IF ok THEN FALSE ELSE blocked)
    BY <1>7 DEF Published
  <2>2. saga'.at = "off" /\ blocked
    BY <1>7, <2>1 DEF FenceInv, Shapes, SagaRuns
  <2>3. SagaRuns' /\ StampTrue'
    BY <2>2 DEF SagaRuns, StampTrue, Running
  <2>4. OpenPublished'
    BY <1>1, <2>1, <2>2 DEF OpenPublished
  <2> QED BY <1>2, <1>3, <1>4, <2>3, <2>4
<1> QED BY <1>5, <1>6, <1>7

\* The call of a publication, up to its first rename.
LEMMA SyncTrue ==
    ASSUME TruthInv, FenceInv, NEW by \in {"boot", "saga", "final"},
           SyncChampionPointer(by), UNCHANGED <<job, db, proof, last>>,
           by = "boot" => saga.at = "off" /\ app' # "up",
           by = "saga" => saga.at = "drive" /\ job.phase \in PublishPhases,
           by = "final" => saga.at = "final",
           app' # "down"
    PROVE  TruthInv'
<1> DEFINE r == RecoverInterruptedReplace(file)
<1>1. FileOK(file) /\ FileOK(r) /\ PointedBy(file) = last /\ PointedBy(r) = last
  BY RecoverKeeps DEF TruthInv, Typed
<1>2. db # None /\ (r.main # None => last = r.main)
  BY <1>1, RecoverKeeps, EngineAssumption DEF TruthInv, Typed, Models, PointedBy
<1> HIDE DEF r
<1>3. CASE file' = r /\ r.main = db /\ Published(by, TRUE)
  BY <1>1, <1>2, <1>3, PublishedTrue
<1>4. CASE file' \in {file, r} /\ Published(by, FALSE)
  BY <1>1, <1>4, PublishedTrue
<1>5. CASE /\ file' = r
           /\ sync' = [at |-> IF r.main = None THEN "promote" ELSE "aside", by |-> by]
           /\ UNCHANGED <<saga, blocked>>
  <2> USE DEF TruthInv
  <2>1. sync'.by = by /\ sync'.at \in {"promote", "aside"} /\ (sync'.at = "aside" => r.main # None)
    BY <1>5
  <2>2. Typed'
    BY <1>1, <1>5 DEF Typed
  <2>3. SyncFile' /\ SetupFirst'
    BY <1>5, <2>1 DEF SyncFile, SetupFirst
  <2>4. SagaRuns' /\ PhaseTrue' /\ StampTrue'
    BY <1>5 DEF SagaRuns, PhaseTrue, StampTrue, Running, Target
  <2>5. SyncOwner'
    BY <1>5, <2>1 DEF SyncOwner
  <2>6. OpenPublished'
    BY <1>5, <2>1 DEF OpenPublished, SagaRuns
  <2> QED BY <2>2, <2>3, <2>4, <2>5, <2>6
<1> QED BY <1>3, <1>4, <1>5 DEF SyncChampionPointer, r

\* A recovery that drives its row publishes nothing in the phases of the other
\* effects.
LEMMA NothingPublished ==
    ASSUME TruthInv, saga.at \in {"lease", "drive", "stamp", "final"},
           saga.at = "drive" => job.phase \notin PublishPhases,
           saga.at = "final" => sync.at = "off"
    PROVE  sync.at = "off" /\ blocked
  BY DEF TruthInv, SyncOwner, SagaRuns

\* The process starts.
LEMMA TruthBoot == TruthInv /\ FenceInv /\ Boot => TruthInv'
<1> SUFFICES ASSUME TruthInv, FenceInv, Boot PROVE TruthInv'
  OBVIOUS
<1>1. app = "down" /\ app' = "setup" /\ sync.at = "off" /\ saga.at = "off"
  BY DEF Boot, FenceInv, NoThreads
<1>2. UNCHANGED <<job, db, proof, last>>
  BY DEF Boot, saga_vars
<1>3. CASE SyncChampionPointer("boot")
  BY <1>1, <1>2, <1>3, SyncTrue
<1>4. CASE /\ blocked' = TRUE /\ UNCHANGED <<file, sync>>
           /\ saga' = saga \/ (Running /\ saga' = [at |-> "lease", ok |-> TRUE])
  <2> USE DEF TruthInv
  <2>1. saga'.at \in {"off", "lease"} /\ (saga'.at = "lease" => Running)
    BY <1>1, <1>4
  <2>2. Typed' /\ PhaseTrue'
    BY <1>2, <1>4 DEF Typed, PhaseTrue
  <2>3. SagaRuns' /\ StampTrue'
    BY <1>2, <1>4, <2>1 DEF SagaRuns, StampTrue, Running
  <2>4. SyncOwner' /\ SyncFile' /\ OpenPublished' /\ SetupFirst'
    BY <1>1, <1>4 DEF SyncOwner, SyncFile, OpenPublished, SetupFirst
  <2> QED BY <2>2, <2>3, <2>4
<1> QED BY <1>3, <1>4 DEF Boot

\* The process ends: what it was doing is gone, what it had done is there.
LEMMA TruthEnds == TruthInv /\ FenceInv /\ ProcessEnds => TruthInv'
<1> SUFFICES ASSUME TruthInv, FenceInv, ProcessEnds PROVE TruthInv'
  OBVIOUS
<1> USE DEF TruthInv
<1>1. /\ app' = "down" /\ saga'.at = "off" /\ sync'.at = "off" /\ file' = Disown(file)
      /\ UNCHANGED <<job, db, last>>
  BY DEF ProcessEnds
<1>2. FileOK(file') /\ PointedBy(file') = last
  BY <1>1, DisownKeeps DEF Typed
<1>3. Typed' /\ PhaseTrue'
  BY <1>1, <1>2 DEF Typed, PhaseTrue
<1>4. SagaRuns' /\ StampTrue' /\ SyncOwner' /\ SyncFile' /\ OpenPublished' /\ SetupFirst'
  BY <1>1 DEF SagaRuns, StampTrue, SyncOwner, SyncFile, OpenPublished, SetupFirst, Running
<1> QED BY <1>3, <1>4

\* An effect other than a publication has its result.
LEMMA TruthResult ==
    ASSUME TruthInv, FenceInv, NEW ok \in BOOLEAN, saga.at = "drive", SagaResult(ok),
           job.phase \notin PublishPhases,
           UNCHANGED <<job, last, blocked, sync, app>>,
           file' \in {file, RecoverInterruptedReplace(file)},
           db' \in Models, db' # db => job.phase \in {"Prepared", "RollbackPending"},
           ok => db' = Target,
           ok /\ job.phase \in VerifyPhases => proof' = Target
    PROVE  TruthInv'
<1> USE DEF TruthInv
<1>1. sync.at = "off" /\ blocked
  BY NothingPublished
<1>2. saga'.at = "stamp" /\ saga'.ok = ok /\ Running
  BY DEF SagaResult, SagaRuns
<1>3. FileOK(file') /\ PointedBy(file') = PointedBy(file)
  BY RecoverKeeps DEF Typed
<1>4. Typed'
  BY <1>3 DEF Typed
<1>5. SagaRuns' /\ SyncOwner' /\ SyncFile' /\ OpenPublished' /\ SetupFirst'
  BY <1>1, <1>2 DEF SagaRuns, SyncOwner, SyncFile, OpenPublished, SetupFirst, Running
<1>6. PhaseTrue'
  BY DEF PhaseTrue, Forward, Backward, PublishedPhases, VerifyPhases
<1>7. StampTrue'
  <2> SUFFICES ASSUME ok PROVE StampTrue'
    BY <1>2 DEF StampTrue
  <2>1. job.phase \in Forward \cup Backward
    BY <1>2 DEF SagaRuns
  <2>2. job.phase \notin {"Prepared", "RollbackPending"} => job.phase \in PublishedPhases
    BY <2>1 DEF Forward, Backward, PublishPhases, PublishedPhases, VerifyPhases
  <2>3. Target' = Target
    BY DEF Target
  <2>4. db' = Target /\ (job.phase \notin {"Prepared", "RollbackPending"} => last = db')
    BY <2>2 DEF PhaseTrue
  <2> QED BY <2>3, <2>4 DEF StampTrue
<1> QED BY <1>4, <1>5, <1>6, <1>7

\* The registry is switched, the engine restarted, the deployment verified.
LEMMA TruthEffects ==
    TruthInv /\ FenceInv /\ (SetDatabaseChampion \/ RestartChampion \/ VerifyExactAndCanary)
        => TruthInv'
<1> SUFFICES ASSUME TruthInv, FenceInv,
                    SetDatabaseChampion \/ RestartChampion \/ VerifyExactAndCanary
             PROVE  TruthInv'
  OBVIOUS
<1>1. Target \in Models /\ db \in Models
  BY DEF Target, Models, TruthInv, Typed
<1>2. CASE SetDatabaseChampion
  <2>1. PICK ok \in BOOLEAN : SagaResult(ok) /\ db' \in {db, Target} /\ (ok => db' = Target)
    BY <1>2 DEF SetDatabaseChampion
  <2>2. /\ saga.at = "drive" /\ job.phase \in {"Prepared", "RollbackPending"}
        /\ UNCHANGED <<job, last, blocked, sync, app, file>>
    BY <1>2 DEF SetDatabaseChampion, fence
  <2>3. job.phase \notin PublishPhases /\ job.phase \notin VerifyPhases
    BY <2>2 DEF PublishPhases, VerifyPhases
  <2> QED BY <1>1, <2>1, <2>2, <2>3, TruthResult
<1>3. job.phase \in Forward \cup Backward /\ job.phase \notin {"Prepared", "RollbackPending"}
        => db = Target
  BY DEF TruthInv, PhaseTrue, Target
<1>4. CASE RestartChampion
  <2>1. PICK ok \in BOOLEAN : SagaResult(ok) /\ file' \in {file, RecoverInterruptedReplace(file)}
    BY <1>4 DEF RestartChampion, StartChild
  <2>2. /\ saga.at = "drive"
        /\ job.phase \in {"CandidatePointerPublished", "RollbackPointerRestored"}
        /\ UNCHANGED <<job, db, last, blocked, sync, app>>
    BY <1>4 DEF RestartChampion, fence, saga_vars
  <2>3. job.phase \notin PublishPhases /\ job.phase \notin VerifyPhases /\ db = Target
    BY <1>3, <2>2 DEF PublishPhases, VerifyPhases, Forward, Backward
  <2> QED BY <1>1, <2>1, <2>2, <2>3, TruthResult
<1>5. CASE VerifyExactAndCanary
  <2>1. PICK ok \in BOOLEAN : SagaResult(ok) /\ (ok => proof' = Target)
    BY <1>5 DEF VerifyExactAndCanary
  <2>2. /\ saga.at = "drive" /\ job.phase \in VerifyPhases
        /\ UNCHANGED <<job, db, last, blocked, sync, app, file>>
    BY <1>5 DEF VerifyExactAndCanary, fence, VerifyPhases
  <2>3. job.phase \notin PublishPhases /\ db = Target
    BY <1>3, <2>2 DEF PublishPhases, VerifyPhases, Forward, Backward
  <2> QED BY <1>1, <2>1, <2>2, <2>3, TruthResult
<1> QED BY <1>2, <1>4, <1>5

\* The lease is taken, or the thread ends behind the fence.
LEMMA TruthLease == TruthInv /\ FenceInv /\ SagaLease => TruthInv'
<1> SUFFICES ASSUME TruthInv, FenceInv, SagaLease PROVE TruthInv'
  OBVIOUS
<1> USE DEF TruthInv
<1>1. sync.at = "off" /\ blocked /\ Running
  BY NothingPublished DEF SagaLease, SagaRuns
<1>2. /\ UNCHANGED <<job, db, proof, file, last, app, sync>>
      /\ saga'.at \in {"off", "drive"} /\ blocked'
  BY <1>1 DEF SagaLease, SagaEnds, saga_vars, FenceInv, Shapes
<1>3. Typed' /\ PhaseTrue' /\ SyncFile' /\ SetupFirst'
  BY <1>2 DEF Typed, PhaseTrue, SyncFile, SetupFirst
<1>4. SagaRuns' /\ SyncOwner' /\ StampTrue' /\ OpenPublished'
  BY <1>1, <1>2 DEF SagaRuns, SyncOwner, StampTrue, OpenPublished, Running
<1> QED BY <1>3, <1>4

\* Setup ends after its publication.
LEMMA TruthSetup == TruthInv /\ FinishSetup => TruthInv'
<1> SUFFICES ASSUME TruthInv, FinishSetup PROVE TruthInv'
  OBVIOUS
<1> USE DEF TruthInv
<1>1. /\ UNCHANGED <<job, db, proof, file, last, blocked, saga, sync>>
      /\ app = "setup" /\ app' = "up" /\ ~(sync.at # "off" /\ sync.by = "boot")
  BY DEF FinishSetup, saga_vars, fence
<1>2. Typed' /\ PhaseTrue' /\ SyncFile' /\ SyncOwner' /\ SagaRuns' /\ StampTrue'
  BY <1>1 DEF Typed, PhaseTrue, SyncFile, SyncOwner, SagaRuns, StampTrue, Running, Target
<1>3. OpenPublished' /\ SetupFirst'
  BY <1>1 DEF OpenPublished, SetupFirst
<1> QED BY <1>2, <1>3

\* How a row that runs goes on, and what that says of the effects.
LEMMA StampedTrue ==
    ASSUME TruthInv, saga.at = "stamp", job' = Stamped, UNCHANGED <<db, last>>
    PROVE  /\ job' \in [state : {"none", "running", "succeeded", "failed"}, phase : Phases,
                        code : {"none", "PROMOTION_FAILED", "ROLLBACK_UNVERIFIED"}]
           /\ job'.state = "running" => job'.phase \in Forward \cup Backward
           /\ PhaseTrue'
           /\ job'.state # "running" /\ job'.code # "ROLLBACK_UNVERIFIED" => proof = db
<1> USE DEF TruthInv
<1>1. job.state = "running" /\ job.phase \in Forward \cup Backward
  BY DEF SagaRuns, Running
<1>2. CASE ~saga.ok
  <2>1. \/ job.phase \in Forward /\ job' = [job EXCEPT !.phase = "RollbackPending"]
        \/ job' = [state |-> "failed", phase |-> "RollbackUnverified",
                   code |-> "ROLLBACK_UNVERIFIED"]
    BY <1>2 DEF Stamped
  <2> QED BY <1>1, <2>1 DEF Typed, PhaseTrue, Phases, Forward, Backward, PublishedPhases,
                            VerifyPhases
<1>3. CASE saga.ok
  <2>1. /\ db = Target
        /\ job.phase \notin {"Prepared", "RollbackPending"} => last = db
        /\ job.phase \in VerifyPhases => proof = db
    BY <1>3 DEF StampTrue
  <2>2. CASE job.phase = "CandidateVerified"
    <3>1. job' = [state |-> "succeeded", phase |-> "Completed", code |-> "none"]
      BY <1>3, <2>2 DEF Stamped
    <3> QED BY <2>1, <2>2, <3>1 DEF Target, PhaseTrue, Phases, Forward, Backward,
                                    PublishedPhases, VerifyPhases
  <2>3. CASE job.phase = "RollbackVerified"
    <3>1. job' = [state |-> "failed", phase |-> "RollbackVerified",
                  code |-> "PROMOTION_FAILED"]
      BY <1>3, <2>3 DEF Stamped
    <3> QED BY <2>1, <2>3, <3>1 DEF Target, PhaseTrue, Phases, Forward, Backward,
                                    PublishedPhases, VerifyPhases
  <2>4. CASE job.phase \notin {"CandidateVerified", "RollbackVerified"}
    <3>1. job' = [job EXCEPT !.phase = NextPhase[job.phase]]
      BY <1>3, <2>4 DEF Stamped
    <3> DEFINE next == NextPhase[job.phase]
    <3>2. /\ job.phase \in Forward => next \in Forward \ {"Prepared"}
          /\ job.phase \in Backward => next \in Backward \ {"RollbackPending"}
          /\ job.phase \in {"Prepared", "RollbackPending"} => next \in PublishPhases
      BY <1>1, <2>4 DEF NextPhase, Forward, Backward, PublishPhases
    <3> HIDE DEF next
    <3>3. job'.phase = next /\ job'.state = "running"
          /\ job' \in [state : {"none", "running", "succeeded", "failed"}, phase : Phases,
                       code : {"none", "PROMOTION_FAILED", "ROLLBACK_UNVERIFIED"}]
      BY <1>1, <3>1, <3>2 DEF Typed, Phases, next
    <3>4. PhaseTrue'
      <4>1. Forward \cap Backward = {} /\ "Completed" \notin Forward \cup Backward
            /\ PublishPhases \cap PublishedPhases = {}
        BY DEF Forward, Backward, PublishPhases, PublishedPhases, VerifyPhases
      <4>2. (job.phase \in Forward => db = Candidate) /\ (job.phase \in Backward => db = Incumbent)
        BY <2>1, <4>1 DEF Target
      <4> QED BY <1>1, <2>1, <3>2, <3>3, <4>1, <4>2 DEF PhaseTrue
    <3> QED BY <1>1, <3>2, <3>3, <3>4
  <2> QED BY <2>2, <2>3, <2>4
<1> QED BY <1>2, <1>3

\* A result is recorded, or the thread gives up behind the fence.
LEMMA TruthStamp == TruthInv /\ FenceInv /\ Stamp => TruthInv'
<1> SUFFICES ASSUME TruthInv, FenceInv, Stamp PROVE TruthInv'
  OBVIOUS
<1> USE DEF TruthInv
<1>1. /\ saga.at = "stamp" /\ UNCHANGED <<db, proof, file, last, app, sync>>
      /\ job' = job \/ job' = Stamped
  BY DEF Stamp
<1>2. sync.at = "off" /\ blocked /\ Running
  BY <1>1, NothingPublished DEF SagaRuns
<1>3. /\ blocked' /\ saga'.at \in {"off", "drive", "final"}
      /\ saga'.at = "drive" => job'.state = "running"
  BY <1>2 DEF Stamp, SagaEnds, fence, FenceInv, Shapes
<1>4. /\ job' \in [state : {"none", "running", "succeeded", "failed"}, phase : Phases,
                   code : {"none", "PROMOTION_FAILED", "ROLLBACK_UNVERIFIED"}]
      /\ job'.state = "running" => job'.phase \in Forward \cup Backward
      /\ PhaseTrue'
  <2>1. CASE job' = job
    BY <1>1, <2>1 DEF Typed, SagaRuns, PhaseTrue, Running
  <2>2. CASE job' = Stamped
    BY <1>1, <2>2, StampedTrue
  <2> QED BY <1>1, <2>1, <2>2
<1>5. Typed'
  BY <1>1, <1>4 DEF Typed
<1>6. SagaRuns'
  BY <1>3, <1>4 DEF SagaRuns, Running
<1>7. SyncOwner' /\ SyncFile' /\ StampTrue' /\ OpenPublished' /\ SetupFirst'
  BY <1>1, <1>2, <1>3 DEF SyncOwner, SyncFile, StampTrue, OpenPublished, SetupFirst
<1> QED BY <1>4, <1>5, <1>6, <1>7

\* The recovery publishes, for the row and once more at its end.
LEMMA TruthPublishes ==
    TruthInv /\ FenceInv /\ (PublishChampionPointer \/ FinalSync) => TruthInv'
<1> SUFFICES ASSUME TruthInv, FenceInv, PublishChampionPointer \/ FinalSync PROVE TruthInv'
  OBVIOUS
<1>1. app # "down" /\ app' # "down"
  BY DEF PublishChampionPointer, FinalSync, FenceInv, NoThreads
<1>2. UNCHANGED <<job, db, proof, last, app>>
  BY DEF PublishChampionPointer, FinalSync, saga_vars
<1>3. sync.at = "off" /\ saga.at \in {"drive", "final"} /\ blocked
  BY DEF PublishChampionPointer, FinalSync, TruthInv, SagaRuns
<1>4. CASE PublishChampionPointer
  <2>1. saga.at = "drive" /\ job.phase \in PublishPhases
    BY <1>4 DEF PublishChampionPointer, PublishPhases
  <2>2. CASE SyncChampionPointer("saga")
    BY <1>1, <1>2, <2>1, <2>2, SyncTrue
  <2>3. CASE SagaResult(FALSE) /\ UNCHANGED <<file, sync, blocked>>
    <3> USE DEF TruthInv
    <3>1. saga'.at = "stamp" /\ ~saga'.ok
      BY <2>3 DEF SagaResult
    <3>2. Typed' /\ PhaseTrue' /\ SyncFile' /\ SetupFirst'
      BY <1>2, <2>3 DEF Typed, PhaseTrue, SyncFile, SetupFirst
    <3>3. SagaRuns' /\ SyncOwner' /\ StampTrue' /\ OpenPublished'
      BY <1>2, <1>3, <2>1, <2>3, <3>1 DEF SagaRuns, SyncOwner, StampTrue, OpenPublished, Running
    <3> QED BY <3>2, <3>3
  <2> QED BY <1>4, <2>2, <2>3 DEF PublishChampionPointer
<1>5. CASE FinalSync
  <2>1. saga.at = "final"
    BY <1>5 DEF FinalSync
  <2>2. CASE SyncChampionPointer("final")
    BY <1>1, <1>2, <2>1, <2>2, SyncTrue
  <2>3. CASE SagaEnds(FALSE) /\ UNCHANGED <<file, sync>>
    <3> USE DEF TruthInv
    <3>1. saga'.at = "off" /\ blocked'
      BY <1>3, <2>3 DEF SagaEnds, FenceInv, Shapes
    <3>2. Typed' /\ PhaseTrue' /\ SyncFile' /\ SetupFirst'
      BY <1>2, <2>3 DEF Typed, PhaseTrue, SyncFile, SetupFirst
    <3>3. SagaRuns' /\ SyncOwner' /\ StampTrue' /\ OpenPublished'
      BY <1>2, <1>3, <2>1, <2>3, <3>1 DEF SagaRuns, SyncOwner, StampTrue, OpenPublished, Running
    <3> QED BY <3>2, <3>3
  <2> QED BY <1>5, <2>2, <2>3 DEF FinalSync
<1> QED BY <1>4, <1>5

\* The steps of the replacement.
LEMMA TruthSync == TruthInv /\ FenceInv /\ (SyncAside \/ SyncPromote \/ SyncClean) => TruthInv'
<1> SUFFICES ASSUME TruthInv, FenceInv, SyncAside \/ SyncPromote \/ SyncClean PROVE TruthInv'
  OBVIOUS
<1>1. sync.at # "off" /\ UNCHANGED <<job, db, proof, app>>
  BY DEF SyncAside, SyncPromote, SyncClean, saga_vars
<1>2. /\ app' # "down" /\ sync.by \in {"boot", "saga", "final"}
      /\ sync.by = "boot" => saga.at = "off"
      /\ sync.by = "saga" => saga.at = "drive" /\ job.phase \in PublishPhases
      /\ sync.by = "final" => saga.at = "final"
  BY <1>1 DEF FenceInv, NoThreads, Shapes, TruthInv, SyncOwner
<1>3. FileOK(file) /\ PointedBy(file) = last /\ db \in Models /\ db # None
  BY EngineAssumption DEF TruthInv, Typed, Models
<1>4. file.main # None => last = file.main
  BY <1>3 DEF PointedBy, RecoverInterruptedReplace
\* The replacement goes on.
<1>5. ASSUME UNCHANGED <<saga, blocked>>, NEW at, sync' = [sync EXCEPT !.at = at],
             at \in {"promote", "clean"}, FileOK(file'), PointedBy(file') = last',
             last' \in {last, db}, at = "clean" => file'.main = db /\ last' = db
      PROVE  TruthInv'
  <2> USE DEF TruthInv
  <2>1. sync'.at = at /\ sync'.by = sync.by
    BY <1>5 DEF FenceInv, Shapes
  <2>2. Typed' /\ SyncFile'
    BY <1>1, <1>5, <2>1 DEF Typed, SyncFile
  <2>3. PhaseTrue' /\ StampTrue'
    BY <1>1, <1>5 DEF PhaseTrue, StampTrue, Target
  <2>4. SagaRuns' /\ SyncOwner' /\ SetupFirst' /\ OpenPublished'
    BY <1>1, <1>2, <1>5, <2>1 DEF SagaRuns, SyncOwner, SetupFirst, OpenPublished, Running
  <2> QED BY <2>2, <2>3, <2>4
<1>6. CASE SyncAside
  <2>1. sync.at = "aside" /\ file.main # None /\ last' = last
    BY <1>6 DEF SyncAside, TruthInv, SyncFile
  <2>2. CASE file' = SetAside(file) /\ sync' = [sync EXCEPT !.at = "promote"]
             /\ UNCHANGED <<saga, blocked>>
    BY <1>3, <1>4, <1>5, <2>1, <2>2, SetAsideKeeps
  <2>3. CASE file' \in {file, RemoveOwn(file)} /\ Published(sync.by, FALSE)
    <3>1. FileOK(file') /\ file'.main = file.main
      BY <1>3, <2>3, RemoveOwnKeeps
    <3>2. PointedBy(file') = last'
      BY <1>4, <2>1, <3>1 DEF PointedBy, RecoverInterruptedReplace
    <3> QED BY <1>1, <1>2, <2>1, <2>3, <3>1, <3>2, PublishedTrue
  <2> QED BY <1>6, <2>2, <2>3 DEF SyncAside
<1>7. CASE SyncPromote
  <2>1. CASE file' = [file EXCEPT !.main = db] /\ last' = db
             /\ sync' = [sync EXCEPT !.at = "clean"] /\ UNCHANGED <<saga, blocked>>
    <3>1. FileOK(file') /\ file'.main = db
      BY <1>3, <2>1 DEF FileOK
    <3>2. PointedBy(file') = last'
      BY <1>3, <2>1, <3>1 DEF PointedBy, RecoverInterruptedReplace
    <3> QED BY <1>5, <2>1, <3>1, <3>2
  <2>2. CASE file' \in {file, RecoverInterruptedReplace(file)} /\ Published(sync.by, FALSE)
             /\ last' = last
    <3>1. FileOK(file') /\ PointedBy(file') = last'
      BY <1>3, <2>2, RecoverKeeps
    <3> QED BY <1>1, <1>2, <2>2, <3>1, PublishedTrue
  <2> QED BY <1>7, <2>1, <2>2 DEF SyncPromote
<1>8. CASE SyncClean
  <2>1. file.main = db /\ last = db /\ last' = last
    BY <1>8 DEF SyncClean, TruthInv, SyncFile
  <2>2. FileOK(file') /\ file'.main = db
    BY <1>3, <1>8, <2>1, RemoveOwnKeeps DEF SyncClean
  <2>3. PointedBy(file') = last'
    BY <1>3, <2>1, <2>2 DEF PointedBy, RecoverInterruptedReplace
  <2>4. PICK ok \in BOOLEAN : Published(sync.by, ok)
    BY <1>8 DEF SyncClean
  <2> QED BY <1>1, <1>2, <2>1, <2>2, <2>3, <2>4, PublishedTrue
<1> QED BY <1>6, <1>7, <1>8

\* The invariant is kept by every step.
LEMMA TruthNext == TruthInv /\ FenceInv /\ [Next]_vars => TruthInv'
<1> SUFFICES ASSUME TruthInv, FenceInv, [Next]_vars PROVE TruthInv'
  OBVIOUS
<1>1. CASE UNCHANGED vars \/ BeginShutdown \/ ChildReady \/ ChildDies
  BY <1>1, TruthKept DEF vars, saga_vars, fence, BeginShutdown, ChildReady, ChildDies
<1>2. CASE ButtonCheck \/ ButtonNote \/ ToggleSupervision
  BY <1>2, TruthKept DEF saga_vars, fence, ButtonCheck, ButtonNote, ToggleSupervision
<1>3. CASE LoopWakes \/ LoopProbes \/ LoopDecides \/ LoopChecks
  BY <1>3, TruthKept DEF saga_vars, fence, LoopWakes, LoopProbes, LoopDecides, LoopChecks
<1>4. CASE ButtonSpawn \/ LoopSpawns
  BY <1>4, TruthKept DEF saga_vars, fence, ButtonSpawn, LoopSpawns, StartChild
<1>5. CASE SagaLease \/ FinishSetup
  BY <1>5, TruthLease, TruthSetup
<1>6. CASE Boot \/ ProcessEnds
  BY <1>6, TruthBoot, TruthEnds
<1>7. CASE SetDatabaseChampion \/ RestartChampion \/ VerifyExactAndCanary
  BY <1>7, TruthEffects
<1>8. CASE Stamp \/ PublishChampionPointer \/ FinalSync
  BY <1>8, TruthStamp, TruthPublishes
<1>9. CASE SyncAside \/ SyncPromote \/ SyncClean
  BY <1>9, TruthSync
<1> QED BY <1>1, <1>2, <1>3, <1>4, <1>5, <1>6, <1>7, <1>8, <1>9 DEF Next

\* Both invariants, always.
LEMMA TruthAlways == Spec => [](TruthInv /\ FenceInv)
  BY TruthInit, TruthNext, FenceInit, FenceNext, PTL DEF Spec

\* A phase the journal records is true of the registry and of what recovery
\* will find at champion.json, for any number of crashes between an effect and
\* its record (champion_promotion.rs, drive; atomic_file.rs, replace_file).
THEOREM PhaseTruth == Spec => []PhaseIsTruth
<1>1. TruthInv => PhaseIsTruth
  <2> SUFFICES ASSUME TruthInv PROVE PhaseIsTruth
    OBVIOUS
  <2>1. Pointed = last
    BY DEF Pointed, PointedBy, TruthInv, Typed
  <2> QED BY <2>1 DEF TruthInv, PhaseTrue, PhaseIsTruth, PublishedPhases, VerifyPhases, Forward,
                      Backward
<1> QED BY <1>1, TruthAlways, PTL

\* A replacement that a crash interrupted costs nothing, however many backups
\* are left behind, and behind an open fence champion.json names the registry's
\* champion (registry.rs, sync_champion_pointer; lib.rs, startup).
THEOREM PointerPublished == Spec => []PointerIsPublished
<1>1. TruthInv => PointerIsPublished
  BY DEF TruthInv, Typed, Pointed, PointedBy, PointerIsPublished, OpenPublished, SetupFirst
<1> QED BY <1>1, TruthAlways, PTL

\* A promotion ends as promoted or as rolled back only on a verification of
\* that deployment that this process made (drive's re-verification).
THEOREM FreshProof == Spec => EndsOnFreshProof
<1>1. TruthInv /\ FenceInv /\ [Next]_vars =>
        [(Running /\ job'.state # "running" /\ job'.code # "ROLLBACK_UNVERIFIED")
           => proof = db]_vars
  <2> SUFFICES ASSUME TruthInv, FenceInv, [Next]_vars,
                      Running, job'.state # "running", job'.code # "ROLLBACK_UNVERIFIED"
               PROVE  proof = db
    OBVIOUS
  <2>1. CASE Stamp
    <3>1. saga.at = "stamp" /\ job' = Stamped /\ UNCHANGED <<db, last>>
      BY <2>1 DEF Stamp, Running
    <3> QED BY <3>1, StampedTrue
  <2>2. CASE ~Stamp
    <3>1. job' # job
      BY DEF Running
    <3>2. CASE Boot \/ FinishSetup \/ BeginShutdown \/ ProcessEnds \/ ChildReady \/ ChildDies
      BY <3>1, <3>2 DEF Boot, FinishSetup, BeginShutdown, ProcessEnds, ChildReady, ChildDies,
                        saga_vars
    <3>3. CASE ButtonCheck \/ ButtonSpawn \/ ButtonNote \/ ToggleSupervision
      BY <3>1, <3>3 DEF ButtonCheck, ButtonSpawn, ButtonNote, ToggleSupervision, saga_vars
    <3>4. CASE LoopWakes \/ LoopProbes \/ LoopDecides \/ LoopChecks \/ LoopSpawns
      BY <3>1, <3>4 DEF LoopWakes, LoopProbes, LoopDecides, LoopChecks, LoopSpawns, saga_vars
    <3>5. CASE SagaLease \/ SetDatabaseChampion \/ PublishChampionPointer \/ RestartChampion
      BY <3>1, <3>5 DEF SagaLease, SetDatabaseChampion, PublishChampionPointer, RestartChampion,
                        saga_vars
    <3>6. CASE VerifyExactAndCanary \/ FinalSync \/ SyncAside \/ SyncPromote \/ SyncClean
      BY <3>1, <3>6 DEF VerifyExactAndCanary, FinalSync, SyncAside, SyncPromote, SyncClean,
                        saga_vars
    <3>7. ~UNCHANGED vars
      BY <3>1 DEF vars, saga_vars
    <3> QED BY <2>2, <3>2, <3>3, <3>4, <3>5, <3>6, <3>7 DEF Next
  <2> QED BY <2>1, <2>2
<1> QED BY <1>1, TruthAlways, PTL DEF Spec, EndsOnFreshProof
=============================================================================
