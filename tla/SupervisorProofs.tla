-------------------------- MODULE SupervisorProofs --------------------------
(***************************************************************************)
(* The supervisor's safety, for every restart policy and every number of   *)
(* generations: type correctness, one live tree, honest Exited, crash      *)
(* accounting, final states, and the refinement of SingleOwner.            *)
(***************************************************************************)
EXTENDS Supervisor, TLAPS

\* The crash budget of an arbitrary machine value.
Budget(l) ==
  /\ l.state \in Running => l.attempt < l.generation
  /\ l.attempt <= l.generation
  /\ l.attempt <= MaxAttempts + 1
  /\ l.attempt > MaxAttempts => l.state \in Final

\* The backoff delay of a counted crash is a natural number.
LEMMA DelayType ==
  ASSUME NEW n \in 1..MaxAttempts
  PROVE  Delay(n) \in Nat
BY DelaysAssumption, PolicyAssumption DEF Delay

\* record_crash leaves a running state, keeps the generation and the budget,
\* and changes nothing in any other state.
LEMMA RecordCrashFacts ==
  ASSUME NEW l \in Machine, NEW t \in Nat, Budget(l)
  PROVE  LET r == RecordCrash(l, l.generation, t)
         IN /\ r \in Machine
            /\ r.generation = l.generation
            /\ Budget(r)
            /\ l.state \in Running => r.state \in {"Backoff", "Faulted"}
            /\ l.state \notin Running => r = l
<1>1. CASE l.state \notin Running
  BY <1>1 DEF RecordCrash
<1>2. CASE l.state \in Running
  <2> DEFINE n == CountCrash(l, t)
  <2>1. n \in Nat /\ n >= 1 /\ n <= l.generation /\ n <= MaxAttempts + 1
    BY <1>2, PolicyAssumption DEF Machine, Budget, CountCrash, Running, Final, LifecycleState
  <2>2. CASE n > MaxAttempts
    BY <1>2, <2>1, <2>2 DEF RecordCrash, Current, Machine, Budget, Unset, Running, Final,
       LifecycleState
  <2>3. CASE ~(n > MaxAttempts)
    <3>1. n \in 1..MaxAttempts
      BY <2>1, <2>3, PolicyAssumption
    <3>2. Delay(n) \in Nat
      BY <3>1, DelayType
    <3>3. RecordCrash(l, l.generation, t)
            = [l EXCEPT !.state = "Backoff", !.attempt = n, !.retryAt = t + Delay(n)]
      BY <1>2, <2>3 DEF RecordCrash, Current
    <3> HIDE DEF n
    <3>4. t + Delay(n) \in Nat
      BY <3>2
    <3> QED
      BY <1>2, <2>1, <2>3, <3>3, <3>4, PolicyAssumption DEF Machine, Budget, Running, Final,
         LifecycleState
  <2> QED
    BY <2>2, <2>3
<1> QED
  BY <1>1, <1>2

\* mark_exited keeps generation and budget and never leaves a final state.
LEMMA MarkExitedFacts ==
  ASSUME NEW l \in Machine, Budget(l)
  PROVE  LET r == MarkExited(l, l.generation)
         IN /\ r \in Machine
            /\ r.generation = l.generation
            /\ Budget(r)
            /\ l.state \in Final => r = l
            /\ l.state \notin Final => r.state = "Exited"
BY PolicyAssumption DEF MarkExited, Current, Machine, Budget, Running, Final, LifecycleState

\* Applying the terminal signals either changes nothing, or records a crash of
\* a running machine, or confirms the exit of a stopping one without owners.
LEMMA SyncedFacts ==
  ASSUME NEW l \in Machine, now \in Nat, Budget(l)
  PROVE  LET r == Synced(l)
         IN /\ r \in Machine
            /\ r.generation = l.generation
            /\ Budget(r)
            /\ \/ r = l
               \/ l.state \in Running /\ r.state \in {"Backoff", "Faulted"}
               \/ l.state = "Stopping" /\ ~OwnsResources /\ r.state = "Exited"
BY RecordCrashFacts, MarkExitedFacts DEF Synced, Final, Running

\* The other transitions keep the machine well formed and within its budget.
LEMMA TransitionFacts ==
  ASSUME NEW l \in Machine, NEW t \in Nat, Budget(l)
  PROVE  /\ BeginStart(l) \in Machine
         /\ l.state \notin Final => Budget(BeginStart(l))
         /\ BeginStart(l).generation = l.generation + 1
         /\ BeginStart(l).state = "Starting"
         /\ MarkReady(l, l.generation, t) \in Machine /\ Budget(MarkReady(l, l.generation, t))
         /\ MarkBusy(l, l.generation) \in Machine /\ Budget(MarkBusy(l, l.generation))
         /\ MarkReadyAgain(l, l.generation) \in Machine /\ Budget(MarkReadyAgain(l, l.generation))
         /\ BeginStop(l, l.generation) \in Machine /\ Budget(BeginStop(l, l.generation))
<1> USE PolicyAssumption DEF Current, Machine, Budget, Running, Final, LifecycleState, Unset
<1>1. /\ BeginStart(l) \in Machine
      /\ l.state \notin Final => Budget(BeginStart(l))
      /\ BeginStart(l).generation = l.generation + 1
      /\ BeginStart(l).state = "Starting"
  <2>1. /\ BeginStart(l).generation = l.generation + 1
        /\ BeginStart(l).state = "Starting"
        /\ BeginStart(l).attempt = l.attempt
    BY DEF BeginStart
  <2>2. BeginStart(l) \in Machine
    BY DEF BeginStart
  <2>3. ASSUME l.state \notin Final PROVE Budget(BeginStart(l))
    <3> HIDE DEF Machine, Unset
    <3>1. l.attempt \in Nat /\ l.generation \in Nat
      BY DEF Machine
    <3> QED
      BY <2>1, <2>3, <3>1
  <2> QED
    BY <2>1, <2>2, <2>3
<1>2. MarkReady(l, l.generation, t) \in Machine /\ Budget(MarkReady(l, l.generation, t))
  BY DEF MarkReady
<1>3. MarkBusy(l, l.generation) \in Machine /\ Budget(MarkBusy(l, l.generation))
  BY DEF MarkBusy
<1>4. MarkReadyAgain(l, l.generation) \in Machine /\ Budget(MarkReadyAgain(l, l.generation))
  BY DEF MarkReadyAgain
<1>5. BeginStop(l, l.generation) \in Machine /\ Budget(BeginStop(l, l.generation))
  BY DEF BeginStop
<1> QED
  BY <1>1, <1>2, <1>3, <1>4, <1>5

\* mark_faulted and mark_incompatible keep generation and budget.
LEMMA MarkFinalFacts ==
  ASSUME NEW l \in Machine, NEW state \in Final,
         l.attempt <= l.generation, l.attempt <= MaxAttempts + 1
  PROVE  LET r == MarkFinal(l, l.generation, state)
         IN /\ r \in Machine
            /\ r.generation = l.generation
            /\ r.state = state
            /\ Budget(r)
BY PolicyAssumption
   DEF MarkFinal, Current, Machine, Budget, Running, Final, LifecycleState, Unset

\* What ending a tree leaves of it.
LEMMA EndTreeFacts ==
  ASSUME TypeOK, NEW g, NEW signalled \in BOOLEAN, NEW reaped \in BOOLEAN,
         EndTree(g, signalled, reaped)
  PROVE  /\ alive' \subseteq alive /\ offspring' \subseteq offspring
         /\ offspring \ {g} \subseteq offspring'
         /\ guard' \in Guard
         /\ reaped => g \notin alive'
         /\ guard' = "spent" => guard = "spent" \/ g \notin offspring'
         /\ guard # "spent" /\ Terminated(signalled) => g \notin offspring'
BY DEF EndTree, TypeOK, Guard, Terminated

\* What a cleanup leaves behind, whether or not it succeeded.
LEMMA CleanupFacts ==
  ASSUME Core, NEW try \in Attempt, Cleanup(try)
  PROVE  /\ process' \in {None, process} /\ process' = session' /\ pump' \in BOOLEAN
         /\ pump' => session' # None
         /\ alive' \subseteq alive
         /\ process' = None /\ process # None => alive' \subseteq alive \ {process}
         /\ session # None => session \in closed'
         /\ closed \subseteq closed' /\ closed' \subseteq Generations
         /\ closing' = closing /\ detached' \subseteq Generations
         /\ \A g \in 1..lc.generation : g # session' => g \in closed'
         /\ CloseSignal \subseteq Signal
         /\ process' = IF Cleaned(try) THEN None ELSE process
         /\ offspring' \subseteq offspring /\ guard' \in Guard
         /\ offspring \ {process} \subseteq offspring'
         /\ claims' = claims /\ refused' = refused /\ probe' = probe
<1> USE DEF Core
<1>0. CASE process = None
  <2>1. UNCHANGED <<alive, offspring, guard>>
    BY <1>0 DEF Cleanup, trees
  <2> QED
    BY <1>0, <2>1, BoundsAssumption
       DEF TypeOK, Ownership, StaleSessionsClosed, Cleanup, Cleaned, ClosedByOwner, Attempt, 
           None, Generations, monitors, CloseSignal, Signal, Reason
<1>1. CASE process # None
  <2>1. EndTree(process, try.signal, try.reap) /\ try.signal \in BOOLEAN /\ try.reap \in BOOLEAN
    BY <1>1 DEF Cleanup, Attempt
  <2>2. /\ alive' \subseteq alive /\ offspring' \subseteq offspring
        /\ offspring \ {process} \subseteq offspring'
        /\ guard' \in Guard
        /\ try.reap => process \notin alive'
    BY <2>1, EndTreeFacts
  <2>3. CloseSignal \subseteq Signal
    BY DEF CloseSignal, Signal, Reason, TypeOK
  <2>4. /\ process' \in {None, process} /\ process' = session' /\ pump' \in BOOLEAN
        /\ pump' => session' # None
        /\ process' = IF Cleaned(try) THEN None ELSE process
    BY <1>1 DEF TypeOK, Ownership, Cleanup, None
  <2>5. process' = None => try.reap
    BY <1>1, <2>4 DEF Cleaned
  <2>6. /\ session # None => session \in closed'
        /\ closed \subseteq closed' /\ closed' \subseteq Generations
        /\ closing' = closing /\ detached' \subseteq Generations
        /\ \A g \in 1..lc.generation : g # session' => g \in closed'
    BY BoundsAssumption, <1>1, <2>4
       DEF TypeOK, Ownership, StaleSessionsClosed, Cleanup, ClosedByOwner, None, Generations
  <2>7. claims' = claims /\ refused' = refused /\ probe' = probe
    BY DEF Cleanup, monitors
  <2> QED
    BY <2>2, <2>3, <2>4, <2>5, <2>6, <2>7
<1> QED
  BY <1>0, <1>1

\* Every initial state satisfies the inductive invariant.
LEMMA InitInvariant == Init => Core
<1> SUFFICES ASSUME Init PROVE Core
  OBVIOUS
<1> USE BoundsAssumption, PolicyAssumption
<1>0. NewMachine \in Machine /\ NewMachine.generation = 0
  BY DEF NewMachine, Machine, LifecycleState, Running, Final, Unset
<1>1. TypeOK
  <2>1. 0 \in 0..MaxGeneration /\ 0 \in 0..MaxTime
    OBVIOUS
  <2>2. lc \in Machine /\ lc.generation \in 0..MaxGeneration
    BY <1>0, <2>1 DEF Init
  <2> QED
    BY <2>1, <2>2 DEF Init, TypeOK, Op, Guard, Probe
<1>2. Ownership
  BY DEF Init, Ownership, NewMachine, Running, Final, None
<1>3. StaleSessionsClosed /\ CrashBudget
  BY DEF Init, StaleSessionsClosed, CrashBudget, NewMachine, Running, Final, None
<1> QED
  BY <1>1, <1>2, <1>3 DEF Core

\* A step that only touches the machine, its call and the queue, and moves the
\* machine the way the signals do, keeps the invariant.
LEMMA QuietStep ==
  ASSUME Core, NoCleanup, now' = now, stopping' \in BOOLEAN, signals' \subseteq Signal,
         op = "idle", op' \in {"idle"}, lc' = Synced(lc)
  PROVE  Core'
<1> USE DEF Core, NoCleanup, trees, monitors
<1>1. lc \in Machine /\ now \in Nat /\ Budget(lc)
  BY BoundsAssumption DEF TypeOK, CrashBudget, Budget
<1>2. /\ lc' \in Machine /\ lc'.generation = lc.generation /\ Budget(lc')
      /\ \/ lc' = lc
         \/ lc.state \in Running /\ lc'.state \in {"Backoff", "Faulted"}
         \/ lc.state = "Stopping" /\ ~OwnsResources /\ lc'.state = "Exited"
  BY <1>1, SyncedFacts
<1>3. TypeOK'
  BY <1>2 DEF TypeOK, Op
<1>4. Ownership'
  BY <1>2 DEF Ownership, OwnsResources, Running, Final, TypeOK, None
<1>5. StaleSessionsClosed' /\ CrashBudget'
  BY <1>2 DEF StaleSessionsClosed, CrashBudget, Budget
<1> QED
  BY <1>3, <1>4, <1>5

\* The call-by-call induction step.
LEMMA NextInvariant == Core /\ [Next]_vars => Core'
<1> SUFFICES ASSUME Core, [Next]_vars PROVE Core'
  OBVIOUS
<1> USE DEF Core
<1>1. lc \in Machine /\ now \in Nat /\ Budget(lc) /\ lc.generation \in 0..MaxGeneration
  BY BoundsAssumption DEF TypeOK, CrashBudget, Budget
<1>2. /\ Synced(lc) \in Machine /\ Synced(lc).generation = lc.generation /\ Budget(Synced(lc))
      /\ \/ Synced(lc) = lc
         \/ lc.state \in Running /\ Synced(lc).state \in {"Backoff", "Faulted"}
         \/ lc.state = "Stopping" /\ ~OwnsResources /\ Synced(lc).state = "Exited"
  BY <1>1, SyncedFacts
<1>3. {} \subseteq Signal
  OBVIOUS
<1>4. ASSUME op = "idle", PrepareStart(Synced(lc)) PROVE Core'
  <2> DEFINE l == Synced(lc)
  <2> HIDE DEF l
  <2>0. /\ l \in Machine /\ l.generation = lc.generation /\ Budget(l)
        /\ \/ l = lc
           \/ lc.state \in Running /\ l.state \in {"Backoff", "Faulted"}
           \/ lc.state = "Stopping" /\ ~OwnsResources /\ l.state = "Exited"
    BY <1>2 DEF l
  <2>1. lc' = l /\ stopping' = FALSE /\ now' = now
    BY <1>4 DEF PrepareStart, l
  <2>2. CASE StartMustCleanup(l)
    <3>1. PICK try \in Attempt : /\ Cleanup(try) /\ signals' = CloseSignal
                                 /\ op' = IF Cleaned(try) THEN "start" ELSE "idle"
      BY <1>4, <2>2 DEF PrepareStart, l
    <3>2. TypeOK'
      BY <2>0, <2>1, <3>1, CleanupFacts DEF TypeOK, Op
    <3>3. Ownership'
      BY <2>0, <2>1, <2>2, <3>1, CleanupFacts, <1>4
         DEF Ownership, OwnsResources, Running, Final, TypeOK, None, StartMustCleanup
    <3>4. StaleSessionsClosed' /\ CrashBudget'
      BY <2>0, <2>1, <3>1, CleanupFacts DEF StaleSessionsClosed, CrashBudget, Budget
    <3> QED
      BY <3>2, <3>3, <3>4
  <2>3. CASE ~StartMustCleanup(l)
    <3>1. NoCleanup /\ signals' = {} /\ op' = "start"
      BY <1>4, <2>3 DEF PrepareStart, l
    <3>2. TypeOK'
      BY <2>0, <2>1, <3>1 DEF TypeOK, Op, NoCleanup, trees, monitors
    <3>3. Ownership'
      BY <2>0, <2>1, <2>3, <3>1, <1>4
         DEF Ownership, OwnsResources, Running, Final, TypeOK, None, StartMustCleanup, NoCleanup,
         trees, 
             monitors
    <3>4. StaleSessionsClosed' /\ CrashBudget'
      BY <2>0, <2>1, <3>1 DEF StaleSessionsClosed, CrashBudget, Budget, NoCleanup, trees, monitors
    <3> QED
      BY <3>2, <3>3, <3>4
  <2> QED
    BY <2>2, <2>3
<1>5. CASE Start
  BY <1>4, <1>5 DEF Start
<1>6. CASE Restart
  <2>1. CASE Synced(lc).state = "Backoff" /\ ~BackoffDue(Synced(lc), now)
    BY <1>6, <2>1, QuietStep DEF Restart, TypeOK
  <2>2. CASE ~(Synced(lc).state = "Backoff" /\ ~BackoffDue(Synced(lc), now))
    BY <1>4, <1>6, <2>2 DEF Restart
  <2> QED
    BY <2>1, <2>2
<1>7. CASE StartRefused
  <2>1. TypeOK'
    BY <1>7 DEF StartRefused, NoCleanup, trees, monitors, TypeOK, Op
  <2>2. Ownership'
    BY <1>7 DEF StartRefused, NoCleanup, trees, monitors, Ownership, TypeOK
  <2> QED
    BY <1>7, <2>1, <2>2 DEF StartRefused, NoCleanup, trees, monitors, StaleSessionsClosed,
       CrashBudget
<1>8. CASE Spawn
  <2>1. lc.state \in {"Exited", "Backoff"}
    BY <1>8 DEF Spawn, CanStart
  <2>2. /\ lc' \in Machine /\ Budget(lc') /\ lc'.state = "Starting"
        /\ lc'.generation = lc.generation + 1
    BY <1>1, <1>8, <2>1, TransitionFacts DEF Spawn, Final
  <2>3. lc.generation + 1 \in Generations
    BY <1>1, <1>8, BoundsAssumption DEF Spawn, Generations
  <2>4. process = None /\ alive = {}
    BY <1>8, <2>1, <1>1, BoundsAssumption DEF Spawn, Ownership, Final, None, TypeOK, Generations
  <2>5. TypeOK'
    <3>1. lc.generation + 1 \in 0..MaxGeneration
      BY <2>3, BoundsAssumption DEF Generations
    <3> QED
      BY <1>8, <2>2, <2>3, <3>1 DEF Spawn, TypeOK, Op, Guard, Probe
  <2>6. Ownership'
    BY <1>8, <2>2, <2>3, <2>4 DEF Spawn, Ownership, Running, Final, None, Generations
  <2>7. StaleSessionsClosed' /\ CrashBudget'
    BY <1>8, <1>1, <2>2, <2>4
       DEF Spawn, StaleSessionsClosed, CrashBudget, Budget, Ownership, None, Machine
  <2> QED
    BY <2>5, <2>6, <2>7
<1>9. CASE SpawnFails
  <2>1. lc.state \in {"Exited", "Backoff"}
    BY <1>9 DEF SpawnFails, CanStart
  <2> DEFINE b == BeginStart(lc)
  <2>2. b \in Machine /\ Budget(b) /\ b.generation = lc.generation + 1
    BY <1>1, <2>1, TransitionFacts DEF Final
  <2>3. lc' = MarkFinal(b, b.generation, "Faulted")
    BY <1>9, <2>2 DEF SpawnFails, MarkFaulted
  <2> HIDE DEF b
  <2>4. /\ lc' \in Machine /\ Budget(lc') /\ lc'.state = "Faulted"
        /\ lc'.generation = lc.generation + 1
    BY <2>2, <2>3, MarkFinalFacts DEF Budget, Final
  <2>5. lc.generation + 1 \in Generations
    BY <1>1, <1>9, BoundsAssumption DEF SpawnFails, Generations
  <2>6. process = None /\ alive = {}
    BY <1>9, <2>1, <1>1, BoundsAssumption DEF SpawnFails, Ownership, Final, None, TypeOK,
       Generations
  <2>7. signals' \subseteq Signal
    BY <1>9, <2>5 DEF SpawnFails, TypeOK, Signal, Reason
  <2>8. TypeOK'
    <3>1. lc.generation + 1 \in 0..MaxGeneration
      BY <2>5, BoundsAssumption DEF Generations
    <3> QED
      BY <1>9, <2>4, <2>5, <2>7, <3>1 DEF SpawnFails, TypeOK, Op, monitors
  <2>9. Ownership'
    BY <1>9, <2>4, <2>5, <2>6 DEF SpawnFails, Ownership, Running, Final, None, Generations
  <2>10. StaleSessionsClosed' /\ CrashBudget'
    BY <1>9, <1>1, <2>4, <2>6
       DEF SpawnFails, StaleSessionsClosed, CrashBudget, Budget, Ownership, None, Machine
  <2> QED
    BY <2>8, <2>9, <2>10
<1>10. CASE Initialized
  <2>1. TypeOK'
    BY <1>10 DEF Initialized, NoCleanup, trees, monitors, TypeOK, Op
  <2>2. Ownership'
    BY <1>10 DEF Initialized, NoCleanup, trees, monitors, Ownership, TypeOK
  <2> QED
    BY <1>10, <2>1, <2>2 DEF Initialized, NoCleanup, trees, monitors, StaleSessionsClosed,
       CrashBudget
<1>11. ASSUME op \in {"initialize", "ready"}, NEW try \in Attempt, Cleanup(try),
              signals' = signals \cup CloseSignal, NEW state \in Final,
              lc' = MarkFinal(lc, lc.generation, state),
              op' = "idle", UNCHANGED <<now, stopping>>
       PROVE Core'
  <2>1. lc' \in Machine /\ lc'.generation = lc.generation /\ lc'.state \in Final /\ Budget(lc')
    BY <1>1, <1>11, MarkFinalFacts DEF Budget
  <2>2. TypeOK'
    BY <1>11, <2>1, CleanupFacts DEF TypeOK, Op
  <2>3. Ownership'
    BY <1>11, <2>1, CleanupFacts DEF Ownership, Running, Final, None, TypeOK
  <2>4. StaleSessionsClosed' /\ CrashBudget'
    BY <1>11, <2>1, CleanupFacts DEF StaleSessionsClosed, CrashBudget, Budget
  <2> QED
    BY <2>2, <2>3, <2>4
<1>12. CASE InitializeRejected
  BY <1>11, <1>12 DEF InitializeRejected, MarkIncompatible, MarkFaulted, Final
<1>13. CASE HandshakeFails
  BY <1>11, <1>13 DEF HandshakeFails, MarkFaulted, Final
<1>14. CASE PromoteReady
  <2>1. lc.state = "Starting"
    BY <1>14 DEF PromoteReady, Ownership
  <2>2. /\ lc' \in Machine /\ Budget(lc') /\ lc'.state = "Ready"
        /\ lc'.generation = lc.generation
    BY <1>1, <1>14, <2>1, TransitionFacts DEF PromoteReady, MarkReady, Current, Machine
  <2>3. TypeOK'
    BY <1>14, <2>2 DEF PromoteReady, NoCleanup, trees, monitors, TypeOK, Op
  <2>4. Ownership'
    BY <1>14, <2>1, <2>2 DEF PromoteReady, NoCleanup, trees, monitors, Ownership, Running, Final
  <2> QED
    BY <1>14, <2>2, <2>3, <2>4 DEF PromoteReady, NoCleanup, trees, monitors, StaleSessionsClosed,
       CrashBudget, Budget
<1>15. CASE Poll
  BY <1>15, QuietStep DEF Poll, TypeOK
<1>16. CASE TakeEventPump
  <2>1. TypeOK'
    BY <1>2, <1>16 DEF TakeEventPump, trees, monitors, TypeOK
  <2>2. Ownership'
    BY <1>2, <1>16 DEF TakeEventPump, trees, monitors, Ownership, OwnsResources, Running, Final,
       None, TypeOK
  <2> QED
    BY <1>2, <1>16, <2>1, <2>2 DEF TakeEventPump, trees, monitors, StaleSessionsClosed,
       CrashBudget, Budget
<1>17. CASE Request
  <2>1. CASE ~stopping /\ Synced(lc).state = "Ready"
    <3>1. Synced(lc) = lc
      BY <1>2, <2>1
    <3>2. /\ lc' \in Machine /\ Budget(lc') /\ lc'.generation = lc.generation
          /\ lc'.state = "Busy"
      BY <1>1, <1>17, <2>1, <3>1, TransitionFacts DEF Request, MarkBusy, Current, Machine
    <3>3. session # None
      BY <2>1, <3>1 DEF Ownership, Running
    <3>4. TypeOK'
      BY <1>17, <3>2, <1>1 DEF Request, NoCleanup, trees, monitors, TypeOK, Op
    <3>5. Ownership'
      BY <1>17, <2>1, <3>1, <3>2, <3>3 DEF Request, NoCleanup, trees, monitors, Ownership,
         Running, Final
    <3> QED
      BY <1>17, <3>2, <3>4, <3>5 DEF Request, NoCleanup, trees, monitors, StaleSessionsClosed,
         CrashBudget, Budget
  <2>2. CASE ~(~stopping /\ Synced(lc).state = "Ready")
    BY <1>17, <2>2, QuietStep DEF Request, TypeOK
  <2> QED
    BY <2>1, <2>2
<1>18. CASE RequestReturns
  <2> DEFINE m == MarkReadyAgain(lc, lc.generation)
  <2>1. lc.state = "Busy"
    BY <1>18 DEF RequestReturns, Ownership
  <2>2. m \in Machine /\ Budget(m) /\ m.generation = lc.generation /\ m.state = "Ready"
    BY <1>1, <2>1, TransitionFacts DEF MarkReadyAgain, Current, Machine
  <2> HIDE DEF m
  <2>3. /\ lc' \in Machine /\ Budget(lc') /\ lc'.generation = lc.generation
        /\ lc'.state \in {"Ready", "Backoff", "Faulted"}
    BY <1>1, <1>18, <2>2, SyncedFacts DEF RequestReturns, m
  <2>4. TypeOK'
    BY <1>18, <2>3, <1>1 DEF RequestReturns, NoCleanup, trees, monitors, TypeOK, Op
  <2>5. Ownership'
    BY <1>18, <2>1, <2>3 DEF RequestReturns, NoCleanup, trees, monitors, Ownership, Running, Final
  <2> QED
    BY <1>18, <2>3, <2>4, <2>5 DEF RequestReturns, NoCleanup, trees, monitors,
       StaleSessionsClosed, CrashBudget, Budget
<1>19. CASE ScheduleRestart
  <2> DEFINE l == Synced(lc)
  <2>0. /\ l \in Machine /\ l.generation = lc.generation /\ Budget(l)
        /\ \/ l = lc
           \/ lc.state \in Running /\ l.state \in {"Backoff", "Faulted"}
           \/ lc.state = "Stopping" /\ ~OwnsResources /\ l.state = "Exited"
    BY <1>2
  <2>1. lc' = RecordCrash(l, l.generation, now)
    BY <1>19 DEF ScheduleRestart
  <2> HIDE DEF l
  <2>2. /\ lc' \in Machine /\ lc'.generation = lc.generation /\ Budget(lc')
        /\ l.state \in Running => lc'.state \in {"Backoff", "Faulted"}
        /\ l.state \notin Running => lc' = l
    BY <1>1, <2>0, <2>1, RecordCrashFacts
  <2>3. PICK try \in Attempt : Cleanup(try) /\ signals' = CloseSignal
    BY <1>19 DEF ScheduleRestart
  <2>4. TypeOK'
    BY <1>19, <1>1, <2>2, <2>3, CleanupFacts DEF ScheduleRestart, TypeOK
  <2>5. Ownership'
    BY <1>19, <2>0, <2>2, <2>3, CleanupFacts
       DEF ScheduleRestart, Ownership, OwnsResources, Running, Final, None, TypeOK
  <2> QED
    BY <1>19, <2>2, <2>3, <2>4, <2>5, CleanupFacts DEF StaleSessionsClosed, CrashBudget, Budget
<1>20. ASSUME NEW l \in Machine, l.generation = lc.generation, Budget(l), l.state \notin Running,
              \/ l = lc
              \/ lc.state \in Running /\ l.state \in {"Backoff", "Faulted"}
              \/ lc.state = "Stopping" /\ ~OwnsResources /\ l.state = "Exited",
              NEW try \in Attempt, Cleanup(try), lc' = Reaped(l, try), signals' \subseteq Signal,
              now' = now, stopping' \in BOOLEAN, op' = "idle"
       PROVE Core'
  <2>2. /\ lc' \in Machine /\ lc'.generation = lc.generation /\ Budget(lc')
        /\ \/ lc' = l
           \/ Cleaned(try) /\ lc'.state = "Exited" /\ l.state \notin Final
    BY <1>20, MarkExitedFacts DEF Reaped
  <2>3. TypeOK'
    BY <1>20, <1>1, <2>2, CleanupFacts DEF TypeOK, Op
  <2>4. Ownership'
    BY <1>20, <2>2, CleanupFacts
       DEF Ownership, OwnsResources, Running, Final, None, TypeOK
  <2> QED
    BY <1>20, <2>2, <2>3, <2>4, CleanupFacts DEF StaleSessionsClosed, CrashBudget, Budget
<1>21. CASE ShutdownIdle
  <2> DEFINE l == Synced(lc)
  <2>0. /\ l \in Machine /\ l.generation = lc.generation /\ Budget(l)
        /\ \/ l = lc
           \/ lc.state \in Running /\ l.state \in {"Backoff", "Faulted"}
           \/ lc.state = "Stopping" /\ ~OwnsResources /\ l.state = "Exited"
    BY <1>2
  <2>1. CASE l.state \in Running
    <3>1. l = lc
      BY <2>0, <2>1 DEF Running
    <3>2. /\ lc' \in Machine /\ Budget(lc') /\ lc'.generation = lc.generation
          /\ lc'.state = "Stopping"
      BY <1>1, <1>21, <2>1, <3>1, TransitionFacts DEF ShutdownIdle, BeginStop, Current, Machine
    <3>3. NoCleanup /\ op' = "shutdown" /\ stopping' = TRUE /\ signals' = {} /\ now' = now
      BY <1>21, <2>1 DEF ShutdownIdle
    <3>4. TypeOK'
      BY <1>1, <3>2, <3>3 DEF NoCleanup, trees, monitors, TypeOK, Op
    <3>5. Ownership'
      BY <2>1, <3>1, <3>2, <3>3 DEF NoCleanup, trees, monitors, Ownership, Running, Final
    <3> QED
      BY <3>2, <3>3, <3>4, <3>5 DEF NoCleanup, trees, monitors, StaleSessionsClosed, CrashBudget,
         Budget
  <2>2. CASE l.state \notin Running /\ l.state # "Stopping" /\ ~OwnsResources
    BY <1>21, <2>2, QuietStep DEF ShutdownIdle, TypeOK
  <2>3. CASE l.state \notin Running /\ ~(l.state # "Stopping" /\ ~OwnsResources)
    <3>1. Reap(l, {}) /\ op' = "idle" /\ now' = now /\ stopping' \in BOOLEAN
      BY <1>21, <2>3 DEF ShutdownIdle
    <3> HIDE DEF l
    <3>2. PICK try \in Attempt : Cleanup(try) /\ lc' = Reaped(l, try)
                                 /\ signals' = IF Cleaned(try) THEN {} ELSE {} \cup CloseSignal
      BY <3>1 DEF Reap
    <3>3. signals' \subseteq Signal
      BY <3>2, CleanupFacts
    <3> QED
      BY <1>20, <2>0, <2>3, <3>1, <3>2, <3>3
  <2> QED
    BY <2>1, <2>2, <2>3
<1>22. CASE ShutdownFinish
  <2>1. Reap(lc, signals) /\ op' = "idle" /\ now' = now /\ stopping' \in BOOLEAN
    BY <1>22 DEF ShutdownFinish, TypeOK
  <2>2. lc.state \notin Running /\ signals \subseteq Signal
    BY <1>22 DEF ShutdownFinish, Ownership, Running, TypeOK
  <2>3. PICK try \in Attempt : Cleanup(try) /\ lc' = Reaped(lc, try)
                               /\ signals' = IF Cleaned(try) THEN {} ELSE signals \cup CloseSignal
    BY <2>1 DEF Reap
  <2>4. signals' \subseteq Signal
    BY <2>2, <2>3, CleanupFacts
  <2> QED
    BY <1>1, <1>20, <2>1, <2>2, <2>3, <2>4
<1>23. CASE Drop
  <2>1. PICK try \in Attempt :
          /\ Cleanup(try) /\ signals' = signals \cup CloseSignal
          /\ lc' = IF Cleaned(try) THEN MarkExited(lc, lc.generation) ELSE lc
    BY <1>23 DEF Drop
  <2>2. /\ lc' \in Machine /\ lc'.generation = lc.generation /\ Budget(lc')
        /\ \/ lc' = lc /\ (Cleaned(try) => lc.state \in Final)
           \/ Cleaned(try) /\ lc'.state = "Exited" /\ lc.state \notin Final
    BY <1>1, <2>1, MarkExitedFacts
  <2>3. TypeOK'
    BY <1>23, <1>1, <2>1, <2>2, CleanupFacts DEF Drop, TypeOK, Op
  <2>4. Ownership'
    BY <1>23, <2>1, <2>2, CleanupFacts
       DEF Drop, Ownership, OwnsResources, Running, Final, None, TypeOK
  <2> QED
    BY <2>1, <2>2, <2>3, <2>4, CleanupFacts DEF StaleSessionsClosed, CrashBudget, Budget
<1>24. ASSUME NEW g \in Generations, SessionFault(g) PROVE Core'
  <2>1. TypeOK'
    BY <1>24 DEF SessionFault, trees, monitors, TypeOK, Signal, Reason
  <2> QED
    BY <1>24, <2>1 DEF SessionFault, trees, monitors, Ownership, StaleSessionsClosed, CrashBudget
<1>25. ASSUME NEW g \in Generations, MonitorReports(g) PROVE Core'
  <2>1. TypeOK'
    BY <1>25 DEF MonitorReports, TypeOK, Signal, Reason, trees, monitors
  <2>2. Ownership'
    BY <1>25 DEF MonitorReports, Ownership, trees, monitors
  <2> QED
    BY <1>25, <2>1, <2>2 DEF MonitorReports, StaleSessionsClosed, CrashBudget
<1>30. ASSUME NEW g \in Generations, MonitorClaims(g) PROVE Core'
  <2>1. TypeOK'
    BY <1>30 DEF MonitorClaims, TypeOK, Guard, Probe
  <2> QED
    BY <1>30, <2>1 DEF MonitorClaims, Ownership, StaleSessionsClosed, CrashBudget
<1>31. ASSUME NEW g \in Generations, MonitorSignals(g) PROVE Core'
  <2>1. TypeOK'
    BY <1>31 DEF MonitorSignals, TypeOK, Guard
  <2> QED
    BY <1>31, <2>1 DEF MonitorSignals, Ownership, StaleSessionsClosed, CrashBudget
<1>26. ASSUME NEW g \in Generations, ProcessDies(g) PROVE Core'
  BY <1>26 DEF ProcessDies, TypeOK, Ownership, StaleSessionsClosed, CrashBudget, monitors
<1>27. ASSUME NEW s \in Signal, CallbackRuns(s) PROVE Core'
  <2>0. alive' \subseteq alive /\ offspring' \subseteq offspring /\ guard' \in Guard
    <3>1. CASE s.generation \in detached
      BY <1>27, <3>1 DEF CallbackRuns, trees, TypeOK
    <3>2. CASE s.generation \notin detached
      <4>1. PICK signalled \in BOOLEAN, reaped \in BOOLEAN : EndTree(s.generation, signalled, reaped)
        BY <1>27, <3>2 DEF CallbackRuns
      <4> QED
        BY <4>1, EndTreeFacts
    <3> QED
      BY <3>1, <3>2
  <2>1. TypeOK'
    BY <1>27, <2>0 DEF CallbackRuns, TypeOK, Signal, monitors
  <2> QED
    BY <1>27, <2>0, <2>1 DEF CallbackRuns, Ownership, StaleSessionsClosed, CrashBudget
<1>28. CASE Tick
  BY <1>28, BoundsAssumption DEF Tick, trees, monitors, TypeOK, Ownership, StaleSessionsClosed,
     CrashBudget
<1>29. CASE UNCHANGED vars
  BY <1>29 DEF vars, TypeOK, Ownership, StaleSessionsClosed, CrashBudget
<1> QED
  BY <1>5, <1>6, <1>7, <1>8, <1>9, <1>10, <1>12, <1>13, <1>14, <1>15, <1>16, <1>17, <1>18, <1>19,
     <1>21, <1>22, <1>23, <1>24, <1>25, <1>26, <1>27, <1>28, <1>29, <1>30, <1>31 DEF Next

\* A step from a state satisfying the invariant leaves a final state final and
\* keeps its generation.
LEMMA FinalStep ==
  ASSUME Core, [Next]_vars, lc.state \in Final
  PROVE  lc'.state = lc.state /\ lc'.generation = lc.generation
<1> USE DEF Core
<1>1. lc \in Machine /\ now \in Nat /\ Budget(lc)
  BY BoundsAssumption DEF TypeOK, CrashBudget, Budget
<1>2. Synced(lc) = lc
  BY <1>1, SyncedFacts DEF Running, Final
<1>3. RecordCrash(lc, lc.generation, now) = lc
  BY <1>1, RecordCrashFacts DEF Running, Final
<1>4. MarkExited(lc, lc.generation) = lc
  BY <1>1, MarkExitedFacts
<1>5. /\ op \notin {"initialize", "ready", "request", "shutdown"}
      /\ lc.state \notin Running /\ ~CanStart(lc, now)
  BY DEF Ownership, Running, Final, CanStart
<1>6. CASE Start \/ Restart \/ Poll \/ TakeEventPump \/ StartRefused
  BY <1>2, <1>6 DEF Start, Restart, PrepareStart, Poll, TakeEventPump, StartRefused
<1>7. CASE Spawn \/ SpawnFails \/ Initialized \/ InitializeRejected \/ PromoteReady \/ HandshakeFails
           \/ RequestReturns \/ ShutdownFinish
  BY <1>5, <1>7 DEF Spawn, SpawnFails, Initialized, InitializeRejected, PromoteReady,
     HandshakeFails, 
                    RequestReturns, ShutdownFinish
<1>8. CASE Request
  BY <1>2, <1>8 DEF Request, Final
<1>9. CASE ScheduleRestart
  BY <1>2, <1>3, <1>9 DEF ScheduleRestart
<1>10. CASE ShutdownIdle
  BY <1>2, <1>4, <1>5, <1>10 DEF ShutdownIdle, Reap, Reaped
<1>11. CASE Drop
  BY <1>4, <1>11 DEF Drop
<1>12. CASE \E g \in Generations : SessionFault(g) \/ MonitorClaims(g) \/ MonitorSignals(g)
              \/ MonitorReports(g) \/ ProcessDies(g)
  BY <1>12 DEF SessionFault, trees, monitors, MonitorClaims, MonitorSignals, MonitorReports,
     ProcessDies
<1>13. CASE \E s \in Signal : CallbackRuns(s)
  BY <1>13 DEF CallbackRuns
<1>14. CASE Tick \/ UNCHANGED vars
  BY <1>14 DEF Tick, trees, monitors, vars
<1> QED
  BY <1>6, <1>7, <1>8, <1>9, <1>10, <1>11, <1>12, <1>13, <1>14 DEF Next

\* What runs unowned stays the monitor's, or the last resort of a final machine.
LEMMA KinStep ==
  ASSUME Core, KinIsHeld, Closings, [Next]_vars
  PROVE  KinIsHeld'
<1> USE DEF Core
<1>0. lc.state \in Final => lc'.state = lc.state /\ lc'.generation = lc.generation
  BY FinalStep
<1>1. ASSUME NEW try \in Attempt, Cleanup(try) PROVE KinIsHeld'
  <2>1. /\ offspring' \subseteq offspring /\ claims' = claims /\ refused' = refused
        /\ process' \in {None, process} /\ process' = IF Cleaned(try) THEN None ELSE process
    BY <1>1, CleanupFacts
  <2> SUFFICES ASSUME NEW g \in offspring'
               PROVE  \/ g = process' /\ guard' # "spent"
                      \/ g \in claims' \cup refused'
                      \/ process' = None /\ g = lc'.generation /\ lc'.state \in Final
    BY DEF KinIsHeld
  <2>2. CASE g = process /\ guard # "spent"
    <3>1. process # None
      BY <2>1, <2>2 DEF TypeOK, None, Generations
    <3>2. EndTree(process, try.signal, try.reap) /\ try.signal \in BOOLEAN /\ try.reap \in BOOLEAN
      BY <1>1, <3>1 DEF Cleanup, Attempt
    <3>3. ~Terminated(try.signal) /\ guard' # "spent"
      BY <2>2, <3>2, EndTreeFacts
    <3> QED
      BY <2>1, <2>2, <3>1, <3>3 DEF Cleaned
  <2>3. CASE g \in claims \cup refused
    BY <2>1, <2>3
  <2>4. CASE process = None /\ g = lc.generation /\ lc.state \in Final
    BY <1>0, <2>1, <2>4
  <2> QED
    BY <2>1, <2>2, <2>3, <2>4 DEF KinIsHeld
<1>2. ASSUME NoCleanup PROVE KinIsHeld'
  BY <1>0, <1>2 DEF NoCleanup, KinIsHeld, trees, monitors
<1>3. CASE Start \/ Restart
  BY <1>1, <1>2, <1>3 DEF Start, Restart, PrepareStart
<1>4. CASE Spawn
  <2>1. lc.state \in {"Exited", "Backoff"} /\ op = "start"
    BY <1>4 DEF Spawn, CanStart
  <2>2. process = None
    BY <2>1 DEF Ownership
  <2> QED
    BY <1>4, <2>1, <2>2 DEF Spawn, KinIsHeld, Final, TypeOK, None, Generations
<1>5. CASE SpawnFails
  <2>1. lc.state \in {"Exited", "Backoff"} /\ op = "start"
    BY <1>5 DEF SpawnFails, CanStart
  <2>2. process = None
    BY <2>1 DEF Ownership
  <2> DEFINE b == BeginStart(lc)
  <2>3. b.generation = lc.generation + 1 /\ b \in Machine
    BY BoundsAssumption, <2>1, TransitionFacts DEF TypeOK, CrashBudget, Budget
  <2>4. lc'.state = "Faulted" /\ lc'.generation = lc.generation + 1
    BY <1>5, <2>3 DEF SpawnFails, MarkFaulted, MarkFinal, Current, Machine
  <2> QED
    BY <1>5, <2>1, <2>2, <2>4 DEF SpawnFails, KinIsHeld, Final, TypeOK, None, Generations,
       monitors
<1>6. CASE InitializeRejected \/ HandshakeFails \/ ScheduleRestart \/ Drop
  BY <1>1, <1>6 DEF InitializeRejected, HandshakeFails, ScheduleRestart, Drop
<1>7. CASE StartRefused \/ Initialized \/ PromoteReady \/ Poll \/ Request \/ RequestReturns
  BY <1>2, <1>7 DEF StartRefused, Initialized, PromoteReady, Poll, Request, RequestReturns
<1>8. CASE ShutdownIdle \/ ShutdownFinish
  BY <1>1, <1>2, <1>8 DEF ShutdownIdle, ShutdownFinish, Reap
<1>9. CASE TakeEventPump
  BY <1>0, <1>9 DEF TakeEventPump, trees, monitors, KinIsHeld
<1>10. ASSUME NEW g \in Generations, SessionFault(g) \/ MonitorReports(g) \/ ProcessDies(g)
       PROVE  KinIsHeld'
  BY <1>10 DEF SessionFault, trees, monitors, MonitorReports, ProcessDies, KinIsHeld
<1>11. ASSUME NEW g \in Generations, MonitorClaims(g) PROVE KinIsHeld'
  BY <1>11 DEF MonitorClaims, KinIsHeld, Ownership
<1>12. ASSUME NEW g \in Generations, MonitorSignals(g) PROVE KinIsHeld'
  BY <1>12 DEF MonitorSignals, KinIsHeld
<1>13. ASSUME NEW s \in Signal, CallbackRuns(s) PROVE KinIsHeld'
  <2>1. CASE s.generation \in detached
    BY <1>13, <2>1 DEF CallbackRuns, KinIsHeld, trees, monitors
  <2>2. CASE s.generation \notin detached
    <3>1. PICK signalled \in BOOLEAN, reaped \in BOOLEAN : EndTree(s.generation, signalled, reaped)
      BY <1>13, <2>2 DEF CallbackRuns
    <3>2. offspring' \subseteq offspring /\ (guard' = "spent" => guard = "spent" \/ s.generation \notin offspring')
      BY <3>1, EndTreeFacts
    <3>3. s.generation = session
      BY <1>13 DEF CallbackRuns, Closings
    <3> QED
      BY <1>13, <3>2, <3>3 DEF CallbackRuns, KinIsHeld, monitors, Ownership
  <2> QED
    BY <2>1, <2>2
<1>14. CASE Tick
  BY <1>14 DEF Tick, trees, monitors, KinIsHeld
<1>15. CASE UNCHANGED vars
  BY <1>15 DEF vars, KinIsHeld
<1> QED
  BY <1>3, <1>4, <1>5, <1>6, <1>7, <1>8, <1>9, <1>10, <1>11, <1>12, <1>13, <1>14, <1>15 DEF Next

\* The queue holds no fault of an earlier generation.
LEMMA FaultsStep ==
  ASSUME Core, FaultsAreCurrent, Closings, [Next]_vars
  PROVE  FaultsAreCurrent' /\ Closings'
<1> USE DEF Core
<1>1. \A s \in CloseSignal : s.reason = "Closed"
  BY DEF CloseSignal
<1>2. ASSUME NEW try \in Attempt, Cleanup(try),
             \A s \in signals' : s \in signals \/ s.reason = "Closed",
             lc'.generation = lc.generation,
             op' = "start" => \A s \in signals' : s.reason = "Closed"
      PROVE  FaultsAreCurrent' /\ Closings'
  BY <1>2 DEF Cleanup, FaultsAreCurrent, Closings, Current
<1>3. ASSUME NoCleanup, signals' = signals \/ signals' = {}, lc'.generation = lc.generation,
             op' = "start" => signals' = {}
      PROVE  FaultsAreCurrent' /\ Closings'
  BY <1>3 DEF NoCleanup, trees, monitors, FaultsAreCurrent, Closings, Current
<1>4. lc \in Machine /\ now \in Nat /\ Budget(lc)
  BY BoundsAssumption DEF TypeOK, CrashBudget, Budget
<1>5. Synced(lc) \in Machine /\ Synced(lc).generation = lc.generation /\ Budget(Synced(lc))
  BY <1>4, SyncedFacts
<1>6. CASE Start \/ Restart
  BY <1>1, <1>2, <1>3, <1>5, <1>6 DEF Start, Restart, PrepareStart
<1>7. CASE Spawn \/ SpawnFails
  <2>1. lc.state \in {"Exited", "Backoff"} /\ op = "start"
    BY <1>7 DEF Spawn, SpawnFails, CanStart
  <2>2. session = None
    BY <2>1 DEF Ownership
  <2>3. closing = {} /\ \A s \in signals : s.reason = "Closed"
    BY <2>1, <2>2 DEF Closings, TypeOK, Signal, None, Generations
  <2>4. \A s \in signals' : s.reason = "Closed"
    BY <1>7, <2>3 DEF Spawn, SpawnFails
  <2> QED
    BY <1>7, <2>3, <2>4 DEF Spawn, SpawnFails, FaultsAreCurrent, Closings
<1>8. CASE InitializeRejected \/ HandshakeFails
  <2>1. \A state \in Final : MarkFinal(lc, lc.generation, state).generation = lc.generation
    BY <1>4, MarkFinalFacts DEF Budget
  <2> QED
    BY <1>1, <1>2, <1>8, <2>1
       DEF InitializeRejected, HandshakeFails, MarkIncompatible, MarkFaulted, Final
<1>9. CASE StartRefused \/ Initialized \/ Poll
  BY <1>3, <1>5, <1>9 DEF StartRefused, Initialized, Poll
<1>10. CASE PromoteReady \/ Request
  BY <1>3, <1>4, <1>5, <1>10 DEF PromoteReady, Request, MarkReady, MarkBusy, Machine, Current
<1>11. CASE RequestReturns
  <2>1. MarkReadyAgain(lc, lc.generation) \in Machine /\ Budget(MarkReadyAgain(lc, lc.generation))
        /\ MarkReadyAgain(lc, lc.generation).generation = lc.generation
    BY <1>4, TransitionFacts DEF MarkReadyAgain, Current, Machine
  <2>2. lc'.generation = lc.generation
    BY <1>4, <1>11, <2>1, SyncedFacts DEF RequestReturns
  <2> QED
    BY <1>3, <1>11, <2>2 DEF RequestReturns
<1>12. CASE ScheduleRestart
  <2>1. lc'.generation = lc.generation
    BY <1>4, <1>5, <1>12, RecordCrashFacts DEF ScheduleRestart
  <2> QED
    BY <1>1, <1>2, <1>12, <2>1 DEF ScheduleRestart
<1>13. ASSUME NEW l \in Machine, Budget(l), l.generation = lc.generation, NEW try \in Attempt
       PROVE  Reaped(l, try).generation = lc.generation
  BY <1>13, MarkExitedFacts DEF Reaped
<1>14. ASSUME NEW l \in Machine, Budget(l), l.generation = lc.generation, NEW queued \in SUBSET signals,
              Reap(l, queued), op' \in {"idle"}
       PROVE  FaultsAreCurrent' /\ Closings'
  <2>1. PICK try \in Attempt : /\ Cleanup(try) /\ lc' = Reaped(l, try)
                               /\ signals' = IF Cleaned(try) THEN {} ELSE queued \cup CloseSignal
    BY <1>14 DEF Reap
  <2>2. lc'.generation = lc.generation
    BY <1>13, <1>14, <2>1
  <2> QED
    BY <1>1, <1>2, <1>14, <2>1, <2>2
<1>15. CASE ShutdownIdle
  <2>1. BeginStop(Synced(lc), Synced(lc).generation).generation = lc.generation
    BY <1>5 DEF BeginStop, Machine, Current
  <2> QED
    BY <1>3, <1>5, <1>14, <1>15, <2>1 DEF ShutdownIdle
<1>16. CASE ShutdownFinish
  BY <1>4, <1>14, <1>16 DEF ShutdownFinish
<1>17. CASE Drop
  BY <1>1, <1>2, <1>4, <1>17, MarkExitedFacts DEF Drop
<1>18. CASE TakeEventPump
  BY <1>5, <1>18 DEF TakeEventPump, trees, monitors, FaultsAreCurrent, Closings, Current
<1>19. ASSUME NEW g \in Generations,
              \/ SessionFault(g) \/ MonitorClaims(g) \/ MonitorSignals(g)
              \/ MonitorReports(g) \/ ProcessDies(g)
       PROVE  FaultsAreCurrent' /\ Closings'
  BY <1>19 DEF SessionFault, trees, monitors, MonitorClaims, MonitorSignals, MonitorReports,
     ProcessDies, 
               FaultsAreCurrent, Closings, Current
<1>20. ASSUME NEW s \in Signal, CallbackRuns(s) PROVE FaultsAreCurrent' /\ Closings'
  <2>1. s.generation = session /\ session = lc.generation /\ session # None
    BY <1>20 DEF CallbackRuns, Closings, Ownership, TypeOK, Signal, None, Generations
  <2> QED
    BY <1>20, <2>1 DEF CallbackRuns, FaultsAreCurrent, Closings, Current
<1>21. CASE Tick
  BY <1>21 DEF Tick, trees, monitors, FaultsAreCurrent, Closings, Current
<1>22. CASE UNCHANGED vars
  BY <1>22 DEF vars, FaultsAreCurrent, Closings, Current
<1> QED
  BY <1>6, <1>7, <1>8, <1>9, <1>10, <1>11, <1>12, <1>15, <1>16, <1>17, <1>18, <1>19, <1>20, <1>21,
     <1>22 DEF Next

\* The inductive invariant holds in every reachable state.
THEOREM Invariance == Spec => []IInv
<1>1. Init => IInv
  BY InitInvariant DEF IInv, Init, KinIsHeld, FaultsAreCurrent, Closings
<1>2. IInv /\ [Next]_vars => IInv'
  BY NextInvariant, KinStep, FaultsStep DEF IInv
<1> QED
  BY <1>1, <1>2, PTL DEF Spec

\* The supervisor's variables keep their types.
THEOREM TypeCorrect == Spec => []TypeOK
<1>1. IInv => TypeOK
  BY DEF IInv, Core
<1> QED
  BY <1>1, Invariance, PTL

\* Two sidecars never run at once, for any number of generations.
THEOREM NeverTwoSidecars == Spec => []OneLiveLeader
<1>1. IInv => OneLiveLeader
  BY DEF IInv, Core, Ownership, OneLiveLeader
<1> QED
  BY <1>1, Invariance, PTL

\* What a released generation leaves running is the exit monitor's to end, or was
\* refused to it; nothing is let go silently (ProcessTreeGuard::terminate).
THEOREM StragglersStayClaimed == Spec => []StragglersAreClaimed
<1>1. IInv => StragglersAreClaimed
  BY DEF IInv, KinIsHeld, StragglersAreClaimed
<1> QED
  BY <1>1, Invariance, PTL

\* An Exited supervisor owns nothing and has reaped its sidecar.
THEOREM ExitedIsHonest == Spec => []ExitedIsReaped
<1>1. IInv => ExitedIsReaped
  <2> SUFFICES ASSUME IInv, lc.state = "Exited" PROVE ~OwnsResources /\ alive = {}
    BY DEF ExitedIsReaped
  <2>1. process = None /\ session = None /\ ~pump
    BY DEF IInv, Core, Ownership
  <2>2. alive = {}
    BY <2>1 DEF IInv, Core, Ownership, TypeOK, Final, None, Generations
  <2> QED
    BY <2>1, <2>2 DEF OwnsResources
<1> QED
  BY <1>1, Invariance, PTL

\* Requests reach only the current generation; sessions of older ones are closed;
\* a stopping sidecar admits nothing.
THEOREM RequestsReachCurrent ==
  Spec => [](ReadyIsBacked /\ StaleSessionsClosed /\ StoppingShutsAdmission)
<1>1. IInv => ReadyIsBacked /\ StaleSessionsClosed /\ StoppingShutsAdmission
  BY DEF IInv, Core, Ownership, ReadyIsBacked, StaleSessionsClosed, StoppingShutsAdmission,
     Running
<1> QED
  BY <1>1, Invariance, PTL

\* All that the supervisor says it owns, at once: types, one sidecar at most, reaped
\* behind Exited, current behind Ready, no admission while stopping, no straggler that
\* nobody claimed, no stale fault in the queue (supervisor.rs).
THEOREM OwnershipStaysSafe == Spec => []OwnershipIsSafe
<1>1. IInv => FaultsAreCurrent
  BY DEF IInv
<1>2. TypeOK /\ OneLiveLeader /\ StragglersAreClaimed /\ ExitedIsReaped /\ ReadyIsBacked
        /\ StoppingShutsAdmission /\ FaultsAreCurrent => OwnershipIsSafe
  BY DEF OwnershipIsSafe
<1> QED
  BY <1>1, <1>2, TypeCorrect, NeverTwoSidecars, StragglersStayClaimed, ExitedIsHonest,
     RequestsReachCurrent, Invariance, PTL

\* Crashes are counted and the count ends in Faulted (record_crash).
THEOREM CrashesAreBounded == Spec => []CrashLoopEnds
<1>1. IInv => CrashLoopEnds
  BY DEF IInv, Core, CrashBudget, CrashLoopEnds
<1> QED
  BY <1>1, Invariance, PTL

\* Faulted and Incompatible are final for the lifetime of the supervisor.
THEOREM FinalStatesAreFinal == Spec => FinalIsFinal
<1>1. IInv /\ [Next]_vars => [lc.state \in Final => lc'.state = lc.state]_vars
  BY FinalStep DEF IInv
<1> QED
  BY <1>1, Invariance, PTL DEF Spec, FinalIsFinal

\* A step of the supervisor is a step of its single-owner promise, or changes
\* nothing that the promise is about.
LEMMA OwnerStep ==
  ASSUME IInv, IInv', [Next]_vars
  PROVE  [Owner!OwnerNext]_(Owner!ownerVars)
<1>0. lc.state \in Final => lc'.state = lc.state /\ lc'.generation = lc.generation
  BY FinalStep DEF IInv
<1>1. ASSUME alive' \subseteq alive, offspring' \subseteq offspring, process' \in {None, process},
             lc'.generation = lc.generation, op = "gone" => op' = "gone"
      PROVE  Owner!OwnerNext
  <2>1. Living' \subseteq Living /\ offspring' \ Living' \subseteq (offspring \ Living) \cup (Living \ Living')
    BY <1>1 DEF Living, IInv, Core, TypeOK, None, Generations
  <2>2. Owner!Settle
    BY <1>0, <1>1, <2>1 DEF Owner!Settle
  <2> QED
    BY <2>2 DEF Owner!OwnerNext
<1> USE DEF IInv, Core
<1>2. lc \in Machine /\ now \in Nat /\ Budget(lc)
  BY BoundsAssumption DEF TypeOK, CrashBudget, Budget
<1>3. Synced(lc) \in Machine /\ Synced(lc).generation = lc.generation /\ Budget(Synced(lc))
  BY <1>2, SyncedFacts
<1>4. ASSUME NEW try \in Attempt, Cleanup(try)
      PROVE  alive' \subseteq alive /\ offspring' \subseteq offspring /\ process' \in {None, process}
  BY <1>4, CleanupFacts
<1>5. CASE Start \/ Restart
  BY <1>1, <1>3, <1>4, <1>5 DEF Start, Restart, PrepareStart, NoCleanup, trees, monitors
<1>6. CASE Spawn \/ SpawnFails
  <2>1. lc.state \in {"Exited", "Backoff"} /\ op = "start"
    BY <1>6 DEF Spawn, SpawnFails, CanStart
  <2>2. alive = {}
    BY <2>1 DEF Ownership, Final, None, TypeOK, Generations
  <2>3. lc'.generation = lc.generation + 1
    <3> DEFINE b == BeginStart(lc)
    <3>1. b \in Machine /\ Budget(b) /\ b.generation = lc.generation + 1
      BY <1>2, <2>1, TransitionFacts DEF Final
    <3>2. MarkFinal(b, b.generation, "Faulted").generation = b.generation
      BY <3>1, MarkFinalFacts DEF Budget, Final
    <3> QED
      BY <1>6, <3>1, <3>2 DEF Spawn, SpawnFails, MarkFaulted
  <2>4. process = None /\ Living = {} /\ None \notin offspring
    BY <2>1, <2>2 DEF Ownership, Living, TypeOK, None, Generations
  <2>5. /\ Living' \in {{}, {lc.generation + 1}}
        /\ offspring' \ Living' \in SUBSET ((offspring \ Living) \cup {lc.generation + 1})
    BY <1>6, <2>2, <2>4 DEF Spawn, SpawnFails, Living, None
  <2>7. Owner!Launch
    BY <2>1, <2>3, <2>4, <2>5 DEF Owner!Launch, Final
  <2> QED
    BY <2>7 DEF Owner!OwnerNext
<1>7. CASE InitializeRejected \/ HandshakeFails
  <2>1. \A state \in Final : MarkFinal(lc, lc.generation, state).generation = lc.generation
    BY <1>2, MarkFinalFacts DEF Budget
  <2> QED
    BY <1>1, <1>4, <1>7, <2>1
       DEF InitializeRejected, HandshakeFails, MarkIncompatible, MarkFaulted, Final
<1>8. CASE StartRefused \/ Initialized \/ Poll \/ TakeEventPump
  BY <1>1, <1>3, <1>8 DEF StartRefused, Initialized, Poll, TakeEventPump, NoCleanup, trees,
     monitors
<1>9. CASE PromoteReady
  BY <1>1, <1>9, <1>2 DEF PromoteReady, NoCleanup, trees, monitors, MarkReady, Machine, Current
<1>10. CASE Request
  BY <1>1, <1>3, <1>10 DEF Request, NoCleanup, trees, monitors, MarkBusy, Machine, Current
<1>11. CASE RequestReturns
  <2>1. MarkReadyAgain(lc, lc.generation) \in Machine /\ Budget(MarkReadyAgain(lc, lc.generation))
        /\ MarkReadyAgain(lc, lc.generation).generation = lc.generation
    BY <1>2, TransitionFacts DEF MarkReadyAgain, Current, Machine
  <2>2. lc'.generation = lc.generation
    BY <1>2, <1>11, <2>1, SyncedFacts DEF RequestReturns
  <2> QED
    BY <1>1, <1>11, <2>2 DEF RequestReturns, NoCleanup, trees, monitors
<1>12. CASE ScheduleRestart
  <2>1. lc'.generation = lc.generation
    BY <1>2, <1>3, <1>12, RecordCrashFacts DEF ScheduleRestart
  <2> QED
    BY <1>1, <1>4, <1>12, <2>1 DEF ScheduleRestart
<1>13. ASSUME NEW l \in Machine, Budget(l), l.generation = lc.generation, NEW try \in Attempt
       PROVE  Reaped(l, try).generation = lc.generation
  BY <1>13, MarkExitedFacts DEF Reaped
<1>14. CASE ShutdownIdle
  <2>1. lc'.generation = lc.generation
    BY <1>3, <1>13, <1>14 DEF ShutdownIdle, Reap, BeginStop, Machine, Current
  <2> QED
    BY <1>1, <1>4, <1>14, <2>1 DEF ShutdownIdle, Reap, NoCleanup, trees, monitors
<1>15. CASE ShutdownFinish
  BY <1>1, <1>2, <1>4, <1>13, <1>15 DEF ShutdownFinish, Reap
<1>16. CASE Drop
  BY <1>1, <1>2, <1>4, <1>16, MarkExitedFacts DEF Drop
<1>17. CASE \E g \in Generations : SessionFault(g) \/ MonitorClaims(g) \/ MonitorSignals(g)
              \/ MonitorReports(g) \/ ProcessDies(g)
  BY <1>1, <1>17 DEF SessionFault, trees, monitors, MonitorClaims, MonitorSignals,
     MonitorReports, ProcessDies
<1>18. CASE \E s \in Signal : CallbackRuns(s)
  <2>1. PICK s \in Signal : CallbackRuns(s)
    BY <1>18
  <2>2. alive' \subseteq alive /\ offspring' \subseteq offspring
    BY <2>1 DEF CallbackRuns, trees, EndTree
  <2> QED
    BY <1>1, <2>1, <2>2 DEF CallbackRuns
<1>19. CASE Tick
  BY <1>1, <1>19 DEF Tick, trees
<1>20. CASE UNCHANGED vars
  BY <1>20 DEF vars, Owner!ownerVars, Living
<1> QED
  BY <1>5, <1>6, <1>7, <1>8, <1>9, <1>10, <1>11, <1>12, <1>14, <1>15, <1>16, <1>17, <1>18, <1>19,
     <1>20 DEF Next

\* The supervisor implements the single-owner promise.
THEOREM SupervisorImplementsSingleOwner == Spec => ImplementsSingleOwner
<1>1. Init => Owner!OwnerInit
  BY DEF Init, Owner!OwnerInit, NewMachine, Final, Living
<1>2. IInv /\ IInv' /\ [Next]_vars => [Owner!OwnerNext]_(Owner!ownerVars)
  BY OwnerStep
<1> QED
  BY <1>1, <1>2, Invariance, PTL DEF Spec, ImplementsSingleOwner, Owner!OwnerSpec
=============================================================================
