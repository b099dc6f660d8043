----------------------------- MODULE Supervisor -----------------------------
(***************************************************************************)
(* SidecarSupervisor (agent_process/supervisor.rs) over its lifecycle      *)
(* machine, the child process it spawns (process.rs) and the close of the  *)
(* child's session (wire.rs).                                              *)
(*                                                                         *)
(* The supervisor is used by one thread at a time (&mut self), so its own  *)
(* calls never interleave with each other; op is the call in progress.     *)
(* The reader, writer and monitor threads of a session run in parallel and *)
(* report only through the session close and the terminal signal queue.    *)
(* The operating system is external: a process tree may refuse to die, a   *)
(* writer thread may miss its join deadline, a spawn may fail halfway.     *)
(*                                                                         *)
(* A tree is ended once: ProcessTreeGuard::terminate swaps its alive flag  *)
(* and only the caller that found it set signals the group.  Whoever comes *)
(* later is told Ok, also while the first has not signalled yet, so the    *)
(* monitor's swap and its signal are two steps here.                       *)
(***************************************************************************)
EXTENDS Lifecycle

CONSTANTS MaxGeneration,  \* bound: generations a behaviour starts
          MaxTime         \* bound: ticks of the monotonic clock

ASSUME BoundsAssumption == MaxGeneration \in Nat /\ MaxTime \in Nat

VARIABLES
  op,        \* the supervisor call in progress, "idle" between calls
  lc,        \* the LifecycleMachine
  now,       \* the monotonic clock
  stopping,  \* the admission flag shared with the clients
  process,   \* generation of the owned RunningProcess, None if none
  session,   \* generation of the owned Session, None if none
  pump,      \* the supervisor holds the event pump
  signals,   \* terminal_signals: the queue, whose order does not matter
  closed,    \* generations whose session is closed
  closing,   \* the signal of a close whose callback has not yet run
  alive,     \* generations whose own process (the leader) may be running
  offspring, \* generations with descendants nobody has killed yet
  guard,     \* the ProcessTreeGuard of the latest generation
  probe,     \* what the monitor of the latest generation has seen
  claims,    \* generations whose monitor took the alive flag and has yet to signal
  refused,   \* generations whose monitor's signal the system refused
  detached   \* generations whose terminal callback is taken

vars == <<op, lc, now, stopping, process, session, pump, signals, closed,
          closing, alive, offspring, guard, probe, claims, refused, detached>>

trees == <<alive, offspring, guard>>
monitors == <<probe, claims, refused>>

None == 0
Generations == 1..MaxGeneration
Reason == {"Fault", "ProcessExited", "Closed"}
Signal == [generation : Generations, reason : Reason]
Guard == {"whole", "spent", "failed"}
Probe == {"nothing", "exit", "error"}
Op == {"idle", "start", "initialize", "ready", "request", "shutdown", "gone"}

OwnsResources == process # None \/ session # None \/ pump

Init ==
  /\ op = "idle"
  /\ lc = NewMachine
  /\ now = 0
  /\ stopping = FALSE
  /\ process = None
  /\ session = None
  /\ pump = FALSE
  /\ signals = {}
  /\ closed = {}
  /\ closing = {}
  /\ alive = {} /\ offspring = {}
  /\ guard = "whole"
  /\ probe = "nothing" /\ claims = {} /\ refused = {}
  /\ detached = {}

-----------------------------------------------------------------------------
(* Terminal signals.                                                       *)

\* sync_terminal_signals drains the queue and applies the signals of the
\* current generation.  The first one that applies moves the machine to a state
\* in which the others are ignored.
Applied(l) == {s \in signals : Current(l, s.generation)}

Synced(l) ==
  IF /\ l.state \in Running
     /\ \E s \in Applied(l) : s.reason \in {"Fault", "ProcessExited"}
    THEN RecordCrash(l, l.generation, now)
    ELSE IF l.state = "Stopping" /\ ~OwnsResources /\ Applied(l) # {}
           THEN MarkExited(l, l.generation)
           ELSE l

-----------------------------------------------------------------------------
(* Cleanup.                                                                *)

\* What can go wrong: the writer's join, the signal to the group and the reap of
\* the leader through its own handle.
Attempt == [join : BOOLEAN, signal : BOOLEAN, reap : BOOLEAN]

\* Mutant: a guard whose signal was refused once says Ok the next time.
TerminatedOnce(signalled) == guard # "whole" \/ signalled

\* ProcessTreeGuard::terminate answers Ok: it signalled the group, or somebody else
\* has taken that upon himself.
Terminated(signalled) == guard = "spent" \/ (guard = "whole" /\ signalled)

\* terminate_tree_until on the latest generation g: the guard, then the leader
\* whatever it said.
EndTree(g, signalled, reaped) ==
  /\ alive' = IF reaped \/ (guard = "whole" /\ signalled) THEN alive \ {g} ELSE alive
  /\ offspring' = IF guard = "whole" /\ signalled THEN offspring \ {g} ELSE offspring
  /\ guard' = IF guard # "whole" THEN guard ELSE IF signalled THEN "spent" ELSE "failed"

\* Mutant: the owners are let go whatever the cleanup found.
CleanedAnyway(try) == TRUE

Cleaned(try) == /\ session # None => try.join
                /\ process # None => try.reap /\ Terminated(try.signal)

\* The signal that closing a still open session adds to the queue.
CloseSignal ==
  {[generation |-> g, reason |-> "Closed"] : g \in {session} \ ({None} \cup closed \cup detached)}

\* The closed sessions once close_until has closed the owned one.
ClosedByOwner == closed \cup ({session} \ {None})

\* cleanup_owner_until: close the session (its callback ends the tree and
\* queues CloseSignal), detach the callback, end the tree; the owners are let
\* go only when the writer join and the end of the tree both answered Ok.  A session
\* that another thread is closing holds the gate, so the cleanup waits for it.
Cleanup(try) ==
  /\ closing = {}
  /\ closed' = ClosedByOwner
  /\ detached' = detached \cup ({session} \ {None})
  /\ IF process = None THEN UNCHANGED trees ELSE EndTree(process, try.signal, try.reap)
  /\ IF Cleaned(try)
       THEN process' = None /\ session' = None /\ pump' = FALSE
       ELSE UNCHANGED <<process, session, pump>>
  /\ UNCHANGED <<closing, monitors>>

NoCleanup == UNCHANGED <<process, session, pump, closed, detached, closing, trees, monitors>>

-----------------------------------------------------------------------------
(* Start.                                                                  *)

\* The part of start_until before begin_start: owners left by an earlier
\* generation are released first, and a start that cannot release them fails.
StartMustCleanup(l) == l.state \in {"Exited", "Backoff"} /\ (process # None \/ session # None)

PrepareStart(l) ==
  /\ lc' = l
  /\ stopping' = FALSE
  /\ IF StartMustCleanup(l)
       THEN \E try \in Attempt :
              /\ Cleanup(try) /\ signals' = CloseSignal
              /\ op' = IF Cleaned(try) THEN "start" ELSE "idle"
       ELSE /\ NoCleanup
            /\ signals' = {}
            /\ op' = "start"
  /\ UNCHANGED now

Start == op = "idle" /\ PrepareStart(Synced(lc))

\* restart refuses before it touches anything while the backoff is running.
Restart ==
  /\ op = "idle"
  /\ LET l == Synced(lc)
     IN IF l.state = "Backoff" /\ ~BackoffDue(l, now)
          THEN /\ lc' = l
               /\ signals' = {}
               /\ NoCleanup
               /\ UNCHANGED <<op, now, stopping>>
          ELSE PrepareStart(l)

StartRefused ==
  /\ op = "start"
  /\ ~CanStart(lc, now)
  /\ op' = "idle"
  /\ NoCleanup
  /\ UNCHANGED <<lc, now, stopping, signals>>

\* begin_start and spawn_process.
Spawn ==
  /\ op = "start"
  /\ CanStart(lc, now)
  /\ lc.generation < MaxGeneration
  /\ LET g == lc.generation + 1
     IN /\ lc' = BeginStart(lc)
        /\ process' = g
        /\ session' = g
        /\ pump' = TRUE
        /\ alive' = alive \cup {g} /\ offspring' = offspring \cup {g}
        /\ guard' = "whole" /\ probe' = "nothing"
  /\ op' = "initialize"
  /\ UNCHANGED <<now, stopping, signals, closed, closing, claims, refused, detached>>

\* A spawn that fails halfway ends its child, without proof that it died (the error
\* of cleanup_spawned_child is returned, or dropped, but nobody keeps the child),
\* and may drop a session it had already made.
SpawnFails ==
  /\ op = "start"
  /\ CanStart(lc, now)
  /\ lc.generation < MaxGeneration
  /\ LET g == lc.generation + 1
     IN /\ lc' = MarkFaulted(BeginStart(lc), g)
        /\ closed' = closed \cup {g}
        /\ detached' = detached \cup {g}
        /\ alive' \in {alive, alive \cup {g}} /\ offspring' \in {offspring, offspring \cup {g}}
        /\ signals' \in {signals, signals \cup {[generation |-> g, reason |-> "Closed"]}}
  /\ op' = "idle"
  /\ UNCHANGED <<now, stopping, process, session, pump, closing, guard, monitors>>

\* The answer to initialize was accepted and initialized was queued.
Initialized ==
  /\ op = "initialize"
  /\ session \notin closed
  /\ op' = "ready"
  /\ NoCleanup
  /\ UNCHANGED <<lc, now, stopping, signals>>

\* The server refused initialize, or answered what check_initialize_result rejects.
InitializeRejected ==
  /\ op = "initialize"
  /\ \E try \in Attempt, incompatible \in BOOLEAN :
       /\ Cleanup(try) /\ signals' = signals \cup CloseSignal
       /\ lc' = IF incompatible THEN MarkIncompatible(lc, lc.generation)
                                ELSE MarkFaulted(lc, lc.generation)
  /\ op' = "idle"
  /\ UNCHANGED <<now, stopping>>

\* with_ready_promotion: under the gate, so never inside or after a close.
PromoteReady ==
  /\ op = "ready"
  /\ session \notin closed
  /\ lc' = MarkReady(lc, lc.generation, now)
  /\ op' = "idle"
  /\ NoCleanup
  /\ UNCHANGED <<now, stopping, signals>>

\* fail_generation_until: a closed session, a bad ready, a timeout.
HandshakeFails ==
  /\ op \in {"initialize", "ready"}
  /\ \E try \in Attempt : Cleanup(try) /\ signals' = signals \cup CloseSignal
  /\ lc' = MarkFaulted(lc, lc.generation)
  /\ op' = "idle"
  /\ UNCHANGED <<now, stopping>>

-----------------------------------------------------------------------------
(* Requests and polling.                                                   *)

\* state(), client() and next_event() all begin by applying the signals.
Poll ==
  /\ op = "idle"
  /\ lc' = Synced(lc)
  /\ signals' = {}
  /\ NoCleanup
  /\ UNCHANGED <<op, now, stopping>>

TakeEventPump ==
  /\ op = "idle"
  /\ pump
  /\ lc' = Synced(lc)
  /\ pump' = FALSE
  /\ signals' = {}
  /\ UNCHANGED <<op, now, stopping, process, session, closed, closing, trees,
                 monitors, detached>>

Request ==
  /\ op = "idle"
  /\ LET l == Synced(lc)
         admitted == ~stopping /\ l.state = "Ready"
     IN /\ lc' = IF admitted THEN MarkBusy(l, l.generation) ELSE l
        /\ op' = IF admitted /\ session # None THEN "request" ELSE "idle"
  /\ signals' = {}
  /\ NoCleanup
  /\ UNCHANGED <<now, stopping>>

RequestReturns ==
  /\ op = "request"
  /\ lc' = Synced(MarkReadyAgain(lc, lc.generation))
  /\ signals' = {}
  /\ op' = "idle"
  /\ NoCleanup
  /\ UNCHANGED <<now, stopping>>

ScheduleRestart ==
  /\ op = "idle"
  /\ LET l == Synced(lc) IN lc' = RecordCrash(l, l.generation, now)
  /\ \E try \in Attempt : Cleanup(try) /\ signals' = CloseSignal
  /\ UNCHANGED <<op, now, stopping>>

-----------------------------------------------------------------------------
(* Shutdown.                                                               *)

\* Cleanup, then a second look at the signals (which can only say Exited too),
\* then Exited.  A failed cleanup returns early: the state, the owners and the
\* queue stay for the next attempt.
Reaped(l, try) == IF Cleaned(try) THEN MarkExited(l, l.generation) ELSE l

Reap(l, queued) ==
  \E try \in Attempt :
    /\ Cleanup(try)
    /\ lc' = Reaped(l, try)
    /\ signals' = IF Cleaned(try) THEN {} ELSE queued \cup CloseSignal

ShutdownIdle ==
  /\ op = "idle"
  /\ stopping' = TRUE
  /\ LET l == Synced(lc)
     IN IF l.state \in Running
          THEN /\ lc' = BeginStop(l, l.generation)
               /\ op' = "shutdown"
               /\ signals' = {}
               /\ NoCleanup
          ELSE IF l.state # "Stopping" /\ ~OwnsResources
                 THEN /\ lc' = l
                      /\ signals' = {}
                      /\ NoCleanup
                      /\ UNCHANGED op
                 ELSE Reap(l, {}) /\ UNCHANGED op
  /\ UNCHANGED now

\* The shutdown request was answered, refused or timed out.
ShutdownFinish ==
  /\ op = "shutdown"
  /\ Reap(lc, signals)
  /\ op' = "idle"
  /\ UNCHANGED <<now, stopping>>

Drop ==
  /\ op = "idle"
  /\ stopping' = TRUE
  /\ \E try \in Attempt :
       /\ Cleanup(try) /\ signals' = signals \cup CloseSignal
       /\ lc' = IF Cleaned(try) THEN MarkExited(lc, lc.generation) ELSE lc
  /\ op' = "gone"
  /\ UNCHANGED now

-----------------------------------------------------------------------------
(* The session's threads, the monitor and the operating system.            *)

\* A reader or writer fault: closed.swap under the gate.
SessionFault(g) ==
  /\ session = g
  /\ g \notin closed
  /\ closed' = closed \cup {g}
  /\ closing' = closing \cup {[generation |-> g, reason |-> "Fault"]}
  /\ UNCHANGED <<op, lc, now, stopping, process, session, pump, signals, trees, monitors, detached>>

\* The monitor sees the leader's exit, or cannot probe it; then terminate's swap.  The
\* monitor of a generation that was let go finds the flag taken and the session closed,
\* and has nothing left to do.
MonitorClaims(g) ==
  /\ session = g /\ probe = "nothing"
  /\ probe' \in IF g \in alive THEN {"error"} ELSE {"exit", "error"}
  /\ IF guard = "whole"
       THEN guard' = "spent" /\ claims' = claims \cup {g}
       ELSE UNCHANGED <<guard, claims>>
  /\ UNCHANGED <<op, lc, now, stopping, process, session, pump, signals, closed, closing,
                 alive, offspring, refused, detached>>

\* The signals of the monitor that swapped, however late; the system may refuse them.
MonitorSignals(g) ==
  /\ g \in claims
  /\ claims' = claims \ {g}
  /\ \/ alive' = alive \ {g} /\ offspring' = offspring \ {g} /\ UNCHANGED <<guard, refused>>
     \/ /\ refused' = refused \cup {g}
        /\ guard' = IF g = lc.generation THEN "failed" ELSE guard
        /\ UNCHANGED <<alive, offspring>>
  /\ UNCHANGED <<op, lc, now, stopping, process, session, pump, signals, closed, closing,
                 probe, detached>>

\* report_process_exit or report_process_fault, which a closed session ignores.
MonitorReports(g) ==
  /\ session = g
  /\ g \notin closed
  /\ probe # "nothing" /\ g \notin claims
  /\ closed' = closed \cup {g}
  /\ closing' = closing \cup
       {[generation |-> g,
         reason |-> IF probe = "exit" /\ guard = "spent" THEN "ProcessExited" ELSE "Fault"]}
  /\ UNCHANGED <<op, lc, now, stopping, process, session, pump, signals, trees, monitors, detached>>

\* The terminal callback: end the tree, then queue the one signal of the session.  It
\* runs under the gate, so the owner's cleanup never meets it between swap and signal.
CallbackRuns(s) ==
  /\ s \in closing
  /\ closing' = closing \ {s}
  /\ IF s.generation \in detached
       THEN UNCHANGED <<signals, trees, detached>>
       ELSE /\ signals' = signals \cup {s}
            /\ detached' = detached \cup {s.generation}
            /\ \E signalled, reaped \in BOOLEAN : EndTree(s.generation, signalled, reaped)
  /\ UNCHANGED <<op, lc, now, stopping, process, session, pump, closed, monitors>>

\* The leader exits by itself; what it leaves is counted as running until it is killed.
ProcessDies(g) ==
  /\ g \in alive
  /\ alive' = alive \ {g}
  /\ UNCHANGED <<op, lc, now, stopping, process, session, pump, signals, closed,
                 closing, offspring, guard, monitors, detached>>

Tick ==
  /\ now < MaxTime
  /\ now' = now + 1
  /\ UNCHANGED <<op, lc, stopping, process, session, pump, signals, closed,
                 closing, trees, monitors, detached>>

Next ==
  \/ Start \/ Restart \/ StartRefused \/ Spawn \/ SpawnFails
  \/ Initialized \/ InitializeRejected \/ PromoteReady \/ HandshakeFails
  \/ Poll \/ TakeEventPump \/ Request \/ RequestReturns \/ ScheduleRestart
  \/ ShutdownIdle \/ ShutdownFinish \/ Drop
  \/ \E g \in Generations :
       \/ SessionFault(g) \/ MonitorClaims(g) \/ MonitorSignals(g) \/ MonitorReports(g)
       \/ ProcessDies(g)
  \/ \E s \in Signal : CallbackRuns(s)
  \/ Tick

Spec == Init /\ [][Next]_vars

-----------------------------------------------------------------------------
(* Properties.                                                             *)

\* Type correctness of the supervisor, its machine and the shared queue.
TypeOK ==
  /\ op \in Op
  /\ lc \in Machine
  /\ lc.generation \in 0..MaxGeneration
  /\ now \in 0..MaxTime
  /\ stopping \in BOOLEAN
  /\ process \in Generations \cup {None}
  /\ session \in Generations \cup {None}
  /\ pump \in BOOLEAN
  /\ signals \subseteq Signal
  /\ closed \subseteq Generations
  /\ closing \subseteq Signal
  /\ alive \subseteq Generations
  /\ offspring \subseteq Generations
  /\ guard \in Guard
  /\ probe \in Probe
  /\ claims \subseteq Generations
  /\ refused \subseteq Generations
  /\ detached \subseteq Generations

\* Two sidecars never run at once, however cleanups, spawns and shutdowns fail and
\* are retried: the leader of a generation is reaped before its owner is released
\* (cleanup_owner_until, start_until, bounded_reap_child).
OneLiveLeader == \A g, h \in alive : g = h

\* The descendants a generation leaves behind when it is no longer owned are the exit
\* monitor's: it has taken their kill upon itself and not signalled yet, or the system
\* refused its signal.  Only a spawn that failed halfway, which is final, leaves others
\* (ProcessTreeGuard::terminate, RunningProcess::mark_exited).
StragglersAreClaimed ==
  \A g \in offspring :
    \/ g = process
    \/ g \in claims \cup refused
    \/ g = lc.generation /\ lc.state \in Final

\* Exited is published only when every owner was released and the leader reaped
\* (shutdown_until, sync_terminal_signals, Drop).
ExitedIsReaped == lc.state = "Exited" => ~OwnsResources /\ alive = {}

\* A Ready or Busy machine is backed by the process and session of its own
\* generation, so a request never goes to an older sidecar (request, client).
ReadyIsBacked ==
  lc.state \in {"Ready", "Busy"} => process = lc.generation /\ session = lc.generation

\* A client that outlived its generation holds a closed session.
StaleSessionsClosed == \A g \in 1..lc.generation : g # session => g \in closed

\* Although start resets the stopping flag in any state, a sidecar that is being
\* stopped admits no request: the flag is up or its session is closed.
StoppingShutsAdmission ==
  lc.state = "Stopping" => stopping \/ session = None \/ session \in closed

\* A fault or an exit waiting in the queue is one of the current generation: the cleanup
\* waits for a close in progress and detaches its callback before the next generation
\* starts (cleanup_owner_until, start_until, sync_terminal_signals).
FaultsAreCurrent == \A s \in signals : s.reason # "Closed" => Current(lc, s.generation)

\* What the supervisor owns is what runs and what it publishes: one sidecar at most, none
\* behind Exited, the current one behind Ready, no request into one that is being
\* stopped, nothing let go that nobody has undertaken to end, and no crash of one
\* generation counted against the next (supervisor.rs).
OwnershipIsSafe ==
  /\ TypeOK /\ OneLiveLeader /\ StragglersAreClaimed
  /\ ExitedIsReaped /\ ReadyIsBacked /\ StoppingShutsAdmission /\ FaultsAreCurrent

\* A sidecar that keeps crashing ends Faulted: the count never passes the
\* policy in a state from which another generation could be started.
CrashLoopEnds ==
  /\ lc.attempt <= MaxAttempts + 1
  /\ lc.attempt > MaxAttempts => lc.state \in Final

\* Faulted and Incompatible are final: no later exit, crash or shutdown of the
\* same supervisor leads out of them (mark_exited, record_crash).
FinalIsFinal == [][lc.state \in Final => lc'.state = lc.state]_vars

\* The strengthening that makes the properties above inductive: the owners move
\* together and belong to the latest generation; whatever sidecar may be alive is
\* owned, unless the machine is final; a handshake is exactly Starting.
Ownership ==
  /\ process = session
  /\ pump => session # None
  /\ process \in {None, lc.generation}
  /\ alive \subseteq {lc.generation}
  /\ alive # {} => process = lc.generation \/ lc.state \in Final
  /\ lc.state = "Exited" => process = None
  /\ lc.state \in Running => process = lc.generation /\ lc.generation # None
  /\ lc.state = "Starting" <=> op \in {"initialize", "ready"}
  /\ op = "start" /\ lc.state = "Backoff" => process = None
  /\ op = "shutdown" => lc.state = "Stopping" /\ stopping
  /\ op = "request" => lc.state = "Busy"
  /\ lc.state = "Stopping" => op = "shutdown" \/ session = None \/ session \in closed

\* An owner whose guard is spent has nothing left of its tree but what the monitor holds.
KinIsHeld ==
  \A g \in offspring :
    \/ g = process /\ guard # "spent"
    \/ g \in claims \cup refused
    \/ process = None /\ g = lc.generation /\ lc.state \in Final

\* What makes queued faults current: a close in progress is the owned session's.
Closings ==
  /\ \A s \in closing : s.generation = session
  /\ op = "start" /\ session = None => \A s \in signals : s.reason = "Closed"

CrashBudget ==
  /\ lc.state \in Running => lc.attempt < lc.generation
  /\ lc.attempt <= lc.generation
  /\ lc.attempt <= MaxAttempts + 1
  /\ lc.attempt > MaxAttempts => lc.state \in Final

Core == TypeOK /\ Ownership /\ StaleSessionsClosed /\ CrashBudget
IInv == Core /\ KinIsHeld /\ FaultsAreCurrent /\ Closings

\* The abstract promise: a sidecar lives while its leader runs or its tree is owned.
Living == alive \cup (offspring \cap {process})
Owner == INSTANCE SingleOwner WITH live <- Living, left <- offspring \ Living, gen <- lc.generation,
                                   gaveUp <- (lc.state \in Final \/ op = "gone")

\* The supervisor implements the single-owner promise: a sidecar is started only when
\* the one before has been reaped and let go (start_until, cleanup_owner_until).
ImplementsSingleOwner == Owner!OwnerSpec
=============================================================================
