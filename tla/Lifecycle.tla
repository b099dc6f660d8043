------------------------------ MODULE Lifecycle ------------------------------
(***************************************************************************)
(* LifecycleMachine (agent_process/lifecycle.rs) as operators on its       *)
(* record of fields.  An operator returns the fields after the call; a     *)
(* call the code refuses returns them unchanged, and the CanX operator     *)
(* says when it is refused.  The machine has no concurrency of its own:    *)
(* its only owner is the supervisor, whose module drives it.               *)
(***************************************************************************)
EXTENDS Integers

CONSTANTS MaxAttempts,   \* RestartPolicy::max_attempts
          BaseDelay,     \* RestartPolicy::base_delay
          MaxDelay,      \* RestartPolicy::max_delay
          StableWindow   \* STABLE_WINDOW_MILLIS

\* RestartPolicy::validate.
ASSUME PolicyAssumption == /\ MaxAttempts \in Nat \ {0}
                           /\ BaseDelay \in Nat \ {0}
                           /\ MaxDelay \in Nat
                           /\ MaxDelay >= BaseDelay
                           /\ StableWindow \in Nat

Running == {"Starting", "Ready", "Busy"}
Final == {"Faulted", "Incompatible"}
LifecycleState == Running \cup Final \cup {"Stopping", "Exited", "Backoff"}

\* next_retry_millis and ready_since_millis are optional in the code.
Unset == -1
Machine == [state : LifecycleState, generation : Nat, attempt : Nat,
            retryAt : Nat \cup {Unset}, readySince : Nat \cup {Unset}]

NewMachine == [state |-> "Exited", generation |-> 0, attempt |-> 0,
               retryAt |-> Unset, readySince |-> Unset]

Current(l, g) == l.generation = g

BackoffDue(l, now) == l.retryAt = Unset \/ now >= l.retryAt

CanStart(l, now) == l.state = "Exited" \/ (l.state = "Backoff" /\ BackoffDue(l, now))

\* begin_start, when CanStart.  The u64 generation is taken not to wrap.
BeginStart(l) == [state |-> "Starting", generation |-> l.generation + 1,
                  attempt |-> l.attempt, retryAt |-> Unset, readySince |-> Unset]

MarkReady(l, g, now) ==
  IF Current(l, g) /\ l.state = "Starting"
    THEN [l EXCEPT !.state = "Ready", !.readySince = now]
    ELSE l

MarkBusy(l, g) ==
  IF Current(l, g) /\ l.state = "Ready" THEN [l EXCEPT !.state = "Busy"] ELSE l

MarkReadyAgain(l, g) ==
  IF Current(l, g) /\ l.state = "Busy" THEN [l EXCEPT !.state = "Ready"] ELSE l

BeginStop(l, g) ==
  IF Current(l, g) /\ l.state \in Running THEN [l EXCEPT !.state = "Stopping"] ELSE l

\* A final state survives the exit of its own process.
MarkExited(l, g) ==
  IF Current(l, g) /\ l.state \notin Final THEN [l EXCEPT !.state = "Exited"] ELSE l

MarkFinal(l, g, state) ==
  IF Current(l, g)
    THEN [l EXCEPT !.state = state, !.retryAt = Unset, !.readySince = Unset]
    ELSE l
MarkIncompatible(l, g) == MarkFinal(l, g, "Incompatible")
MarkFaulted(l, g) == MarkFinal(l, g, "Faulted")

\* The delays double up to the cap; the shift is capped so that it cannot overflow.
Shift(attempt) == IF attempt - 1 < 31 THEN attempt - 1 ELSE 31
ASSUME DelaysAssumption == \A n \in 1..MaxAttempts : BaseDelay * 2^Shift(n) \in Nat
Delay(attempt) == LET d == BaseDelay * 2^Shift(attempt) IN IF d < MaxDelay THEN d ELSE MaxDelay

\* A generation that stayed ready for the stable window forgets older crashes.
Stable(l, now) == l.readySince # Unset /\ now >= l.readySince + StableWindow

CountCrash(l, now) == (IF Stable(l, now) THEN 0 ELSE l.attempt) + 1

RecordCrashUnbounded(l, g, now) ==
  IF ~Current(l, g) \/ l.state \notin Running
    THEN l
    ELSE LET n == CountCrash(l, now)
         IN [l EXCEPT !.state = "Backoff", !.attempt = n, !.retryAt = now + Delay(n)]
\* record_crash: bounded exponential backoff, then Faulted.
RecordCrash(l, g, now) ==
  IF ~Current(l, g) \/ l.state \notin Running
    THEN l
    ELSE LET n == CountCrash(l, now)
         IN IF n > MaxAttempts
              THEN [l EXCEPT !.state = "Faulted", !.attempt = n, !.retryAt = Unset]
              ELSE [l EXCEPT !.state = "Backoff", !.attempt = n, !.retryAt = now + Delay(n)]
=============================================================================
