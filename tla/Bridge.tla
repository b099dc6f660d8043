------------------------------- MODULE Bridge -------------------------------
(***************************************************************************)
(* RuntimeBridge (app_runtime/bridge.rs): the actor that owns the sidecar  *)
(* supervisor, the event drain worker of each runtime, and the threads     *)
(* that ask for shutdown, with the ledgers that decide whether the         *)
(* application may exit: attempt deadlines (ExitControl), the cleanup      *)
(* debt (CleanupFault), the detached worker marker, the quarantine and the *)
(* completion gate.                                                        *)
(*                                                                         *)
(* An owner is the serial number of its spawn; gen gives the generation    *)
(* the ledgers know it by, which is 1 for every fresh supervisor and a     *)
(* number of the actor's own once the runtime is published.  A deadline is *)
(* the fact that it passed.  Requests that only talk to the sidecar        *)
(* (turns, history, settings queries, approvals) are left out.             *)
(***************************************************************************)
EXTENDS Naturals, FiniteSets

CONSTANTS Callers,      \* threads in shutdown_with_retry_until
          Dropper,      \* the one of them that is Drop: never an explicit retry
          MaxSpawns,    \* bound: sidecars spawned
          MaxAttempts   \* bound: numbered exit attempts

ASSUME CallersAssumption == Dropper \in Callers /\ IsFiniteSet(Callers)
ASSUME BoundsAssumption == MaxSpawns \in Nat \ {0} /\ MaxAttempts \in Nat \ {0}

VARIABLES
  apc, ret,      \* where the actor is, and what its current stop is for
  serving,       \* the caller whose request it took from the lane
  stopOk,        \* what the last stop_runtime returned
  supOk,         \* the supervisor half of shutdown_components succeeded
  finished,      \* the actor's local shutdown_completed
  gone,          \* the actor's receivers are dropped
  runtime,       \* the actor's RunningRuntime
  pending,       \* its pending_cleanup supervisor
  starting,      \* the supervisor inside start_runtime
  spawns,        \* serial of the latest spawn
  nextGen,       \* next_generation
  gen,           \* generation of each spawn
  current,       \* current_generation, as the drain workers read it
  slot,          \* TerminalFault.generation
  fault,         \* CleanupFault.generation
  detached,      \* detached_event_generation
  completed,     \* the shared shutdown_completed
  done,          \* Completion of the actor
  quarantine,    \* ExitQuarantine.owner
  recovery,      \* the forced-exit marker on disk
  unwritten,     \* its last write failed, which is only logged
  attempt,       \* ExitControl.attempt: its id, 0 if none; cancelled with it
  expired,       \* attempts whose deadline has passed
  hook,          \* the session the cancellation hook closes
  sawCancel,     \* attach_session read the cancelled flag
  sessionClosed, \* sessions closed by the hook
  lane,          \* the shutdown lane of capacity one: the callers queued in it
  reply,         \* the reply channel of each caller
  cpc,           \* where each caller is
  retry,         \* its explicit_retry
  mine,          \* its attempt
  hand,          \* the quarantined owner it is retrying
  result,        \* what it returned
  dpc,           \* the drain worker of each runtime
  torn,          \* spawns that failed halfway: a child may run that nobody owns
  released       \* spawns whose supervisor confirmed the leader reaped

actor == <<serving, stopOk, supOk, finished, gone>>
owners == <<runtime, pending, starting, spawns, nextGen, gen>>
signals == <<current, slot>>
record == <<recovery, unwritten>>
exitLedger == <<completed, done, quarantine, record>>
exitControl == <<attempt, expired, hook, sawCancel, sessionClosed>>
channel == <<lane, reply>>
callers == <<cpc, retry, mine, hand, result>>
trees == <<torn, released>>
vars == <<apc, ret, actor, owners, signals, fault, detached, exitLedger, exitControl,
          channel, callers, dpc, trees>>

None == 0
Spawns == 1..MaxSpawns
Cancelled == attempt # 0
NeverLate == FALSE
Late == attempt \in expired

Init ==
  /\ apc = "top" /\ ret = "top" /\ serving = {}
  /\ stopOk = FALSE /\ supOk = FALSE /\ finished = FALSE /\ gone = FALSE
  /\ runtime = None /\ pending = None /\ starting = None /\ spawns = 0
  /\ nextGen = 1 /\ gen = [s \in Spawns |-> 1]
  /\ current = 0 /\ slot = 0 /\ fault = 0 /\ detached = 0
  /\ completed = FALSE /\ done = FALSE /\ quarantine = None /\ recovery = FALSE /\ unwritten = FALSE
  /\ attempt = 0 /\ expired = {} /\ hook = None /\ sawCancel = FALSE /\ sessionClosed = {}
  /\ lane = {} /\ reply = [c \in Callers |-> "none"]
  /\ cpc = [c \in Callers |-> "idle"] /\ retry = [c \in Callers |-> FALSE]
  /\ mine = [c \in Callers |-> 0] /\ hand = [c \in Callers |-> None]
  /\ result = [c \in Callers |-> "none"]
  /\ dpc = [s \in Spawns |-> "none"]
  /\ torn = {} /\ released = {}

\* cleanup_confirmed.
Confirmed == runtime = None /\ pending = None /\ fault = 0 /\ detached = 0

\* CleanupFault::clear by the owner of the debt.
ClearedBy(s) == IF fault = gen[s] THEN 0 ELSE fault

\* The spawns of which a leader may run that is the business of its supervisor.
Guarded == (1..spawns) \ (torn \cup released)

\* A supervisor shutdown.  Success reaps the leader and releases the owner, and leaves
\* at most descendants whose kill the exit monitor has taken upon itself.  A supervisor
\* whose spawn failed owns nothing: it succeeds and touches nothing.
Shutdown(s, ok) ==
  /\ released' = IF ok THEN released \cup {s} ELSE released
  /\ UNCHANGED torn

-----------------------------------------------------------------------------
(* The actor: shutdown requests, exit attempts and commands.               *)

\* try_recv on the shutdown lane.
TakeRequest ==
  /\ apc = "top"
  /\ lane # {}
  /\ serving' = lane /\ lane' = {}
  /\ apc' = "stop" /\ ret' = "reply"
  /\ UNCHANGED <<stopOk, supOk, finished, gone, owners, signals, fault, detached>>
  /\ UNCHANGED <<exitLedger, exitControl, reply, callers, dpc, trees>>

NoRequest ==
  /\ apc = "top"
  /\ lane = {}
  /\ apc' = "exit"
  /\ UNCHANGED <<ret, actor, owners, signals, fault, detached, exitLedger, exitControl>>
  /\ UNCHANGED <<channel, callers, dpc, trees>>

\* After the stop: publish completion, answer the caller, leave or go on.  The
\* deadline here was read when the request came, so it may outlive the attempt's.
Answer ==
  /\ apc = "answer"
  /\ \E late \in {FALSE, Late} :
       /\ finished' = (finished \/ (Confirmed /\ ~late))
       /\ completed' = (completed \/ (Confirmed /\ ~late))
  /\ reply' = [c \in Callers |-> IF c \in serving THEN (IF stopOk THEN "ok" ELSE "err") ELSE reply[c]]
  /\ serving' = {}
  /\ apc' = IF Confirmed THEN "final" ELSE "exit"
  /\ UNCHANGED <<ret, stopOk, supOk, gone, owners, signals, fault, detached>>
  /\ UNCHANGED <<done, quarantine, record, exitControl, lane, callers, dpc, trees>>

\* An exit attempt is under way: leave when clean or late, else stop again.
ExitCheck ==
  /\ apc = "exit"
  /\ \/ ~Cancelled /\ apc' = "terminal" /\ UNCHANGED <<ret, finished, completed>>
     \/ /\ Cancelled /\ ~Late /\ Confirmed
        /\ finished' = TRUE /\ completed' = TRUE
        /\ apc' = "final" /\ UNCHANGED ret
     \/ Late /\ apc' = "final" /\ UNCHANGED <<ret, finished, completed>>
     \/ /\ Cancelled /\ ~Late /\ ~Confirmed
        /\ apc' = "stop" /\ ret' = "top" /\ UNCHANGED <<finished, completed>>
  /\ UNCHANGED <<serving, stopOk, supOk, gone, owners, signals, fault, detached>>
  /\ UNCHANGED <<done, quarantine, record, exitControl, channel, callers, dpc, trees>>

\* drain_terminal_fault: TerminalFault::take for the runtime's own generation,
\* then terminal_runtime.
TakesNothing == FALSE
TakesFault == runtime # None /\ slot = gen[runtime]

TerminalCheck ==
  /\ apc = "terminal"
  /\ \/ TakesFault /\ apc' = "components" /\ ret' = "command" /\ current' = 0 /\ slot' = 0
     \/ ~TakesFault /\ apc' = "command" /\ UNCHANGED <<ret, signals>>
  /\ UNCHANGED <<actor, owners, fault, detached, exitLedger, exitControl>>
  /\ UNCHANGED <<channel, callers, dpc, trees>>

\* recv_timeout: nothing, Stop, or the lane of a dropped bridge; Start is below.
Command ==
  /\ apc = "command"
  /\ \/ apc' = "top" /\ UNCHANGED ret
     \/ apc' = "stop" /\ ret' = "top"
     \/ cpc[Dropper] = "returned" /\ apc' = "final" /\ UNCHANGED ret
  /\ UNCHANGED <<actor, owners, signals, fault, detached, exitLedger, exitControl>>
  /\ UNCHANGED <<channel, callers, dpc, trees>>

-----------------------------------------------------------------------------
(* stop_runtime and shutdown_components.                                   *)

\* Where the actor goes when the stop has returned.
After == IF ret = "reply" THEN "answer" ELSE ret

\* The exit deadline has passed: an early return.
StopLate ==
  /\ apc = "stop"
  /\ Late
  /\ stopOk' = FALSE
  /\ apc' = After
  /\ UNCHANGED <<ret, serving, supOk, finished, gone, owners, signals, fault, detached>>
  /\ UNCHANGED <<exitLedger, exitControl, channel, callers, dpc, trees>>

\* A pending supervisor first; a shutdown that returns after the deadline counts
\* as failed.
StopPending ==
  /\ apc = "stop"
  /\ pending # None
  /\ \E ok \in BOOLEAN :
       /\ Shutdown(pending, ok)
       /\ IF ok /\ ~Late
            THEN pending' = None /\ fault' = ClearedBy(pending) /\ UNCHANGED <<apc, stopOk>>
            ELSE /\ fault' = gen[pending] /\ UNCHANGED pending
                 /\ stopOk' = FALSE /\ apc' = After
  /\ UNCHANGED <<ret, serving, supOk, finished, gone, runtime, starting, spawns, nextGen, gen>>
  /\ UNCHANGED <<signals, detached, exitLedger, exitControl, channel, callers, dpc>>

\* No runtime: nothing to stop unless a debt is left.  Projecting the status may
\* fail.
StopNothing ==
  /\ apc = "stop"
  /\ pending = None /\ runtime = None
  /\ \/ fault # 0 /\ stopOk' = FALSE /\ UNCHANGED signals
     \/ fault = 0 /\ stopOk' \in BOOLEAN /\ current' = 0 /\ slot' = 0
  /\ apc' = After
  /\ UNCHANGED <<ret, serving, supOk, finished, gone, owners, fault, detached>>
  /\ UNCHANGED <<exitLedger, exitControl, channel, callers, dpc, trees>>

StopRuntime ==
  /\ apc = "stop"
  /\ pending = None /\ runtime # None
  /\ current' = 0 /\ slot' = 0
  /\ apc' = "components"
  /\ UNCHANGED <<ret, actor, owners, fault, detached, exitLedger, exitControl>>
  /\ UNCHANGED <<channel, callers, dpc, trees>>

\* shutdown_components: the supervisor, ...
StopSupervisor ==
  /\ apc = "components"
  /\ \E ok \in BOOLEAN : supOk' = ok /\ Shutdown(runtime, ok)
  /\ apc' = "finish"
  /\ UNCHANGED <<ret, serving, stopOk, finished, gone, owners, signals, fault, detached>>
  /\ UNCHANGED <<exitLedger, exitControl, channel, callers, dpc>>

\* ... then EventDrain::finish: a worker that is not done in time is detached.
\* stop_runtime, unlike terminal_runtime and start_runtime, also counts a result
\* that comes after the exit deadline as failed.
DrainDoneAnyway(s) == TRUE
DrainDone(s) == dpc[s] = "done"
CountsAsLate == Late /\ ret \notin {"command", "start"}

StopFinish ==
  /\ apc = "finish"
  /\ LET ok == supOk /\ DrainDone(runtime) /\ ~CountsAsLate
     IN /\ detached' = IF DrainDone(runtime) THEN detached ELSE gen[runtime]
        /\ fault' = IF ok THEN ClearedBy(runtime) ELSE gen[runtime]
        /\ runtime' = IF ok THEN None ELSE runtime
        /\ stopOk' \in {FALSE, ok}
  /\ apc' = IF ret = "start" THEN "top" ELSE After
  /\ UNCHANGED <<ret, serving, supOk, finished, gone, pending, starting, spawns, nextGen, gen>>
  /\ UNCHANGED <<signals, exitLedger, exitControl, channel, callers, dpc, trees>>

-----------------------------------------------------------------------------
(* The end of the actor.                                                   *)

\* The clean-up loop after an unconfirmed break.
Final ==
  /\ apc = "final"
  /\ IF ~finished /\ ~Confirmed /\ ~Late
       THEN apc' = "stop" /\ ret' = "final"
       ELSE apc' = "leave" /\ UNCHANGED ret
  /\ UNCHANGED <<actor, owners, signals, fault, detached, exitLedger, exitControl>>
  /\ UNCHANGED <<channel, callers, dpc, trees>>

\* Quarantine what is left: retain_runtime, then retain_pending.
RetainNothing == None
Quarantined == IF pending # None THEN pending ELSE runtime

Leave ==
  /\ apc = "leave"
  /\ \/ /\ ~finished /\ ~Confirmed
        /\ IF Quarantined # None
             THEN quarantine' = Quarantined /\ fault' = gen[Quarantined]
             ELSE UNCHANGED <<quarantine, fault>>
        /\ runtime' = None /\ pending' = None
        /\ UNCHANGED completed
     \/ /\ finished \/ Confirmed
        /\ completed' = (completed \/ (Confirmed /\ ~Late))
        /\ UNCHANGED <<quarantine, fault, runtime, pending>>
  /\ slot' = 0
  /\ apc' = "marked"
  /\ UNCHANGED <<ret, actor, starting, spawns, nextGen, gen, current, detached>>
  /\ UNCHANGED <<done, record, exitControl, channel, callers, dpc, trees>>

MarkDone ==
  /\ apc = "marked"
  /\ done' = TRUE
  /\ apc' = "ended"
  /\ UNCHANGED <<ret, actor, owners, signals, fault, detached, completed, quarantine, record>>
  /\ UNCHANGED <<exitControl, channel, callers, dpc, trees>>

\* actor_loop returns: its receivers go, and with them a request nobody took.
DropReceivers ==
  /\ apc = "ended"
  /\ ~gone
  /\ gone' = TRUE
  /\ reply' = [c \in Callers |-> IF c \in lane THEN "dropped" ELSE reply[c]]
  /\ lane' = {}
  /\ UNCHANGED <<apc, ret, serving, stopOk, supOk, finished, owners, signals, fault, detached>>
  /\ UNCHANGED <<exitLedger, exitControl, callers, dpc, trees>>

-----------------------------------------------------------------------------
(* start_runtime.                                                          *)

StartRefusedByRuntime == Cancelled \/ runtime # None
StartRefused ==
  \/ Cancelled
  \/ detached # 0 \/ fault # 0 \/ pending # None
  \/ runtime # None

\* A Start command that spawns the sidecar; a refused one leaves no trace.  spawn_process
\* may fail once the child exists, and so may its kill: that child has no owner.
StartSpawn ==
  /\ apc = "command"
  /\ ~StartRefused
  /\ spawns < MaxSpawns
  /\ spawns' = spawns + 1
  /\ starting' = spawns + 1
  /\ \/ apc' = "attach" /\ UNCHANGED torn
     \/ apc' = "failed" /\ torn' = torn \cup {spawns + 1}
  /\ UNCHANGED <<ret, actor, runtime, pending, nextGen, gen, signals, fault, detached>>
  /\ UNCHANGED <<exitLedger, exitControl, channel, callers, dpc, released>>

\* The session hook: attach_session reads the flag before it installs the hook.
AttachRead ==
  /\ apc = "attach"
  /\ sawCancel' = Cancelled
  /\ apc' = "install"
  /\ UNCHANGED <<ret, actor, owners, signals, fault, detached, exitLedger>>
  /\ UNCHANGED <<attempt, expired, hook, sessionClosed, channel, callers, dpc, trees>>

AttachInstall ==
  /\ apc = "install"
  /\ hook' = starting
  /\ sessionClosed' = IF sawCancel THEN sessionClosed \cup {starting} ELSE sessionClosed
  /\ apc' = "handshake"
  /\ UNCHANGED <<ret, actor, owners, signals, fault, detached, exitLedger>>
  /\ UNCHANGED <<attempt, expired, sawCancel, channel, callers, dpc, trees>>

\* The supervisor's start succeeded, and no exit attempt was seen after it.
Handshake ==
  /\ apc = "handshake"
  /\ starting \notin sessionClosed
  /\ ~Cancelled
  /\ apc' = "verified"
  /\ UNCHANGED <<ret, actor, owners, signals, fault, detached, exitLedger, exitControl>>
  /\ UNCHANGED <<channel, callers, dpc, trees>>

\* Version and replay succeeded too: number the runtime, start its worker.
Publish ==
  /\ apc = "verified"
  /\ nextGen' = nextGen + 1
  /\ gen' = [gen EXCEPT ![starting] = nextGen]
  /\ current' = nextGen
  /\ slot' = 0
  /\ dpc' = [dpc EXCEPT ![starting] = "running"]
  /\ apc' = "publish"
  /\ UNCHANGED <<ret, actor, runtime, pending, starting, spawns, fault, detached>>
  /\ UNCHANGED <<exitLedger, exitControl, channel, callers, trees>>

\* The Ready status went out, or it did not and the runtime is shut down again.
SlotAtReady == slot

StartReady ==
  /\ apc = "publish"
  /\ runtime' = starting /\ starting' = None
  /\ hook' = None
  /\ \/ slot' = SlotAtReady /\ apc' = "top" /\ UNCHANGED <<ret, current>>
     \/ current' = 0 /\ apc' = "components" /\ ret' = "start" /\ UNCHANGED slot
  /\ UNCHANGED <<actor, pending, spawns, nextGen, gen, fault, detached, exitLedger>>
  /\ UNCHANGED <<attempt, expired, sawCancel, sessionClosed, channel, callers, dpc, trees>>

\* Any earlier failure: retain_failed_supervisor.
StartFails ==
  /\ apc \in {"failed", "handshake", "verified"}
  /\ \E ok \in BOOLEAN :
       /\ Shutdown(starting, ok)
       /\ pending' = IF ok THEN None ELSE starting
       /\ fault' = IF ok THEN ClearedBy(starting) ELSE gen[starting]
  /\ starting' = None
  /\ hook' = None
  /\ apc' = "top"
  /\ UNCHANGED <<ret, actor, runtime, spawns, nextGen, gen, signals, detached, exitLedger>>
  /\ UNCHANGED <<attempt, expired, sawCancel, sessionClosed, channel, callers, dpc>>

-----------------------------------------------------------------------------
(* The drain worker of runtime s, the clock and the operating system.      *)

\* An event that ends the generation, found current ...
DrainSees(s) ==
  /\ dpc[s] = "running"
  /\ current = gen[s]
  /\ dpc' = [dpc EXCEPT ![s] = "faulting"]
  /\ UNCHANGED <<apc, ret, actor, owners, signals, fault, detached, exitLedger, exitControl>>
  /\ UNCHANGED <<channel, callers, trees>>

\* ... and published, by which time the runtime may have been stopped.
DrainPublishes(s) ==
  /\ dpc[s] = "faulting"
  /\ slot' = gen[s]
  /\ dpc' = [dpc EXCEPT ![s] = "ending"]
  /\ UNCHANGED <<apc, ret, actor, owners, current, fault, detached, exitLedger, exitControl>>
  /\ UNCHANGED <<channel, callers, trees>>

\* event_is_current says no.
DrainStops(s) ==
  /\ dpc[s] = "running"
  /\ current # gen[s]
  /\ dpc' = [dpc EXCEPT ![s] = "ending"]
  /\ UNCHANGED <<apc, ret, actor, owners, signals, fault, detached, exitLedger, exitControl>>
  /\ UNCHANGED <<channel, callers, trees>>

\* The worker takes its marker back, then marks completion.
DrainClears(s) ==
  /\ dpc[s] = "ending"
  /\ detached' = IF detached = gen[s] THEN 0 ELSE detached
  /\ dpc' = [dpc EXCEPT ![s] = "cleared"]
  /\ UNCHANGED <<apc, ret, actor, owners, signals, fault, exitLedger, exitControl>>
  /\ UNCHANGED <<channel, callers, trees>>

DrainEnds(s) ==
  /\ dpc[s] = "cleared"
  /\ dpc' = [dpc EXCEPT ![s] = "done"]
  /\ UNCHANGED <<apc, ret, actor, owners, signals, fault, detached, exitLedger, exitControl>>
  /\ UNCHANGED <<channel, callers, trees>>

DeadlinePasses ==
  /\ Cancelled /\ ~Late
  /\ expired' = expired \cup {attempt}
  /\ UNCHANGED <<apc, ret, actor, owners, signals, fault, detached, exitLedger>>
  /\ UNCHANGED <<attempt, hook, sawCancel, sessionClosed, channel, callers, dpc, trees>>

-----------------------------------------------------------------------------
(* shutdown_with_retry_until.                                              *)

Goto(c, label) == cpc' = [cpc EXCEPT ![c] = label]

\* Drop records a forced exit when the shutdown failed; that write may fail too.
Return(c, r) ==
  /\ Goto(c, "returned")
  /\ result' = [result EXCEPT ![c] = r]
  /\ \/ r = "ok" /\ recovery' = FALSE /\ UNCHANGED unwritten
     \/ r # "ok" /\ c # Dropper /\ UNCHANGED record
     \/ r # "ok" /\ c = Dropper /\ recovery' = TRUE /\ UNCHANGED unwritten
     \/ r # "ok" /\ c = Dropper /\ unwritten' = TRUE /\ UNCHANGED recovery

Continue(c, label) == Goto(c, label) /\ UNCHANGED <<result, record>>

\* A caller keeps the deadline it read, which a later one may have shortened: it
\* may be past it when its attempt is, and may also not be.
MineLate(c) == mine[c] \in expired

NeedsRetry == done /\ (~completed \/ fault # 0 \/ quarantine # None \/ detached # 0)

\* Drop runs when no other thread holds the bridge.  A thread calls again only
\* when its earlier request is out of the lane (another thread stands for it).
Enter(c) ==
  /\ cpc[c] \in {"idle", "returned"}
  /\ c \notin serving \cup lane
  /\ cpc[Dropper] = "idle"
  /\ c = Dropper => \A d \in Callers : cpc[d] \in {"idle", "returned"}
  /\ retry' = [retry EXCEPT ![c] = c # Dropper /\ NeedsRetry]
  /\ retry'[c] => attempt + Cardinality({d \in Callers : cpc[d] = "attempt"}) < MaxAttempts
  /\ Goto(c, "attempt")
  /\ result' = [result EXCEPT ![c] = "none"]
  /\ reply' = [reply EXCEPT ![c] = "none"]
  /\ UNCHANGED <<apc, ret, actor, owners, signals, fault, detached, exitLedger, exitControl>>
  /\ UNCHANGED <<lane, mine, hand, dpc, trees>>

\* retry_until numbers a new attempt, trigger_until joins the one under way; a
\* new or a shortened deadline also invokes the hook.
NewAttempt(c) == IF retry[c] \/ attempt = 0 THEN attempt + 1 ELSE attempt

BeginAttempt(c) ==
  /\ cpc[c] = "attempt"
  /\ attempt' = NewAttempt(c)
  /\ mine' = [mine EXCEPT ![c] = NewAttempt(c)]
  /\ \/ Goto(c, "hook")
     \/ NewAttempt(c) = attempt /\ Goto(c, "send")
  /\ UNCHANGED <<apc, ret, actor, owners, signals, fault, detached, exitLedger>>
  /\ UNCHANGED <<expired, hook, sawCancel, sessionClosed, channel, retry, hand, result, dpc, trees>>

InvokeHook(c) ==
  /\ cpc[c] = "hook"
  /\ sessionClosed' = sessionClosed \cup ({hook} \ {None})
  /\ Goto(c, "send")
  /\ UNCHANGED <<apc, ret, actor, owners, signals, fault, detached, exitLedger>>
  /\ UNCHANGED <<attempt, expired, hook, sawCancel, channel, retry, mine, hand, result, dpc, trees>>

LaneFull == lane # {}

Send(c) ==
  /\ cpc[c] = "send"
  /\ \/ done /\ Goto(c, "owed") /\ UNCHANGED lane
     \/ ~done /\ ~LaneFull /\ lane' = lane \cup {c} /\ Goto(c, "await")
     \/ ~done /\ LaneFull /\ Goto(c, "gate") /\ UNCHANGED lane
  /\ UNCHANGED <<apc, ret, actor, owners, signals, fault, detached, exitLedger, exitControl>>
  /\ UNCHANGED <<reply, retry, mine, hand, result, dpc, trees>>

\* The reply, a poll that finds the actor done, a hang-up, or the deadline.
Await(c) ==
  /\ cpc[c] = "await"
  /\ \/ reply[c] = "ok" /\ Continue(c, "owed")
     \/ reply[c] = "err" /\ Return(c, "failed")
     \/ reply[c] = "dropped" /\ Return(c, "unavailable")
     \/ reply[c] = "none" /\ done /\ completed /\ Continue(c, "owed")
     \/ reply[c] = "none" /\ done /\ ~completed /\ Return(c, "failed")
     \/ MineLate(c) /\ Return(c, "failed")
  /\ UNCHANGED <<apc, ret, actor, owners, signals, fault, detached, exitControl>>
  /\ UNCHANGED <<completed, done, quarantine, channel, retry, mine, hand, dpc, trees>>

\* The lane is full: wait for the actor's completion.
Gate(c) ==
  /\ cpc[c] = "gate"
  /\ \/ done /\ Continue(c, "owed")
     \/ ~done /\ MineLate(c) /\ Return(c, "failed")
  /\ UNCHANGED <<apc, ret, actor, owners, signals, fault, detached, exitControl>>
  /\ UNCHANGED <<completed, done, quarantine, channel, retry, mine, hand, dpc, trees>>

\* A debt: ExitQuarantine::retry_until takes the owner while it is retried.
TakeQuarantine(c) ==
  /\ cpc[c] = "owed"
  /\ \/ fault = 0 /\ Goto(c, "promote") /\ UNCHANGED <<hand, quarantine>>
     \/ fault # 0 /\ quarantine = None /\ Goto(c, "repaid") /\ UNCHANGED <<hand, quarantine>>
     \/ /\ fault # 0 /\ quarantine # None
        /\ hand' = [hand EXCEPT ![c] = quarantine]
        /\ quarantine' = None
        /\ Goto(c, "retire")
  /\ UNCHANGED <<apc, ret, actor, owners, signals, fault, detached, exitControl>>
  /\ UNCHANGED <<completed, done, record, channel, retry, mine, result, dpc, trees>>

\* Its shutdown; an owner that cannot be confirmed goes back.
PutBackNowhere(s) == quarantine
PutBack(s) == s

Retire(c) ==
  /\ cpc[c] = "retire"
  /\ \E ok \in BOOLEAN :
       LET s == hand[c]
           drained == DrainDone(s) \/ dpc[s] = "none"
       IN /\ Shutdown(s, ok)
          /\ detached' = IF drained THEN detached ELSE gen[s]
          /\ fault' = IF ok /\ drained THEN ClearedBy(s) ELSE gen[s]
          /\ quarantine' = IF ok /\ drained THEN quarantine ELSE PutBack(s)
  /\ hand' = [hand EXCEPT ![c] = None]
  /\ Goto(c, "repaid")
  /\ UNCHANGED <<apc, ret, actor, owners, signals, completed, done, record, exitControl>>
  /\ UNCHANGED <<channel, retry, mine, result, dpc>>

\* A repaid debt is a completed shutdown unless the active deadline passed.
Repaid(c) ==
  /\ cpc[c] = "repaid"
  /\ completed' = (completed \/ (quarantine = None /\ fault = 0 /\ ~Late))
  /\ Goto(c, "promote")
  /\ UNCHANGED <<apc, ret, actor, owners, signals, fault, detached, exitControl>>
  /\ UNCHANGED <<done, quarantine, record, channel, retry, mine, hand, result, dpc, trees>>

\* can_promote_completed_retry; a deadline that passed refuses it.
MayPromote(c) ==
  /\ retry[c] /\ done
  /\ quarantine = None /\ fault = 0 /\ detached = 0

Promote(c) ==
  /\ cpc[c] = "promote"
  /\ \E late \in {FALSE, MineLate(c)} : completed' = (completed \/ (MayPromote(c) /\ ~late))
  /\ Goto(c, "verdict")
  /\ UNCHANGED <<apc, ret, actor, owners, signals, fault, detached, exitControl>>
  /\ UNCHANGED <<done, quarantine, record, channel, retry, mine, hand, result, dpc, trees>>

\* The last checks, the wait for the actor, and the removal of the marker, which
\* may fail.
Clean == completed /\ detached = 0 /\ fault = 0

Verdict(c) ==
  /\ cpc[c] = "verdict"
  /\ \/ ~Clean /\ Return(c, "failed")
     \/ Clean /\ done /\ Return(c, "ok")
     \/ Clean /\ done /\ Return(c, "failed")
     \/ Clean /\ ~done /\ MineLate(c) /\ Return(c, "failed")
  /\ UNCHANGED <<apc, ret, actor, owners, signals, fault, detached, exitControl>>
  /\ UNCHANGED <<completed, done, quarantine, channel, retry, mine, hand, dpc, trees>>

-----------------------------------------------------------------------------
Actor ==
  \/ TakeRequest \/ NoRequest \/ Answer \/ ExitCheck \/ TerminalCheck \/ Command
  \/ StopLate \/ StopPending \/ StopNothing \/ StopRuntime \/ StopSupervisor \/ StopFinish
  \/ Final \/ Leave \/ MarkDone \/ DropReceivers
  \/ StartSpawn \/ AttachRead \/ AttachInstall \/ Handshake \/ Publish \/ StartReady \/ StartFails

Worker(s) == DrainSees(s) \/ DrainPublishes(s) \/ DrainStops(s) \/ DrainClears(s) \/ DrainEnds(s)

Caller(c) ==
  \/ BeginAttempt(c) \/ InvokeHook(c) \/ Send(c) \/ Await(c) \/ Gate(c)
  \/ TakeQuarantine(c) \/ Retire(c) \/ Repaid(c) \/ Promote(c) \/ Verdict(c)

Next ==
  \/ Actor
  \/ DeadlinePasses
  \/ \E s \in Spawns : Worker(s)
  \/ \E c \in Callers : Enter(c) \/ Caller(c)

Spec == Init /\ [][Next]_vars

\* The actor, the workers and the callers run; every wait of theirs is bounded by
\* a deadline, which passes.
FairSpec ==
  /\ Spec
  /\ WF_vars(Actor)
  /\ WF_vars(DeadlinePasses)
  /\ \A s \in Spawns : WF_vars(Worker(s))
  /\ \A c \in Callers : WF_vars(Caller(c))

-----------------------------------------------------------------------------
(* Properties.                                                             *)

Owners == Spawns \cup {None}
Generations == 0..MaxSpawns

\* The state has its types, and the shutdown lane holds one request.
TypeOK ==
  /\ apc \in {"top", "exit", "terminal", "command", "stop", "components", "finish", "answer",
              "final", "leave", "marked", "ended", "attach", "failed", "install",
              "handshake", "verified", "publish"}
  /\ ret \in {"top", "reply", "command", "final", "start"}
  /\ {stopOk, supOk, finished, gone, completed, done, recovery, unwritten, sawCancel}
       \subseteq BOOLEAN
  /\ {runtime, pending, starting, quarantine, hook} \subseteq Owners
  /\ spawns \in 0..MaxSpawns /\ nextGen \in 1..(MaxSpawns + 1) /\ gen \in [Spawns -> 1..MaxSpawns]
  /\ {current, slot, fault, detached} \subseteq Generations
  /\ attempt \in 0..MaxAttempts /\ expired \subseteq 1..MaxAttempts
  /\ sessionClosed \subseteq Spawns
  /\ torn \subseteq Spawns /\ released \subseteq Spawns
  /\ lane \subseteq Callers /\ serving \subseteq Callers
  /\ Cardinality(lane) <= 1
  /\ reply \in [Callers -> {"none", "ok", "err", "dropped"}]
  /\ cpc \in [Callers -> {"idle", "attempt", "hook", "send", "await", "gate", "owed", "retire",
                          "repaid", "promote", "verdict", "returned"}]
  /\ retry \in [Callers -> BOOLEAN] /\ mine \in [Callers -> 0..MaxAttempts]
  /\ hand \in [Callers -> Owners]
  /\ result \in [Callers -> {"none", "ok", "failed", "unavailable"}]
  /\ dpc \in [Spawns -> {"none", "running", "faulting", "ending", "cleared", "done"}]

\* RuntimeBridgeInner::exit_ready.
ExitReady == done /\ completed /\ fault = 0 /\ detached = 0 /\ quarantine = None

NothingLeft == Guarded = {} /\ \A s \in Spawns : dpc[s] \in {"none", "done"}

\* When exit_ready lets Tauri accept the final Exit event, and when a shutdown
\* call has reported success, no event worker is left and of the sidecars only what
\* has no owner: the child of a spawn that failed halfway, and descendants whose
\* kill an exit monitor owes (exit_ready: "without risking a still-live actor,
\* event worker, or sidecar process owner").
ExitIsClean == (ExitReady \/ \E c \in Callers : result[c] = "ok") => NothingLeft

\* A second sidecar is never spawned while an owned tree may still run, whatever
\* stop, start or terminal cleanup failed in between (start_runtime's refusals).
OneSidecar == Cardinality(Guarded) <= 1

Held == {runtime, pending, starting, quarantine} \cup {hand[c] : c \in Callers}

\* A running sidecar has an owner that somebody can still shut down (the actor, the
\* quarantine, or the caller retrying it: "keeps an unconfirmed process owner
\* reachable") until that owner confirmed its leader reaped; the one exception is the
\* child of a spawn that failed halfway, which never had an owner.
OwnerReachable == Guarded \subseteq Held

\* A cleanup debt can be paid: the generation recorded in CleanupFault is that of
\* an owner somebody holds, so a retry can clear it.  A debt without an owner
\* would refuse every later start and exit.
DebtIsPayable == fault # 0 => \E s \in Held \ {None} : gen[s] = fault

\* Whatever a failed stop leaves behind can still be cleaned up by somebody
\* (ExitQuarantine, CleanupFault).
OwnerIsRecoverable == OwnerReachable /\ DebtIsPayable

\* A drain worker that gave up on the published runtime has left its generation
\* in the terminal slot, where the actor looks for it; else the runtime would
\* stay Ready with nobody reading its events.
WorkerEndIsSeen ==
  \A s \in Spawns :
    (runtime = s /\ current = gen[s] /\ dpc[s] \in {"ending", "cleared", "done"}) => slot = gen[s]

\* What the actor believes of its runtime is so: one sidecar, and no worker's end missed
\* (start_runtime, drain_terminal_fault).
RuntimeIsTracked == TypeOK /\ OneSidecar /\ WorkerEndIsSeen

\* A bridge dropped before everything was confirmed gone leaves the forced-exit
\* marker behind, or has logged that it could not write it (Drop for
\* RuntimeBridgeInner, record_forced_exit).
UncleanDropIsRecorded ==
  (cpc[Dropper] = "returned" /\ ~NothingLeft) => recovery \/ unwritten

\* An exit is reported clean, or recorded as forced, according to what is left running
\* (exit_ready, record_forced_exit).
ExitIsAccounted == ExitIsClean /\ UncleanDropIsRecorded

\* Once an exit attempt exists the actor ends, whatever fails: its clean-up loops
\* stop at the attempt's deadline.
ActorEnds == Cancelled ~> done

\* A published runtime whose worker ended is taken down, or its cleanup debt is on
\* record.
DeadRuntimeIsStopped ==
  \A s \in Spawns :
    (runtime = s /\ dpc[s] = "done") ~> (runtime # s \/ fault = gen[s])

\* The comment on shutdown: "Only a later explicit retry may promote that
\* confirmed empty state to completed".  The detached marker names a worker that
\* has yet to end; a marker left by a worker that is done refuses every retry.
DetachedIsRunning ==
  detached # 0 => \E s \in Spawns : gen[s] = detached /\ dpc[s] # "done"
=============================================================================
