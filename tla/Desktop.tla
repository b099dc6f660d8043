------------------------------ MODULE Desktop ------------------------------
(***************************************************************************)
(* The desktop shell and its runtime host: the slot that owns one bridge,   *)
(* the workspace binding, the commands of the main thread, application exit *)
(* and the recovery files that gate the next launch.  The bridge is reduced *)
(* to what the host can see of it (module Bridge has its inside).           *)
(***************************************************************************)
EXTENDS Naturals, FiniteSets

CONSTANTS
  Workspaces,   \* workspace identities the user interface configures
  MaxBridges,   \* bridges created in one run of the application (a bound)
  MaxForced,    \* recovery identities ever used (a bound)
  MaxLaunches   \* runs of the application (a bound)

ASSUME DesktopAssumption ==
  /\ MaxBridges \in Nat \ {0} /\ MaxForced \in Nat \ {0} /\ MaxLaunches \in Nat \ {0}
  /\ "unset" \notin Workspaces

VARIABLES
  app,      \* down, up, leaving (ExitRequested is over), recording or writing the record
  launches, \* runs so far
  bridges,  \* of this run: b -> actor, side, exiting, clean, cfg, mail
  slot,     \* RuntimeHost.bridge, 0 for None
  replay,   \* LaunchConfig.replay of the host
  binding,  \* RuntimeHost.workspace
  command,  \* what the main thread is in: op, its position, its argument
  disk,     \* marker and ack (0 for none), a temp file is left, the marker is bad
  identities,  \* recovery identities used so far
  owed      \* ghost: forced exits that reached the disk, their sidecar unaccounted for

desktopVars == <<app, launches, bridges, slot, replay, binding, command, disk, identities, owed>>

NoBridge == [actor |-> "none", side |-> "off", exiting |-> FALSE, clean |-> FALSE,
             cfg |-> "unset", mail |-> {}]
Resting == [op |-> "idle", at |-> "idle", arg |-> "unset"]

DesktopInit ==
  /\ app = "down" /\ launches = 0
  /\ bridges = [b \in 1..MaxBridges |-> NoBridge]
  /\ slot = 0 /\ replay = "unset" /\ binding = "unset"
  /\ command = Resting
  /\ disk = [marker |-> 0, ack |-> 0, temp |-> FALSE, bad |-> FALSE]
  /\ identities = 0 /\ owed = {}

-----------------------------------------------------------------------------
(* The recovery files of app_runtime/config.rs. *)

\* Mutant: the gate overlooks the remains of an interrupted write.
RecoveryRequiredNoTemps == disk.marker # 0 \/ disk.ack # 0

\* recovery_state(run_dir).required
RecoveryRequired == disk.temp \/ disk.marker # 0 \/ disk.ack # 0

\* parse_recovery_marker: bounded, of the right schema, whole.
Parses == ~disk.bad

\* recovery_state's identity, when the user interface may confirm one.
Acknowledgeable ==
  IF disk.temp \/ ~Parses \/ (disk.marker # 0 /\ disk.ack # 0 /\ disk.marker # disk.ack) THEN 0
  ELSE IF disk.marker # 0 THEN disk.marker ELSE disk.ack

\* acknowledge_manual_recovery's own check; it does not look for temp files.
Confirms(id) ==
  /\ id # 0 /\ Parses
  /\ id = IF disk.marker # 0 THEN disk.marker ELSE disk.ack
  /\ disk.ack \in {0, id}

-----------------------------------------------------------------------------
(* The bridge as its host sees it. *)

Fresh == {b \in 1..MaxBridges : bridges[b].actor = "none"}

\* RuntimeBridge::new: an actor, no sidecar yet, the launch snapshot frozen in it.
NewBridge == [NoBridge EXCEPT !.actor = "alive", !.cfg = replay]

\* RuntimeBridge::exit_ready
ExitReady(b) == bridges[b].actor = "ended" /\ bridges[b].clean

BridgeKeeps == UNCHANGED <<app, launches, slot, replay, binding, command, disk, identities, owed>>

\* The actor takes a queued start; a caller that gave up does not stop it.
ActorStarts(b) ==
  /\ bridges[b].actor = "alive" /\ "start" \in bridges[b].mail
  /\ \E side \in {"ready", "off"} :
       bridges' = [bridges EXCEPT ![b].mail = @ \ {"start"},
                     ![b].side = IF bridges[b].exiting THEN @ ELSE IF @ = "ready" THEN @ ELSE side]
  /\ BridgeKeeps

\* The actor takes a queued stop; cleanup may fail and keep the process tree.
ActorStops(b) ==
  /\ bridges[b].actor = "alive" /\ "stop" \in bridges[b].mail
  /\ \E side \in {"off", "stuck"} :
       bridges' = [bridges EXCEPT ![b].mail = @ \ {"stop"},
                     ![b].side = IF @ = "off" THEN @ ELSE side]
  /\ BridgeKeeps

\* A sidecar dies, and the actor's next start or poll sees it gone.
RuntimeDies(b) ==
  /\ bridges[b].side \in {"ready", "stuck"}
  /\ bridges' = [bridges EXCEPT ![b].side = "off"]
  /\ BridgeKeeps

\* The actor obeys the shutdown: it ends, and either everything is gone or the
\* remains are quarantined.
ActorEndsFor(b) ==
  /\ bridges[b].actor = "alive" /\ bridges[b].exiting
  /\ \E done \in BOOLEAN :
       bridges' = [bridges EXCEPT ![b].actor = "ended", ![b].mail = {}, ![b].clean = done,
                     ![b].side = IF done \/ @ = "off" THEN "off" ELSE "stuck"]
  /\ BridgeKeeps

-----------------------------------------------------------------------------
(* Commands of the main thread. *)

HostRests == app = "up" /\ command = Resting
Returns == command' = Resting
HostKeeps == UNCHANGED <<app, launches, identities, owed>>

\* ensure_bridge: the slot's bridge, or a new one behind the recovery gate.
EnsureBridge(letter) ==
  \/ /\ slot # 0 /\ UNCHANGED slot
     /\ bridges' = [bridges EXCEPT ![slot].mail =
          IF bridges[slot].actor = "alive" /\ letter # "none" THEN @ \cup {letter} ELSE @]
  \/ /\ slot = 0 /\ ~RecoveryRequired
     /\ \E b \in Fresh :
          /\ \A c \in Fresh : b <= c
          /\ slot' = b
          /\ bridges' = [bridges EXCEPT ![b] = [NewBridge EXCEPT !.mail = {letter} \ {"none"}]]

\* RuntimeHost::start: refused by the gate, or sent to the actor.
StartRefused ==
  /\ HostRests /\ slot = 0 /\ RecoveryRequired
  /\ binding' = "unset"
  /\ UNCHANGED <<bridges, slot, replay, command, disk>> /\ HostKeeps

StartSent ==
  /\ HostRests /\ EnsureBridge("start")
  /\ command' = [Resting EXCEPT !.op = "start"]
  /\ UNCHANGED <<replay, binding, disk>> /\ HostKeeps

\* The reply says Ready, or anything else: an error, another state, a deadline.
StartReturned ==
  /\ command.op = "start"
  /\ \/ bridges[slot].side = "ready" /\ "start" \notin bridges[slot].mail /\ UNCHANGED binding
     \/ binding' = "unset"
  /\ Returns /\ UNCHANGED <<bridges, slot, replay, disk>> /\ HostKeeps

\* RuntimeHost::stop, whose deadline may pass before the actor has obeyed.
StopSent ==
  /\ HostRests /\ slot # 0 /\ bridges[slot].actor = "alive"
  /\ bridges' = [bridges EXCEPT ![slot].mail = @ \cup {"stop"}]
  /\ command' = [Resting EXCEPT !.op = "stop"]
  /\ UNCHANGED <<slot, replay, binding, disk>> /\ HostKeeps

StopReturned ==
  /\ \/ command.op = "stop"
     \/ HostRests /\ (slot # 0 => bridges[slot].actor # "alive")
  /\ binding' = "unset" /\ Returns
  /\ UNCHANGED <<bridges, slot, replay, disk>> /\ HostKeeps

\* turn_start and turn_cancel create the bridge lazily and never start it.
TurnSent ==
  /\ HostRests /\ EnsureBridge("none")
  /\ UNCHANGED <<replay, binding, command, disk>> /\ HostKeeps

\* with_configured_workspace: whom a read is admitted for.
ReadAdmitted == binding # "unset" /\ slot # 0 /\ bridges[slot].side = "ready"

-----------------------------------------------------------------------------
(* RuntimeHost::configure. *)

ConfigInputs == [ws : Workspaces, ids : {"valid", "malformed"}, root : {"directory", "link"},
                 profile : {"active", "missing"}]

\* WorkspaceRegistry::register, then RuntimeReplayConfig::from_input.
Accepted(input) == input.root = "directory" /\ input.ids = "valid" /\ input.profile = "active"

\* The binding goes first; a refused input stops there.
ConfigureCalled(input) ==
  /\ HostRests
  /\ binding' = "unset"
  /\ command' = IF ~Accepted(input) THEN Resting
                ELSE [op |-> "configure", at |-> IF slot = 0 THEN "set" ELSE "ask", arg |-> input.ws]
  /\ UNCHANGED <<bridges, slot, replay, disk>> /\ HostKeeps

\* RuntimeBridgeInner::shutdown, as configure and application exit call it: ask
\* the actor to end ...
ShutdownAsked ==
  /\ command.at = "ask"
  /\ bridges' = [bridges EXCEPT ![slot].exiting = TRUE]
  /\ command' = [command EXCEPT !.at = "wait"]
  /\ UNCHANGED <<slot, replay, binding, disk>> /\ HostKeeps

\* ... retry what it could not clean, once it has ended ...
ShutdownRetries ==
  /\ command.at = "wait" /\ bridges[slot].actor = "ended" /\ ~bridges[slot].clean
  /\ bridges' = [bridges EXCEPT ![slot].clean = TRUE, ![slot].side = "off"]
  /\ UNCHANGED <<slot, replay, binding, command, disk>> /\ HostKeeps

\* ... and on success remove the marker, or report the failure.
ShutdownDone ==
  /\ command.at = "wait" /\ ExitReady(slot)
  /\ disk' = [disk EXCEPT !.marker = 0, !.bad = FALSE]
  /\ command' = [command EXCEPT !.at = IF command.op = "exit" THEN "leave" ELSE "replace"]
  /\ UNCHANGED <<bridges, slot, replay, binding>> /\ HostKeeps

\* Mutant: a shutdown that failed does not keep the bridge in its slot.
ShutdownFailsOpen ==
  /\ command.at = "wait"
  /\ command' = [command EXCEPT !.at = IF command.op = "exit" THEN "leave" ELSE "set"]
  /\ UNCHANGED <<bridges, slot, replay, binding, disk>> /\ HostKeeps

ShutdownFails ==
  /\ command.at = "wait"
  /\ command' = IF command.op = "exit" THEN [command EXCEPT !.at = "leave"] ELSE Resting
  /\ UNCHANGED <<bridges, slot, replay, binding, disk>> /\ HostKeeps

\* The slot is emptied only when its bridge may be forgotten.
ConfigureReplaces ==
  /\ command.at = "replace"
  /\ IF ExitReady(slot)
     THEN slot' = 0 /\ command' = [command EXCEPT !.at = "set"]
     ELSE UNCHANGED slot /\ Returns
  /\ UNCHANGED <<bridges, replay, binding, disk>> /\ HostKeeps

\* The snapshot and the binding take effect together for the main thread.
ConfigureSets ==
  /\ command.at = "set"
  /\ replay' = command.arg /\ binding' = command.arg
  /\ Returns /\ UNCHANGED <<bridges, slot, disk>> /\ HostKeeps

-----------------------------------------------------------------------------
(* acknowledge_recovery: a tombstone, then the marker, then the tombstone go. *)

\* The user states that the recorded process is gone; identity is compared.
AckCalled ==
  /\ HostRests /\ slot = 0
  /\ \E id \in 1..identities :
       /\ id = Acknowledgeable /\ Confirms(id)
       /\ command' = [op |-> "ack", at |-> "write", arg |-> id]
       /\ owed' = owed \ {id}
  /\ UNCHANGED <<app, launches, bridges, slot, replay, binding, disk, identities>>

\* atomic_write_file: a temp file, then a rename over the target; an error
\* leaves the temp file where the gate will find it.
AckWrites ==
  /\ command.op = "ack" /\ command.at \in {"write", "rename"}
  /\ \/ command.at = "write" /\ command' = [command EXCEPT !.at = "rename"]
        /\ disk' = [disk EXCEPT !.temp = TRUE]
     \/ command.at = "rename" /\ command' = [command EXCEPT !.at = "marker"]
        /\ disk' = [disk EXCEPT !.temp = FALSE, !.ack = command.arg]
     \/ Returns /\ UNCHANGED disk
  /\ UNCHANGED <<bridges, slot, replay, binding>> /\ HostKeeps

\* remove_file_synced, twice; a failed removal is retried by the same
\* confirmation later.
AckRemoves ==
  /\ command.op = "ack" /\ command.at \in {"marker", "ack"}
  /\ \/ command.at = "marker" /\ command' = [command EXCEPT !.at = "ack"]
        /\ disk' = [disk EXCEPT !.marker = 0]
     \/ command.at = "ack" /\ Returns
        /\ disk' = [disk EXCEPT !.ack = 0]
     \/ Returns /\ UNCHANGED disk
  /\ UNCHANGED <<bridges, slot, replay, binding>> /\ HostKeeps

-----------------------------------------------------------------------------
(* Application exit and launch. *)

\* ExitRequested without a code: clean up under one deadline, then leave.
ExitRequested ==
  /\ HostRests
  /\ command' = [op |-> "exit", at |-> IF slot = 0 THEN "leave" ELSE "ask", arg |-> "unset"]
  /\ UNCHANGED <<bridges, slot, replay, binding, disk>> /\ HostKeeps

\* shutdown_until ends by clearing the binding, whatever it achieved.
ExitCleaned ==
  /\ command.op = "exit" /\ command.at = "leave"
  /\ binding' = "unset" /\ Returns /\ app' = "leaving"
  /\ UNCHANGED <<launches, bridges, slot, replay, disk, identities, owed>>

\* A request that carries a code is left to Tauri: no cleanup.
ExitWithCode ==
  /\ HostRests /\ app' = "leaving"
  /\ UNCHANGED <<launches, bridges, slot, replay, binding, command, disk, identities, owed>>

Alive == {b \in 1..MaxBridges : bridges[b].side # "off"}

Gone ==
  /\ app' = "down" /\ command' = Resting
  /\ bridges' = [b \in 1..MaxBridges |-> NoBridge]
  /\ slot' = 0 /\ replay' = "unset" /\ binding' = "unset"
  /\ UNCHANGED launches

\* RunEvent::Exit: an owner that is not ready is recorded.  A terminal or a
\* preview that is still open asks for the record as well.
ExitUnready ==
  /\ app = "leaving" /\ slot # 0 /\ identities < MaxForced
  /\ \E othersOpen \in BOOLEAN : ~ExitReady(slot) \/ othersOpen
  /\ app' = "recording" /\ identities' = identities + 1
  /\ UNCHANGED <<launches, bridges, slot, replay, binding, command, disk, owed>>

\* atomic_write_file has its temp file: from here on the disk knows of the exit.
ExitWrites ==
  /\ app = "recording"
  /\ app' = "writing" /\ disk' = [disk EXCEPT !.temp = TRUE]
  /\ owed' = IF Alive # {} THEN owed \cup {identities} ELSE owed
  /\ UNCHANGED <<launches, bridges, slot, replay, binding, command, identities>>

\* The rename; or an error, which is only logged: before the temp file it leaves
\* nothing, after it the temp file.
ExitRecorded ==
  /\ \/ app = "recording" /\ UNCHANGED disk
     \/ /\ app = "writing"
        /\ disk' \in {[disk EXCEPT !.temp = FALSE, !.marker = identities, !.bad = FALSE], disk}
  /\ Gone /\ UNCHANGED <<identities, owed>>

ExitReadyToGo ==
  /\ app = "leaving" /\ (slot # 0 => ExitReady(slot))
  /\ Gone
  /\ owed' = IF Alive # {} THEN owed \cup {MaxForced + 1} ELSE owed
  /\ UNCHANGED <<disk, identities>>

\* A record is damaged while no application runs.
RecordSpoiled ==
  /\ app = "down" /\ disk.marker # 0 /\ ~disk.bad
  /\ disk' = [disk EXCEPT !.bad = TRUE]
  /\ UNCHANGED <<app, launches, bridges, slot, replay, binding, command, identities, owed>>

\* The application is killed while it writes recovery files.
Killed ==
  /\ app \in {"recording", "writing"} \/ command.op = "ack"
  /\ Gone /\ UNCHANGED <<disk, identities, owed>>

\* prepare_run_dir and bundled_launch_config: what the trusted layout must be.
Layouts == [resource : {"file", "link", "missing"}, runDir : {"private", "link"}]
Launchable(l) == l.resource = "file" /\ l.runDir = "private"

\* Setup builds a host without touching a process; a bad layout ends it.
Launch(l) ==
  /\ app = "down" /\ launches < MaxLaunches
  /\ launches' = launches + 1
  /\ app' = IF Launchable(l) THEN "up" ELSE "down"
  /\ UNCHANGED <<bridges, slot, replay, binding, command, disk, identities, owed>>

DesktopNext ==
  \/ \E b \in 1..MaxBridges : ActorStarts(b) \/ ActorStops(b) \/ RuntimeDies(b) \/ ActorEndsFor(b)
  \/ StartRefused \/ StartSent \/ StartReturned
  \/ StopSent \/ StopReturned \/ TurnSent
  \/ \E input \in ConfigInputs : ConfigureCalled(input)
  \/ ShutdownAsked \/ ShutdownRetries \/ ShutdownDone \/ ShutdownFails
  \/ ConfigureReplaces \/ ConfigureSets
  \/ AckCalled \/ AckWrites \/ AckRemoves
  \/ ExitRequested \/ ExitCleaned \/ ExitWithCode
  \/ ExitUnready \/ ExitWrites \/ ExitRecorded \/ ExitReadyToGo \/ Killed \/ RecordSpoiled
  \/ \E l \in Layouts : Launch(l)

DesktopSpec == DesktopInit /\ [][DesktopNext]_desktopVars

-----------------------------------------------------------------------------
(* Properties. *)

\* A bridge that still owns an actor, a process tree or a cleanup debt is the
\* one in the slot: replacing a configuration, an exit or a late reply never
\* lets go of a bridge nobody else could clean up (host.rs, configure).
BridgeNotAbandoned ==
  \A b \in 1..MaxBridges : bridges[b].actor # "none" /\ ~ExitReady(b) => slot = b

\* Whenever a workspace read would be admitted, its binding is the workspace the
\* Ready sidecar was configured with: no order of configure, start, stop, late
\* replies and crashes pairs an old process with a new root (host.rs,
\* with_configured_workspace).
BindingMatchesRuntime == ReadAdmitted => binding = bridges[slot].cfg

\* The host's slot and binding always speak of the bridge that runs (host.rs).
HostOwnsItsBridge == BridgeNotAbandoned /\ BindingMatchesRuntime

\* Once a forced exit has left its first trace on the disk, no bridge exists and the
\* gate is shut until its process is accounted for, across interrupted writes,
\* interrupted acknowledgements and relaunches (config.rs, recovery_state and
\* acknowledge_manual_recovery).  A record that fails before its temp file exists is
\* only logged, and gates nothing.
ForcedExitGatesLaunch == (app = "up" /\ owed # {}) => (RecoveryRequired /\ slot = 0)
=============================================================================
