--------------------------- MODULE ServicesProofs ---------------------------
(***************************************************************************)
(* Proofs about the services beside a session: the runtime host and its     *)
(* recovery files, the end of a process group, the previews, the settings   *)
(* file, the user's terminal, and the marker files of the sandbox spike.    *)
(***************************************************************************)
EXTENDS Desktop, GroupKill, Markers, Preview, Settings, Terminal, SequenceTheorems, TLAPS

-----------------------------------------------------------------------------
(* The runtime host (module Desktop). *)

BridgeStates ==
  [actor : {"none", "alive", "ended"}, side : {"off", "ready", "stuck"}, exiting : BOOLEAN,
   clean : BOOLEAN, cfg : Workspaces \cup {"unset"}, mail : SUBSET {"start", "stop"}]

\* What the main thread can be in; an identity or a workspace is its argument.
ConfigureCommands == [op : {"configure"}, at : {"ask", "wait", "replace", "set"}, arg : Workspaces]
ExitCommands == [op : {"exit"}, at : {"ask", "wait", "leave"}, arg : {"unset"}]
AckCommands == [op : {"ack"}, at : {"write", "rename", "marker", "ack"}, arg : Nat \ {0}]
CommandStates ==
  {Resting, [Resting EXCEPT !.op = "start"], [Resting EXCEPT !.op = "stop"]}
    \cup ConfigureCommands \cup ExitCommands \cup AckCommands

DiskStates == [marker : Nat, ack : Nat, temp : BOOLEAN, bad : BOOLEAN]

DesktopTypeOK ==
  /\ app \in {"down", "up", "leaving", "recording", "writing"} /\ launches \in Nat
  /\ bridges \in [1..MaxBridges -> BridgeStates] /\ slot \in 0..MaxBridges
  /\ replay \in Workspaces \cup {"unset"} /\ binding \in Workspaces \cup {"unset"}
  /\ command \in CommandStates /\ disk \in DiskStates
  /\ identities \in Nat /\ owed \subseteq Nat

\* A command that goes on with the slot's bridge finds one there, and one that
\* sets the configuration or confirms a recovery finds none.
CommandHasItsSlot ==
  /\ slot # 0 => bridges[slot].actor # "none"
  /\ command.op = "start" \/ command.at \in {"ask", "wait", "replace"} => slot # 0
  /\ command.at = "set" \/ command.op = "ack" => slot = 0

\* The launch snapshot outlives neither its bridge nor its binding.
SnapshotIsFrozen ==
  /\ slot # 0 => bridges[slot].cfg = replay
  /\ binding # "unset" => binding = replay

\* A bridge without an actor or a debt has no process.
SettledIsOff ==
  \A b \in 1..MaxBridges : bridges[b].actor = "none" \/ ExitReady(b) => bridges[b].side = "off"

\* The gate: a bridge in the slot excludes recovery files, and what is owed is
\* the last identity, unconfirmed, with its record or the remains of its write.
GateHolds ==
  /\ slot # 0 /\ app # "writing" => ~RecoveryRequired
  /\ app # "up" => command = Resting
  /\ app = "recording" => slot # 0 /\ identities # 0
  /\ app = "writing" => disk.temp /\ identities # 0
  /\ owed # {} /\ app # "writing" => slot = 0 /\ RecoveryRequired
  /\ owed # {} => owed = {identities} /\ disk.ack = 0 /\ disk.marker \in {0, identities}
  /\ command.op = "ack" => owed = {}

\* Everything the host keeps true between two steps (host.rs, config.rs).
DesktopInv ==
  /\ DesktopTypeOK /\ CommandHasItsSlot /\ SnapshotIsFrozen /\ SettledIsOff
  /\ BridgeNotAbandoned /\ GateHolds

\* ensure_bridge keeps the bridge of the slot, or creates one with the gate open.
LEMMA EnsureBridgeKeeps ==
  ASSUME DesktopInv, NEW letter \in {"start", "none"}, EnsureBridge(letter)
  PROVE  /\ bridges' \in [1..MaxBridges -> BridgeStates]
         /\ slot' \in 1..MaxBridges /\ bridges'[slot'].actor # "none"
         /\ bridges'[slot'].cfg = replay
         /\ \A b \in 1..MaxBridges : b # slot' => bridges'[b] = bridges[b]
         /\ bridges'[slot'].actor = "ended" => /\ bridges'[slot'].side = bridges[slot'].side
                                               /\ bridges'[slot'].clean = bridges[slot'].clean
                                               /\ bridges[slot'].actor = "ended"
         /\ slot # 0 => slot' = slot
         /\ slot = 0 => ~RecoveryRequired
<1>0. /\ bridges \in [1..MaxBridges -> BridgeStates] /\ slot \in 0..MaxBridges /\ MaxBridges \in Nat
      /\ replay \in Workspaces \cup {"unset"}
  BY DesktopAssumption DEF DesktopInv, DesktopTypeOK
<1>1. CASE slot # 0
  <2>1. bridges[slot] \in BridgeStates /\ slot' = slot /\ slot \in 1..MaxBridges
    BY <1>0, <1>1 DEF EnsureBridge
  <2>2. bridges' = [bridges EXCEPT ![slot].mail =
          IF bridges[slot].actor = "alive" /\ letter # "none" THEN @ \cup {letter} ELSE @]
    BY <1>1 DEF EnsureBridge
  <2>3. bridges'[slot] = [bridges[slot] EXCEPT !.mail = bridges'[slot].mail]
    BY <1>0, <2>1, <2>2
  <2>4. bridges'[slot].mail \in SUBSET {"start", "stop"}
    BY <1>0, <2>1, <2>2 DEF BridgeStates
  <2>5. bridges'[slot] \in BridgeStates
    BY <2>1, <2>3, <2>4 DEF BridgeStates
  <2>6. bridges' = [bridges EXCEPT ![slot] = bridges'[slot]]
    BY <1>0, <2>1, <2>2
  <2>7. bridges[slot].actor # "none" /\ bridges[slot].cfg = replay
    BY <1>1 DEF DesktopInv, CommandHasItsSlot, SnapshotIsFrozen
  <2> QED BY <1>0, <1>1, <2>1, <2>3, <2>5, <2>6, <2>7 DEF BridgeStates
<1>2. CASE slot = 0
  <2> DEFINE new == [NewBridge EXCEPT !.mail = {letter} \ {"none"}]
  <2>1. /\ new \in BridgeStates /\ new.actor = "alive" /\ new.cfg = replay
    BY <1>0 DEF NewBridge, NoBridge, BridgeStates
  <2>2. ~RecoveryRequired /\ \E b \in Fresh : slot' = b /\ bridges' = [bridges EXCEPT ![b] = new]
    BY <1>2 DEF EnsureBridge
  <2> HIDE DEF new
  <2> QED BY <1>0, <1>2, <2>1, <2>2 DEF Fresh
<1> QED BY <1>1, <1>2

\* The steps of the host keep its invariant (host.rs, config.rs).
LEMMA DesktopStep ==
  ASSUME DesktopInv, DesktopNext
  PROVE  DesktopInv'
<1> USE DesktopAssumption
<1>1. ASSUME NEW b \in 1..MaxBridges, ActorStarts(b) PROVE DesktopInv'
  <2>1. DesktopTypeOK'
    <3>1. bridges' \in [1..MaxBridges -> BridgeStates]
      <4>1. bridges \in [1..MaxBridges -> BridgeStates] /\ b \in 1..MaxBridges /\ bridges[b] \in BridgeStates
        BY <1>1 DEF DesktopInv, DesktopTypeOK, CommandHasItsSlot, ActorStarts
      <4>2. PICK side \in {"ready", "off"} :
              bridges'[b] = [bridges[b] EXCEPT !.mail = bridges[b].mail \ {"start"},
                  !.side = IF bridges[b].exiting \/ bridges[b].side = "ready" THEN bridges[b].side ELSE side]
        BY <1>1, <4>1 DEF ActorStarts, BridgeStates
      <4>3. bridges'[b] \in BridgeStates
        BY <4>1, <4>2, ZenonT(60) DEF BridgeStates
      <4>4. bridges' = [bridges EXCEPT ![b] = bridges'[b]]
        BY <1>1, <4>1 DEF ActorStarts
      <4> QED BY <4>1, <4>3, <4>4
    <3> QED BY <1>1, <3>1 DEF DesktopInv, DesktopTypeOK, ActorStarts, BridgeKeeps
  <2>2. CommandHasItsSlot' /\ SnapshotIsFrozen'
    BY <1>1 DEF DesktopInv, DesktopTypeOK, CommandHasItsSlot, SnapshotIsFrozen, ActorStarts,
       BridgeKeeps, BridgeStates, CommandStates, ConfigureCommands, ExitCommands, AckCommands,
    Resting
  <2>3. SettledIsOff' /\ BridgeNotAbandoned'
    BY <1>1 DEF DesktopInv, DesktopTypeOK, CommandHasItsSlot, SettledIsOff, BridgeNotAbandoned,
       ExitReady, ActorStarts, BridgeKeeps, BridgeStates
  <2>4. GateHolds'
    BY <1>1 DEF DesktopInv, DesktopTypeOK, CommandHasItsSlot, GateHolds, RecoveryRequired,
       ActorStarts, BridgeKeeps, DiskStates, CommandStates, ConfigureCommands, ExitCommands,
    AckCommands, Resting
  <2> QED BY <2>1, <2>2, <2>3, <2>4 DEF DesktopInv
<1>2. ASSUME NEW b \in 1..MaxBridges, ActorStops(b) PROVE DesktopInv'
  <2>1. DesktopTypeOK'
    <3>1. bridges' \in [1..MaxBridges -> BridgeStates]
      <4>1. bridges \in [1..MaxBridges -> BridgeStates] /\ b \in 1..MaxBridges /\ bridges[b] \in BridgeStates
        BY <1>2 DEF DesktopInv, DesktopTypeOK, CommandHasItsSlot, ActorStops
      <4>2. PICK side \in {"off", "stuck"} :
              bridges'[b] = [bridges[b] EXCEPT !.mail = bridges[b].mail \ {"stop"},
                  !.side = IF bridges[b].side = "off" THEN "off" ELSE side]
        BY <1>2, <4>1 DEF ActorStops, BridgeStates
      <4>3. bridges'[b] \in BridgeStates
        BY <4>1, <4>2, ZenonT(60) DEF BridgeStates
      <4>4. bridges' = [bridges EXCEPT ![b] = bridges'[b]]
        BY <1>2, <4>1 DEF ActorStops
      <4> QED BY <4>1, <4>3, <4>4
    <3> QED BY <1>2, <3>1 DEF DesktopInv, DesktopTypeOK, ActorStops, BridgeKeeps
  <2>2. CommandHasItsSlot' /\ SnapshotIsFrozen'
    BY <1>2 DEF DesktopInv, DesktopTypeOK, CommandHasItsSlot, SnapshotIsFrozen, ActorStops,
       BridgeKeeps, BridgeStates, CommandStates, ConfigureCommands, ExitCommands, AckCommands,
    Resting
  <2>3. SettledIsOff' /\ BridgeNotAbandoned'
    BY <1>2 DEF DesktopInv, DesktopTypeOK, CommandHasItsSlot, SettledIsOff, BridgeNotAbandoned,
       ExitReady, ActorStops, BridgeKeeps, BridgeStates
  <2>4. GateHolds'
    BY <1>2 DEF DesktopInv, DesktopTypeOK, CommandHasItsSlot, GateHolds, RecoveryRequired,
       ActorStops, BridgeKeeps, DiskStates, CommandStates, ConfigureCommands, ExitCommands,
    AckCommands, Resting
  <2> QED BY <2>1, <2>2, <2>3, <2>4 DEF DesktopInv
<1>3. ASSUME NEW b \in 1..MaxBridges, RuntimeDies(b) PROVE DesktopInv'
  <2>1. DesktopTypeOK'
    <3>1. bridges' \in [1..MaxBridges -> BridgeStates]
      <4>1. bridges \in [1..MaxBridges -> BridgeStates] /\ b \in 1..MaxBridges /\ bridges[b] \in BridgeStates
        BY <1>3 DEF DesktopInv, DesktopTypeOK, CommandHasItsSlot, RuntimeDies
      <4>3. bridges'[b] \in BridgeStates
        BY <1>3, <4>1 DEF RuntimeDies, BridgeStates
      <4>4. bridges' = [bridges EXCEPT ![b] = bridges'[b]]
        BY <1>3, <4>1 DEF RuntimeDies
      <4> QED BY <4>1, <4>3, <4>4
    <3> QED BY <1>3, <3>1 DEF DesktopInv, DesktopTypeOK, RuntimeDies, BridgeKeeps
  <2>2. CommandHasItsSlot' /\ SnapshotIsFrozen'
    BY <1>3 DEF DesktopInv, DesktopTypeOK, CommandHasItsSlot, SnapshotIsFrozen, RuntimeDies,
       BridgeKeeps, BridgeStates, CommandStates, ConfigureCommands, ExitCommands, AckCommands,
    Resting
  <2>3. SettledIsOff' /\ BridgeNotAbandoned'
    BY <1>3 DEF DesktopInv, DesktopTypeOK, CommandHasItsSlot, SettledIsOff, BridgeNotAbandoned,
       ExitReady, RuntimeDies, BridgeKeeps, BridgeStates
  <2>4. GateHolds'
    BY <1>3 DEF DesktopInv, DesktopTypeOK, CommandHasItsSlot, GateHolds, RecoveryRequired,
       RuntimeDies, BridgeKeeps, DiskStates, CommandStates, ConfigureCommands, ExitCommands,
    AckCommands, Resting
  <2> QED BY <2>1, <2>2, <2>3, <2>4 DEF DesktopInv
<1>4. ASSUME NEW b \in 1..MaxBridges, ActorEndsFor(b) PROVE DesktopInv'
  <2>1. DesktopTypeOK'
    <3>1. bridges' \in [1..MaxBridges -> BridgeStates]
      <4>1. bridges \in [1..MaxBridges -> BridgeStates] /\ b \in 1..MaxBridges /\ bridges[b] \in BridgeStates
        BY <1>4 DEF DesktopInv, DesktopTypeOK, CommandHasItsSlot, ActorEndsFor
      <4>2. PICK done \in BOOLEAN :
              bridges'[b] = [bridges[b] EXCEPT !.actor = "ended", !.mail = {}, !.clean = done,
                  !.side = IF done \/ bridges[b].side = "off" THEN "off" ELSE "stuck"]
        BY <1>4, <4>1 DEF ActorEndsFor, BridgeStates
      <4>3. bridges'[b] \in BridgeStates
        BY <4>1, <4>2 DEF BridgeStates
      <4>4. bridges' = [bridges EXCEPT ![b] = bridges'[b]]
        BY <1>4, <4>1 DEF ActorEndsFor
      <4> QED BY <4>1, <4>3, <4>4
    <3> QED BY <1>4, <3>1 DEF DesktopInv, DesktopTypeOK, ActorEndsFor, BridgeKeeps
  <2>2. CommandHasItsSlot' /\ SnapshotIsFrozen'
    BY <1>4 DEF DesktopInv, DesktopTypeOK, CommandHasItsSlot, SnapshotIsFrozen, ActorEndsFor,
       BridgeKeeps, BridgeStates, CommandStates, ConfigureCommands, ExitCommands, AckCommands,
    Resting
  <2>3. SettledIsOff' /\ BridgeNotAbandoned'
    BY <1>4 DEF DesktopInv, DesktopTypeOK, CommandHasItsSlot, SettledIsOff, BridgeNotAbandoned,
       ExitReady, ActorEndsFor, BridgeKeeps, BridgeStates
  <2>4. GateHolds'
    BY <1>4 DEF DesktopInv, DesktopTypeOK, CommandHasItsSlot, GateHolds, RecoveryRequired,
       ActorEndsFor, BridgeKeeps, DiskStates, CommandStates, ConfigureCommands, ExitCommands,
    AckCommands, Resting
  <2> QED BY <2>1, <2>2, <2>3, <2>4 DEF DesktopInv
<1>5. CASE StartRefused
  <2>1. DesktopTypeOK'
    BY <1>5 DEF DesktopInv, DesktopTypeOK, StartRefused, HostKeeps, HostRests
  <2>2. CommandHasItsSlot' /\ SnapshotIsFrozen'
    BY <1>5 DEF DesktopInv, DesktopTypeOK, CommandHasItsSlot, SnapshotIsFrozen, StartRefused,
       HostKeeps, HostRests, BridgeStates, CommandStates, ConfigureCommands, ExitCommands,
    AckCommands, Resting
  <2>3. SettledIsOff' /\ BridgeNotAbandoned'
    BY <1>5 DEF DesktopInv, DesktopTypeOK, CommandHasItsSlot, SettledIsOff, BridgeNotAbandoned,
       ExitReady, StartRefused, HostKeeps, HostRests, BridgeStates
  <2>4. GateHolds'
    BY <1>5 DEF DesktopInv, DesktopTypeOK, CommandHasItsSlot, GateHolds, RecoveryRequired,
       StartRefused, HostKeeps, HostRests, DiskStates, CommandStates, ConfigureCommands,
    ExitCommands, AckCommands, Resting
  <2> QED BY <2>1, <2>2, <2>3, <2>4 DEF DesktopInv
<1>6. CASE StartSent
  <2>0. EnsureBridge("start") /\ command = Resting /\ app = "up"
    BY <1>6 DEF StartSent, HostRests
  <2>1. DesktopTypeOK'
    BY <1>6, <2>0, EnsureBridgeKeeps DEF DesktopInv, DesktopTypeOK, StartSent, HostKeeps,
       CommandStates
  <2>2. CommandHasItsSlot' /\ SnapshotIsFrozen'
    BY <1>6, <2>0, EnsureBridgeKeeps DEF DesktopInv, CommandHasItsSlot, SnapshotIsFrozen,
       StartSent, Resting
  <2>3. SettledIsOff' /\ BridgeNotAbandoned'
    BY <2>0, EnsureBridgeKeeps DEF DesktopInv, DesktopTypeOK, BridgeStates, CommandHasItsSlot,
       SettledIsOff, BridgeNotAbandoned, ExitReady
  <2>4. GateHolds'
    BY <1>6, <2>0, EnsureBridgeKeeps DEF DesktopInv, DesktopTypeOK, GateHolds, RecoveryRequired,
       StartSent, HostKeeps, Resting
  <2> QED BY <2>1, <2>2, <2>3, <2>4 DEF DesktopInv
<1>7. CASE StartReturned
  <2>1. DesktopTypeOK'
    <3>1. command' \in CommandStates
      BY <1>7 DEF DesktopInv, DesktopTypeOK, StartReturned, HostKeeps, Returns, CommandStates,
         ConfigureCommands, ExitCommands, AckCommands, Resting
    <3> QED BY <1>7, <3>1 DEF DesktopInv, DesktopTypeOK, StartReturned, HostKeeps, Returns
  <2>2. CommandHasItsSlot' /\ SnapshotIsFrozen'
    BY <1>7 DEF DesktopInv, DesktopTypeOK, CommandHasItsSlot, SnapshotIsFrozen, StartReturned,
       HostKeeps, Returns, BridgeStates, CommandStates, ConfigureCommands, ExitCommands,
    AckCommands, Resting
  <2>3. SettledIsOff' /\ BridgeNotAbandoned'
    BY <1>7 DEF DesktopInv, DesktopTypeOK, CommandHasItsSlot, SettledIsOff, BridgeNotAbandoned,
       ExitReady, StartReturned, HostKeeps, Returns, BridgeStates
  <2>4. GateHolds'
    BY <1>7 DEF DesktopInv, DesktopTypeOK, CommandHasItsSlot, GateHolds, RecoveryRequired,
       StartReturned, HostKeeps, Returns, DiskStates, CommandStates, ConfigureCommands,
    ExitCommands, AckCommands, Resting
  <2> QED BY <2>1, <2>2, <2>3, <2>4 DEF DesktopInv
<1>8. CASE StopSent
  <2>1. DesktopTypeOK'
    <3>1. bridges' \in [1..MaxBridges -> BridgeStates]
      <4>1. bridges \in [1..MaxBridges -> BridgeStates] /\ slot \in 1..MaxBridges /\ bridges[slot] \in BridgeStates
        BY <1>8 DEF DesktopInv, DesktopTypeOK, CommandHasItsSlot, StopSent
      <4>3. bridges'[slot] \in BridgeStates
        BY <1>8, <4>1 DEF StopSent, BridgeStates
      <4>4. bridges' = [bridges EXCEPT ![slot] = bridges'[slot]]
        BY <1>8, <4>1 DEF StopSent
      <4> QED BY <4>1, <4>3, <4>4
    <3>2. command' \in CommandStates
      BY <1>8 DEF DesktopInv, DesktopTypeOK, StopSent, HostKeeps, HostRests, CommandStates,
         ConfigureCommands, ExitCommands, AckCommands, Resting
    <3> QED BY <1>8, <3>1, <3>2 DEF DesktopInv, DesktopTypeOK, StopSent, HostKeeps, HostRests
  <2>2. CommandHasItsSlot' /\ SnapshotIsFrozen'
    BY <1>8 DEF DesktopInv, DesktopTypeOK, CommandHasItsSlot, SnapshotIsFrozen, StopSent,
       HostKeeps, HostRests, BridgeStates, CommandStates, ConfigureCommands, ExitCommands,
    AckCommands, Resting
  <2>3. SettledIsOff' /\ BridgeNotAbandoned'
    BY <1>8 DEF DesktopInv, DesktopTypeOK, CommandHasItsSlot, SettledIsOff, BridgeNotAbandoned,
       ExitReady, StopSent, HostKeeps, HostRests, BridgeStates
  <2>4. GateHolds'
    BY <1>8 DEF DesktopInv, DesktopTypeOK, CommandHasItsSlot, GateHolds, RecoveryRequired,
       StopSent, HostKeeps, HostRests, DiskStates, CommandStates, ConfigureCommands,
    ExitCommands, AckCommands, Resting
  <2> QED BY <2>1, <2>2, <2>3, <2>4 DEF DesktopInv
<1>9. CASE StopReturned
  <2>1. DesktopTypeOK'
    <3>1. command' \in CommandStates
      BY <1>9 DEF DesktopInv, DesktopTypeOK, StopReturned, HostKeeps, HostRests, Returns,
         CommandStates, ConfigureCommands, ExitCommands, AckCommands, Resting
    <3> QED BY <1>9, <3>1 DEF DesktopInv, DesktopTypeOK, StopReturned, HostKeeps, HostRests, Returns
  <2>2. CommandHasItsSlot' /\ SnapshotIsFrozen'
    BY <1>9 DEF DesktopInv, DesktopTypeOK, CommandHasItsSlot, SnapshotIsFrozen, StopReturned,
       HostKeeps, HostRests, Returns, BridgeStates, CommandStates, ConfigureCommands,
    ExitCommands, AckCommands, Resting
  <2>3. SettledIsOff' /\ BridgeNotAbandoned'
    BY <1>9 DEF DesktopInv, DesktopTypeOK, CommandHasItsSlot, SettledIsOff, BridgeNotAbandoned,
       ExitReady, StopReturned, HostKeeps, HostRests, Returns, BridgeStates
  <2>4. GateHolds'
    BY <1>9 DEF DesktopInv, DesktopTypeOK, CommandHasItsSlot, GateHolds, RecoveryRequired,
       StopReturned, HostKeeps, HostRests, Returns, DiskStates, CommandStates, ConfigureCommands,
    ExitCommands, AckCommands, Resting
  <2> QED BY <2>1, <2>2, <2>3, <2>4 DEF DesktopInv
<1>10. CASE TurnSent
  <2>0. EnsureBridge("none") /\ command = Resting /\ app = "up"
    BY <1>10 DEF TurnSent, HostRests
  <2>1. DesktopTypeOK'
    BY <1>10, <2>0, EnsureBridgeKeeps DEF DesktopInv, DesktopTypeOK, TurnSent, HostKeeps,
       CommandStates
  <2>2. CommandHasItsSlot' /\ SnapshotIsFrozen'
    BY <1>10, <2>0, EnsureBridgeKeeps DEF DesktopInv, CommandHasItsSlot, SnapshotIsFrozen,
       TurnSent, Resting
  <2>3. SettledIsOff' /\ BridgeNotAbandoned'
    BY <2>0, EnsureBridgeKeeps DEF DesktopInv, DesktopTypeOK, BridgeStates, CommandHasItsSlot,
       SettledIsOff, BridgeNotAbandoned, ExitReady
  <2>4. GateHolds'
    BY <1>10, <2>0, EnsureBridgeKeeps DEF DesktopInv, DesktopTypeOK, GateHolds, RecoveryRequired,
       TurnSent, HostKeeps, Resting
  <2> QED BY <2>1, <2>2, <2>3, <2>4 DEF DesktopInv
<1>11. ASSUME NEW input \in ConfigInputs, ConfigureCalled(input) PROVE DesktopInv'
  <2>1. DesktopTypeOK'
    <3>1. command' \in CommandStates
      BY <1>11 DEF DesktopInv, DesktopTypeOK, ConfigureCalled, HostKeeps, HostRests,
         ConfigInputs, CommandStates, ConfigureCommands, ExitCommands, AckCommands, Resting
    <3> QED BY <1>11, <3>1 DEF DesktopInv, DesktopTypeOK, ConfigureCalled, HostKeeps, HostRests, ConfigInputs
  <2>2. CommandHasItsSlot' /\ SnapshotIsFrozen'
    BY <1>11 DEF DesktopInv, DesktopTypeOK, CommandHasItsSlot, SnapshotIsFrozen, ConfigureCalled,
       HostKeeps, HostRests, ConfigInputs, BridgeStates, CommandStates, ConfigureCommands,
    ExitCommands, AckCommands, Resting
  <2>3. SettledIsOff' /\ BridgeNotAbandoned'
    BY <1>11 DEF DesktopInv, DesktopTypeOK, CommandHasItsSlot, SettledIsOff, BridgeNotAbandoned,
       ExitReady, ConfigureCalled, HostKeeps, HostRests, ConfigInputs, BridgeStates
  <2>4. GateHolds'
    BY <1>11 DEF DesktopInv, DesktopTypeOK, CommandHasItsSlot, GateHolds, RecoveryRequired,
       ConfigureCalled, HostKeeps, HostRests, ConfigInputs, DiskStates, CommandStates,
    ConfigureCommands, ExitCommands, AckCommands, Resting
  <2> QED BY <2>1, <2>2, <2>3, <2>4 DEF DesktopInv
<1>12. CASE ShutdownAsked
  <2>1. DesktopTypeOK'
    <3>1. bridges' \in [1..MaxBridges -> BridgeStates]
      <4>1. bridges \in [1..MaxBridges -> BridgeStates] /\ slot \in 1..MaxBridges /\ bridges[slot] \in BridgeStates
        BY <1>12 DEF DesktopInv, DesktopTypeOK, CommandHasItsSlot, ShutdownAsked
      <4>3. bridges'[slot] \in BridgeStates
        BY <1>12, <4>1 DEF ShutdownAsked, BridgeStates
      <4>4. bridges' = [bridges EXCEPT ![slot] = bridges'[slot]]
        BY <1>12, <4>1 DEF ShutdownAsked
      <4> QED BY <4>1, <4>3, <4>4
    <3>2. command' \in CommandStates
      <4>1. command \in ConfigureCommands \/ command \in ExitCommands
        BY <1>12 DEF DesktopInv, DesktopTypeOK, ShutdownAsked, CommandStates, AckCommands, Resting
      <4>2. command' = [command EXCEPT !.at = "wait"]
        BY <1>12 DEF ShutdownAsked
      <4>3. command' \in ConfigureCommands \/ command' \in ExitCommands
        BY <4>1, <4>2 DEF ConfigureCommands, ExitCommands
      <4> QED BY <4>3 DEF CommandStates
    <3> QED BY <1>12, <3>1, <3>2 DEF DesktopInv, DesktopTypeOK, ShutdownAsked, HostKeeps
  <2>2. CommandHasItsSlot' /\ SnapshotIsFrozen'
    BY <1>12 DEF DesktopInv, DesktopTypeOK, CommandHasItsSlot, SnapshotIsFrozen, ShutdownAsked,
       HostKeeps, BridgeStates, CommandStates, ConfigureCommands, ExitCommands, AckCommands,
    Resting
  <2>3. SettledIsOff' /\ BridgeNotAbandoned'
    BY <1>12 DEF DesktopInv, DesktopTypeOK, CommandHasItsSlot, SettledIsOff, BridgeNotAbandoned,
       ExitReady, ShutdownAsked, HostKeeps, BridgeStates
  <2>4. GateHolds'
    BY <1>12 DEF DesktopInv, DesktopTypeOK, CommandHasItsSlot, GateHolds, RecoveryRequired,
       ShutdownAsked, HostKeeps, DiskStates, CommandStates, ConfigureCommands, ExitCommands,
    AckCommands, Resting
  <2> QED BY <2>1, <2>2, <2>3, <2>4 DEF DesktopInv
<1>13. CASE ShutdownRetries
  <2>1. DesktopTypeOK'
    <3>1. bridges' \in [1..MaxBridges -> BridgeStates]
      <4>1. bridges \in [1..MaxBridges -> BridgeStates] /\ slot \in 1..MaxBridges /\ bridges[slot] \in BridgeStates
        BY <1>13 DEF DesktopInv, DesktopTypeOK, CommandHasItsSlot, ShutdownRetries
      <4>3. bridges'[slot] \in BridgeStates
        BY <1>13, <4>1 DEF ShutdownRetries, BridgeStates
      <4>4. bridges' = [bridges EXCEPT ![slot] = bridges'[slot]]
        BY <1>13, <4>1 DEF ShutdownRetries
      <4> QED BY <4>1, <4>3, <4>4
    <3> QED BY <1>13, <3>1 DEF DesktopInv, DesktopTypeOK, ShutdownRetries, HostKeeps
  <2>2. CommandHasItsSlot' /\ SnapshotIsFrozen'
    BY <1>13 DEF DesktopInv, DesktopTypeOK, CommandHasItsSlot, SnapshotIsFrozen, ShutdownRetries,
       HostKeeps, BridgeStates, CommandStates, ConfigureCommands, ExitCommands, AckCommands,
    Resting
  <2>3. SettledIsOff' /\ BridgeNotAbandoned'
    BY <1>13 DEF DesktopInv, DesktopTypeOK, CommandHasItsSlot, SettledIsOff, BridgeNotAbandoned,
       ExitReady, ShutdownRetries, HostKeeps, BridgeStates
  <2>4. GateHolds'
    BY <1>13 DEF DesktopInv, DesktopTypeOK, CommandHasItsSlot, GateHolds, RecoveryRequired,
       ShutdownRetries, HostKeeps, DiskStates, CommandStates, ConfigureCommands, ExitCommands,
    AckCommands, Resting
  <2> QED BY <2>1, <2>2, <2>3, <2>4 DEF DesktopInv
<1>14. CASE ShutdownDone
  <2>1. DesktopTypeOK'
    <3>1. command' \in CommandStates
      BY <1>14 DEF DesktopInv, DesktopTypeOK, ShutdownDone, HostKeeps, CommandStates,
         ConfigureCommands, ExitCommands, AckCommands, Resting
    <3>2. disk' \in DiskStates
      BY <1>14 DEF DesktopInv, DesktopTypeOK, ShutdownDone, HostKeeps, DiskStates
    <3> QED BY <1>14, <3>1, <3>2 DEF DesktopInv, DesktopTypeOK, ShutdownDone, HostKeeps
  <2>2. CommandHasItsSlot' /\ SnapshotIsFrozen'
    BY <1>14 DEF DesktopInv, DesktopTypeOK, CommandHasItsSlot, SnapshotIsFrozen, ShutdownDone,
       HostKeeps, BridgeStates, CommandStates, ConfigureCommands, ExitCommands, AckCommands,
    Resting
  <2>3. SettledIsOff' /\ BridgeNotAbandoned'
    BY <1>14 DEF DesktopInv, DesktopTypeOK, CommandHasItsSlot, SettledIsOff, BridgeNotAbandoned,
       ExitReady, ShutdownDone, HostKeeps, BridgeStates
  <2>4. GateHolds'
    BY <1>14 DEF DesktopInv, DesktopTypeOK, CommandHasItsSlot, GateHolds, RecoveryRequired,
       ShutdownDone, HostKeeps, DiskStates, CommandStates, ConfigureCommands, ExitCommands,
    AckCommands, Resting
  <2> QED BY <2>1, <2>2, <2>3, <2>4 DEF DesktopInv
<1>15. CASE ShutdownFails
  <2>1. DesktopTypeOK'
    <3>1. command' \in CommandStates
      BY <1>15 DEF DesktopInv, DesktopTypeOK, ShutdownFails, HostKeeps, CommandStates,
         ConfigureCommands, ExitCommands, AckCommands, Resting
    <3> QED BY <1>15, <3>1 DEF DesktopInv, DesktopTypeOK, ShutdownFails, HostKeeps
  <2>2. CommandHasItsSlot' /\ SnapshotIsFrozen'
    BY <1>15 DEF DesktopInv, DesktopTypeOK, CommandHasItsSlot, SnapshotIsFrozen, ShutdownFails,
       HostKeeps, BridgeStates, CommandStates, ConfigureCommands, ExitCommands, AckCommands,
    Resting
  <2>3. SettledIsOff' /\ BridgeNotAbandoned'
    BY <1>15 DEF DesktopInv, DesktopTypeOK, CommandHasItsSlot, SettledIsOff, BridgeNotAbandoned,
       ExitReady, ShutdownFails, HostKeeps, BridgeStates
  <2>4. GateHolds'
    BY <1>15 DEF DesktopInv, DesktopTypeOK, CommandHasItsSlot, GateHolds, RecoveryRequired,
       ShutdownFails, HostKeeps, DiskStates, CommandStates, ConfigureCommands, ExitCommands,
    AckCommands, Resting
  <2> QED BY <2>1, <2>2, <2>3, <2>4 DEF DesktopInv
<1>16. CASE ConfigureReplaces
  <2>1. DesktopTypeOK'
    <3>1. command' \in CommandStates
      BY <1>16 DEF DesktopInv, DesktopTypeOK, ConfigureReplaces, HostKeeps, Returns,
         CommandStates, ConfigureCommands, ExitCommands, AckCommands, Resting
    <3> QED BY <1>16, <3>1 DEF DesktopInv, DesktopTypeOK, ConfigureReplaces, HostKeeps, Returns
  <2>2. CommandHasItsSlot' /\ SnapshotIsFrozen'
    BY <1>16 DEF DesktopInv, DesktopTypeOK, CommandHasItsSlot, SnapshotIsFrozen,
       ConfigureReplaces, HostKeeps, Returns, BridgeStates, CommandStates, ConfigureCommands,
    ExitCommands, AckCommands, Resting
  <2>3. SettledIsOff' /\ BridgeNotAbandoned'
    BY <1>16 DEF DesktopInv, DesktopTypeOK, CommandHasItsSlot, SettledIsOff, BridgeNotAbandoned,
       ExitReady, ConfigureReplaces, HostKeeps, Returns, BridgeStates
  <2>4. GateHolds'
    BY <1>16 DEF DesktopInv, DesktopTypeOK, CommandHasItsSlot, GateHolds, RecoveryRequired,
       ConfigureReplaces, HostKeeps, Returns, DiskStates, CommandStates, ConfigureCommands,
    ExitCommands, AckCommands, Resting
  <2> QED BY <2>1, <2>2, <2>3, <2>4 DEF DesktopInv
<1>17. CASE ConfigureSets
  <2>1. DesktopTypeOK'
    <3>1. command.arg \in Workspaces
      BY <1>17 DEF DesktopInv, DesktopTypeOK, ConfigureSets, CommandStates, ConfigureCommands,
         ExitCommands, AckCommands, Resting
    <3> QED BY <1>17, <3>1 DEF DesktopInv, DesktopTypeOK, ConfigureSets, HostKeeps, Returns, CommandStates
  <2>2. CommandHasItsSlot' /\ SnapshotIsFrozen'
    BY <1>17 DEF DesktopInv, DesktopTypeOK, CommandHasItsSlot, SnapshotIsFrozen, ConfigureSets,
       HostKeeps, Returns, BridgeStates, CommandStates, ConfigureCommands, ExitCommands,
    AckCommands, Resting
  <2>3. SettledIsOff' /\ BridgeNotAbandoned'
    BY <1>17 DEF DesktopInv, DesktopTypeOK, CommandHasItsSlot, SettledIsOff, BridgeNotAbandoned,
       ExitReady, ConfigureSets, HostKeeps, Returns, BridgeStates
  <2>4. GateHolds'
    BY <1>17 DEF DesktopInv, DesktopTypeOK, CommandHasItsSlot, GateHolds, RecoveryRequired,
       ConfigureSets, HostKeeps, Returns, DiskStates, CommandStates, ConfigureCommands,
    ExitCommands, AckCommands, Resting
  <2> QED BY <2>1, <2>2, <2>3, <2>4 DEF DesktopInv
<1>18. CASE AckCalled
  <2>1. DesktopTypeOK'
    <3>1. command' \in CommandStates
      BY <1>18 DEF DesktopInv, DesktopTypeOK, AckCalled, HostRests, Acknowledgeable, Confirms,
         CommandStates, ConfigureCommands, ExitCommands, AckCommands, Resting
    <3> QED BY <1>18, <3>1 DEF DesktopInv, DesktopTypeOK, AckCalled, HostRests, Acknowledgeable, Confirms
  <2>2. CommandHasItsSlot' /\ SnapshotIsFrozen'
    BY <1>18 DEF DesktopInv, DesktopTypeOK, CommandHasItsSlot, SnapshotIsFrozen, AckCalled,
       HostRests, Acknowledgeable, Confirms, BridgeStates, CommandStates, ConfigureCommands,
    ExitCommands, AckCommands, Resting
  <2>3. SettledIsOff' /\ BridgeNotAbandoned'
    BY <1>18 DEF DesktopInv, DesktopTypeOK, CommandHasItsSlot, SettledIsOff, BridgeNotAbandoned,
       ExitReady, AckCalled, HostRests, Acknowledgeable, Confirms, BridgeStates
  <2>4. GateHolds'
    BY <1>18 DEF DesktopInv, DesktopTypeOK, CommandHasItsSlot, GateHolds, RecoveryRequired,
       AckCalled, HostRests, Acknowledgeable, Confirms, DiskStates, CommandStates,
    ConfigureCommands, ExitCommands, AckCommands, Resting
  <2> QED BY <2>1, <2>2, <2>3, <2>4 DEF DesktopInv
<1>19. CASE AckWrites
  <2>1. DesktopTypeOK'
    <3>1. command' \in CommandStates
      BY <1>19 DEF DesktopInv, DesktopTypeOK, AckWrites, HostKeeps, Returns, CommandStates,
         ConfigureCommands, ExitCommands, AckCommands, Resting
    <3>2. disk' \in DiskStates
      <4>1. command.arg \in Nat /\ disk \in DiskStates
        BY <1>19 DEF DesktopInv, DesktopTypeOK, AckWrites, CommandStates, ConfigureCommands,
           ExitCommands,
                    AckCommands, Resting
      <4> QED BY <1>19, <4>1 DEF AckWrites, DiskStates, Returns
    <3> QED BY <1>19, <3>1, <3>2 DEF DesktopInv, DesktopTypeOK, AckWrites, HostKeeps, Returns
  <2>2. CommandHasItsSlot' /\ SnapshotIsFrozen'
    BY <1>19 DEF DesktopInv, DesktopTypeOK, CommandHasItsSlot, SnapshotIsFrozen, AckWrites,
       HostKeeps, Returns, BridgeStates, CommandStates, ConfigureCommands, ExitCommands,
    AckCommands, Resting
  <2>3. SettledIsOff' /\ BridgeNotAbandoned'
    BY <1>19 DEF DesktopInv, DesktopTypeOK, CommandHasItsSlot, SettledIsOff, BridgeNotAbandoned,
       ExitReady, AckWrites, HostKeeps, Returns, BridgeStates
  <2>4. GateHolds'
    BY <1>19 DEF DesktopInv, DesktopTypeOK, CommandHasItsSlot, GateHolds, RecoveryRequired,
       AckWrites, HostKeeps, Returns, DiskStates, CommandStates, ConfigureCommands, ExitCommands,
    AckCommands, Resting
  <2> QED BY <2>1, <2>2, <2>3, <2>4 DEF DesktopInv
<1>20. CASE AckRemoves
  <2>1. DesktopTypeOK'
    <3>1. command' \in CommandStates
      BY <1>20 DEF DesktopInv, DesktopTypeOK, AckRemoves, HostKeeps, Returns, CommandStates,
         ConfigureCommands, ExitCommands, AckCommands, Resting
    <3>2. disk' \in DiskStates
      BY <1>20 DEF DesktopInv, DesktopTypeOK, AckRemoves, HostKeeps, Returns, DiskStates
    <3> QED BY <1>20, <3>1, <3>2 DEF DesktopInv, DesktopTypeOK, AckRemoves, HostKeeps, Returns
  <2>2. CommandHasItsSlot' /\ SnapshotIsFrozen'
    BY <1>20 DEF DesktopInv, DesktopTypeOK, CommandHasItsSlot, SnapshotIsFrozen, AckRemoves,
       HostKeeps, Returns, BridgeStates, CommandStates, ConfigureCommands, ExitCommands,
    AckCommands, Resting
  <2>3. SettledIsOff' /\ BridgeNotAbandoned'
    BY <1>20 DEF DesktopInv, DesktopTypeOK, CommandHasItsSlot, SettledIsOff, BridgeNotAbandoned,
       ExitReady, AckRemoves, HostKeeps, Returns, BridgeStates
  <2>4. GateHolds'
    BY <1>20 DEF DesktopInv, DesktopTypeOK, CommandHasItsSlot, GateHolds, RecoveryRequired,
       AckRemoves, HostKeeps, Returns, DiskStates, CommandStates, ConfigureCommands,
    ExitCommands, AckCommands, Resting
  <2> QED BY <2>1, <2>2, <2>3, <2>4 DEF DesktopInv
<1>21. CASE ExitRequested
  <2>1. DesktopTypeOK'
    <3>1. command' \in CommandStates
      BY <1>21 DEF DesktopInv, DesktopTypeOK, ExitRequested, HostKeeps, HostRests, CommandStates,
         ConfigureCommands, ExitCommands, AckCommands, Resting
    <3> QED BY <1>21, <3>1 DEF DesktopInv, DesktopTypeOK, ExitRequested, HostKeeps, HostRests
  <2>2. CommandHasItsSlot' /\ SnapshotIsFrozen'
    BY <1>21 DEF DesktopInv, DesktopTypeOK, CommandHasItsSlot, SnapshotIsFrozen, ExitRequested,
       HostKeeps, HostRests, BridgeStates, CommandStates, ConfigureCommands, ExitCommands,
    AckCommands, Resting
  <2>3. SettledIsOff' /\ BridgeNotAbandoned'
    BY <1>21 DEF DesktopInv, DesktopTypeOK, CommandHasItsSlot, SettledIsOff, BridgeNotAbandoned,
       ExitReady, ExitRequested, HostKeeps, HostRests, BridgeStates
  <2>4. GateHolds'
    BY <1>21 DEF DesktopInv, DesktopTypeOK, CommandHasItsSlot, GateHolds, RecoveryRequired,
       ExitRequested, HostKeeps, HostRests, DiskStates, CommandStates, ConfigureCommands,
    ExitCommands, AckCommands, Resting
  <2> QED BY <2>1, <2>2, <2>3, <2>4 DEF DesktopInv
<1>22. CASE ExitCleaned
  <2>1. DesktopTypeOK'
    <3>1. command' \in CommandStates
      BY <1>22 DEF DesktopInv, DesktopTypeOK, ExitCleaned, Returns, CommandStates,
         ConfigureCommands, ExitCommands, AckCommands, Resting
    <3> QED BY <1>22, <3>1 DEF DesktopInv, DesktopTypeOK, ExitCleaned, Returns
  <2>2. CommandHasItsSlot' /\ SnapshotIsFrozen'
    BY <1>22 DEF DesktopInv, DesktopTypeOK, CommandHasItsSlot, SnapshotIsFrozen, ExitCleaned,
       Returns, BridgeStates, CommandStates, ConfigureCommands, ExitCommands, AckCommands, Resting
  <2>3. SettledIsOff' /\ BridgeNotAbandoned'
    BY <1>22 DEF DesktopInv, DesktopTypeOK, CommandHasItsSlot, SettledIsOff, BridgeNotAbandoned,
       ExitReady, ExitCleaned, Returns, BridgeStates
  <2>4. GateHolds'
    BY <1>22 DEF DesktopInv, DesktopTypeOK, CommandHasItsSlot, GateHolds, RecoveryRequired,
       ExitCleaned, Returns, DiskStates, CommandStates, ConfigureCommands, ExitCommands,
    AckCommands, Resting
  <2> QED BY <2>1, <2>2, <2>3, <2>4 DEF DesktopInv
<1>23. CASE ExitWithCode
  <2>1. DesktopTypeOK'
    BY <1>23 DEF DesktopInv, DesktopTypeOK, ExitWithCode, HostRests
  <2>2. CommandHasItsSlot' /\ SnapshotIsFrozen'
    BY <1>23 DEF DesktopInv, DesktopTypeOK, CommandHasItsSlot, SnapshotIsFrozen, ExitWithCode,
       HostRests, BridgeStates, CommandStates, ConfigureCommands, ExitCommands, AckCommands,
    Resting
  <2>3. SettledIsOff' /\ BridgeNotAbandoned'
    BY <1>23 DEF DesktopInv, DesktopTypeOK, CommandHasItsSlot, SettledIsOff, BridgeNotAbandoned,
       ExitReady, ExitWithCode, HostRests, BridgeStates
  <2>4. GateHolds'
    BY <1>23 DEF DesktopInv, DesktopTypeOK, CommandHasItsSlot, GateHolds, RecoveryRequired,
       ExitWithCode, HostRests, DiskStates, CommandStates, ConfigureCommands, ExitCommands,
    AckCommands, Resting
  <2> QED BY <2>1, <2>2, <2>3, <2>4 DEF DesktopInv
<1>24. CASE ExitUnready
  <2>1. DesktopTypeOK'
    BY <1>24 DEF DesktopInv, DesktopTypeOK, ExitUnready
  <2>2. CommandHasItsSlot' /\ SnapshotIsFrozen'
    BY <1>24 DEF DesktopInv, DesktopTypeOK, CommandHasItsSlot, SnapshotIsFrozen, ExitUnready,
       BridgeStates, CommandStates, ConfigureCommands, ExitCommands, AckCommands, Resting
  <2>3. SettledIsOff' /\ BridgeNotAbandoned'
    BY <1>24 DEF DesktopInv, DesktopTypeOK, CommandHasItsSlot, SettledIsOff, BridgeNotAbandoned,
       ExitReady, ExitUnready, BridgeStates
  <2>4. GateHolds'
    <3>1. owed = {} /\ disk.marker = 0 /\ disk.ack = 0 /\ ~disk.temp /\ command = Resting
      BY <1>24 DEF DesktopInv, GateHolds, ExitUnready, RecoveryRequired
    <3>2. identities' = identities + 1 /\ app' = "recording" /\ slot # 0
      BY <1>24 DEF ExitUnready
    <3>3. UNCHANGED <<slot, command, disk, owed>>
      BY <1>24 DEF ExitUnready
    <3> QED BY <3>1, <3>2, <3>3 DEF DesktopInv, DesktopTypeOK, GateHolds, RecoveryRequired, Resting
  <2> QED BY <2>1, <2>2, <2>3, <2>4 DEF DesktopInv
<1>31. CASE ExitWrites
  <2>1. DesktopTypeOK'
    <3>1. disk' \in DiskStates
      BY <1>31 DEF DesktopInv, DesktopTypeOK, ExitWrites, DiskStates
    <3> QED BY <1>31, <3>1 DEF DesktopInv, DesktopTypeOK, ExitWrites
  <2>2. CommandHasItsSlot' /\ SnapshotIsFrozen'
    BY <1>31 DEF DesktopInv, DesktopTypeOK, CommandHasItsSlot, SnapshotIsFrozen, ExitWrites,
       BridgeStates, CommandStates, ConfigureCommands, ExitCommands, AckCommands, Resting
  <2>3. SettledIsOff' /\ BridgeNotAbandoned'
    BY <1>31 DEF DesktopInv, DesktopTypeOK, CommandHasItsSlot, SettledIsOff, BridgeNotAbandoned,
       ExitReady, ExitWrites, BridgeStates
  <2>4. GateHolds'
    <3>1. owed = {} /\ disk.marker = 0 /\ disk.ack = 0 /\ command = Resting /\ identities # 0
      BY <1>31 DEF DesktopInv, GateHolds, ExitWrites, RecoveryRequired
    <3>2. owed' \in {{}, {identities}} /\ identities' = identities /\ app' = "writing"
      BY <1>31, <3>1 DEF ExitWrites
    <3>3. disk' = [disk EXCEPT !.temp = TRUE] /\ UNCHANGED <<slot, command>>
      BY <1>31 DEF ExitWrites
    <3> QED BY <3>1, <3>2, <3>3 DEF DesktopInv, DesktopTypeOK, GateHolds, RecoveryRequired, DiskStates, Resting
  <2> QED BY <2>1, <2>2, <2>3, <2>4 DEF DesktopInv
<1>25. CASE ExitRecorded
  <2>1. DesktopTypeOK'
    <3>1. bridges' \in [1..MaxBridges -> BridgeStates]
      BY <1>25 DEF DesktopInv, DesktopTypeOK, ExitRecorded, Gone, NoBridge, BridgeStates
    <3>2. command' \in CommandStates
      BY <1>25 DEF DesktopInv, DesktopTypeOK, ExitRecorded, Gone, NoBridge, CommandStates,
         ConfigureCommands, ExitCommands, AckCommands, Resting
    <3>3. disk' \in DiskStates
      BY <1>25 DEF DesktopInv, DesktopTypeOK, ExitRecorded, Gone, NoBridge, DiskStates
    <3> QED BY <1>25, <3>1, <3>2, <3>3 DEF DesktopInv, DesktopTypeOK, ExitRecorded, Gone, NoBridge
  <2>2. CommandHasItsSlot' /\ SnapshotIsFrozen'
    BY <1>25 DEF DesktopInv, DesktopTypeOK, CommandHasItsSlot, SnapshotIsFrozen, ExitRecorded,
       Gone, NoBridge, BridgeStates, CommandStates, ConfigureCommands, ExitCommands, AckCommands,
    Resting
  <2>3. SettledIsOff' /\ BridgeNotAbandoned'
    BY <1>25 DEF DesktopInv, DesktopTypeOK, CommandHasItsSlot, SettledIsOff, BridgeNotAbandoned,
       ExitReady, ExitRecorded, Gone, NoBridge, BridgeStates
  <2>4. GateHolds'
    BY <1>25 DEF DesktopInv, DesktopTypeOK, CommandHasItsSlot, GateHolds, RecoveryRequired,
       ExitRecorded, Gone, NoBridge, DiskStates, CommandStates, ConfigureCommands, ExitCommands,
    AckCommands, Resting
  <2> QED BY <2>1, <2>2, <2>3, <2>4 DEF DesktopInv
<1>26. CASE ExitReadyToGo
  <2>1. DesktopTypeOK'
    <3>1. bridges' \in [1..MaxBridges -> BridgeStates]
      BY <1>26 DEF DesktopInv, DesktopTypeOK, ExitReadyToGo, Gone, NoBridge, Alive, BridgeStates
    <3>2. command' \in CommandStates
      BY <1>26 DEF DesktopInv, DesktopTypeOK, ExitReadyToGo, Gone, NoBridge, Alive,
         CommandStates, ConfigureCommands, ExitCommands, AckCommands, Resting
    <3> QED BY <1>26, <3>1, <3>2 DEF DesktopInv, DesktopTypeOK, ExitReadyToGo, Gone, NoBridge, Alive
  <2>2. CommandHasItsSlot' /\ SnapshotIsFrozen'
    BY <1>26 DEF DesktopInv, DesktopTypeOK, CommandHasItsSlot, SnapshotIsFrozen, ExitReadyToGo,
       Gone, NoBridge, Alive, BridgeStates, CommandStates, ConfigureCommands, ExitCommands,
    AckCommands, Resting
  <2>3. SettledIsOff' /\ BridgeNotAbandoned'
    BY <1>26 DEF DesktopInv, DesktopTypeOK, CommandHasItsSlot, SettledIsOff, BridgeNotAbandoned,
       ExitReady, ExitReadyToGo, Gone, NoBridge, Alive, BridgeStates
  <2>4. GateHolds'
    <3>1. owed' = owed
      BY <1>26 DEF DesktopInv, ExitReadyToGo, BridgeNotAbandoned, SettledIsOff, Alive
    <3> QED BY <1>26, <3>1 DEF DesktopInv, GateHolds, RecoveryRequired, ExitReadyToGo, Gone, Resting
  <2> QED BY <2>1, <2>2, <2>3, <2>4 DEF DesktopInv
<1>27. CASE RecordSpoiled
  <2>1. DesktopTypeOK'
    <3>1. disk' \in DiskStates
      BY <1>27 DEF DesktopInv, DesktopTypeOK, RecordSpoiled, DiskStates
    <3> QED BY <1>27, <3>1 DEF DesktopInv, DesktopTypeOK, RecordSpoiled
  <2>2. CommandHasItsSlot' /\ SnapshotIsFrozen'
    BY <1>27 DEF DesktopInv, DesktopTypeOK, CommandHasItsSlot, SnapshotIsFrozen, RecordSpoiled,
       BridgeStates, CommandStates, ConfigureCommands, ExitCommands, AckCommands, Resting
  <2>3. SettledIsOff' /\ BridgeNotAbandoned'
    BY <1>27 DEF DesktopInv, DesktopTypeOK, CommandHasItsSlot, SettledIsOff, BridgeNotAbandoned,
       ExitReady, RecordSpoiled, BridgeStates
  <2>4. GateHolds'
    BY <1>27 DEF DesktopInv, DesktopTypeOK, CommandHasItsSlot, GateHolds, RecoveryRequired,
       RecordSpoiled, DiskStates, CommandStates, ConfigureCommands, ExitCommands, AckCommands,
    Resting
  <2> QED BY <2>1, <2>2, <2>3, <2>4 DEF DesktopInv
<1>28. CASE Killed
  <2>1. DesktopTypeOK'
    <3>1. bridges' \in [1..MaxBridges -> BridgeStates]
      BY <1>28 DEF DesktopInv, DesktopTypeOK, Killed, Gone, NoBridge, BridgeStates
    <3>2. command' \in CommandStates
      BY <1>28 DEF DesktopInv, DesktopTypeOK, Killed, Gone, NoBridge, CommandStates,
         ConfigureCommands, ExitCommands, AckCommands, Resting
    <3> QED BY <1>28, <3>1, <3>2 DEF DesktopInv, DesktopTypeOK, Killed, Gone, NoBridge
  <2>2. CommandHasItsSlot' /\ SnapshotIsFrozen'
    BY <1>28 DEF DesktopInv, DesktopTypeOK, CommandHasItsSlot, SnapshotIsFrozen, Killed, Gone,
       NoBridge, BridgeStates, CommandStates, ConfigureCommands, ExitCommands, AckCommands,
    Resting
  <2>3. SettledIsOff' /\ BridgeNotAbandoned'
    BY <1>28 DEF DesktopInv, DesktopTypeOK, CommandHasItsSlot, SettledIsOff, BridgeNotAbandoned,
       ExitReady, Killed, Gone, NoBridge, BridgeStates
  <2>4. GateHolds'
    BY <1>28 DEF DesktopInv, DesktopTypeOK, CommandHasItsSlot, GateHolds, RecoveryRequired,
       Killed, Gone, NoBridge, DiskStates, CommandStates, ConfigureCommands, ExitCommands,
    AckCommands, Resting
  <2> QED BY <2>1, <2>2, <2>3, <2>4 DEF DesktopInv
<1>29. ASSUME NEW l \in Layouts, Launch(l) PROVE DesktopInv'
  <2>1. DesktopTypeOK'
    BY <1>29 DEF DesktopInv, DesktopTypeOK, Launch
  <2>2. CommandHasItsSlot' /\ SnapshotIsFrozen'
    BY <1>29 DEF DesktopInv, DesktopTypeOK, CommandHasItsSlot, SnapshotIsFrozen, Launch,
       BridgeStates, CommandStates, ConfigureCommands, ExitCommands, AckCommands, Resting
  <2>3. SettledIsOff' /\ BridgeNotAbandoned'
    BY <1>29 DEF DesktopInv, DesktopTypeOK, CommandHasItsSlot, SettledIsOff, BridgeNotAbandoned,
       ExitReady, Launch, BridgeStates
  <2>4. GateHolds'
    BY <1>29 DEF DesktopInv, DesktopTypeOK, CommandHasItsSlot, GateHolds, RecoveryRequired,
       Launch, DiskStates, CommandStates, ConfigureCommands, ExitCommands, AckCommands, Resting
  <2> QED BY <2>1, <2>2, <2>3, <2>4 DEF DesktopInv
<1>30. QED BY <1>1, <1>2, <1>3, <1>4, <1>5, <1>6, <1>7, <1>8, <1>9, <1>10, <1>11, <1>12, <1>13, <1>14, <1>15, <1>16, <1>17, <1>18, <1>19, <1>20, <1>21, <1>22, <1>23, <1>24, <1>25, <1>26, <1>27, <1>28, <1>29, <1>31 DEF DesktopNext

\* The host's invariant holds in every reachable state.
THEOREM DesktopIsConsistent == DesktopSpec => []DesktopInv
<1>1. DesktopInit => DesktopInv
  BY DesktopAssumption
     DEF DesktopInit, NoBridge, Resting, DesktopInv, DesktopTypeOK, CommandHasItsSlot,
     SnapshotIsFrozen,
         SettledIsOff, BridgeNotAbandoned, GateHolds, RecoveryRequired, ExitReady, BridgeStates,
         CommandStates,
         DiskStates
<1>2. ASSUME DesktopInv, UNCHANGED desktopVars
      PROVE  DesktopInv'
  BY <1>2 DEF desktopVars, DesktopInv, DesktopTypeOK, CommandHasItsSlot, SnapshotIsFrozen,
     SettledIsOff,
              BridgeNotAbandoned, GateHolds, RecoveryRequired, ExitReady
<1> QED BY <1>1, <1>2, DesktopStep, PTL DEF DesktopSpec

\* The host's slot and binding speak of the bridge that runs, in every order of
\* configure, start, stop, late replies, deaths and exits (host.rs).
THEOREM HostKeepsItsBridge == DesktopSpec => []HostOwnsItsBridge
<1>1. DesktopInv => HostOwnsItsBridge
  BY DEF DesktopInv, HostOwnsItsBridge, BindingMatchesRuntime, ReadAdmitted, SnapshotIsFrozen
<1> QED BY <1>1, DesktopIsConsistent, PTL

\* A forced exit that reached the disk and that nobody accounted for keeps every later
\* launch behind the gate, wherever its record or its confirmation was interrupted
\* (config.rs).
THEOREM ForcedExitStaysGated == DesktopSpec => []ForcedExitGatesLaunch
<1>1. DesktopInv => ForcedExitGatesLaunch
  BY DEF DesktopInv, GateHolds, ForcedExitGatesLaunch
<1> QED BY <1>1, DesktopIsConsistent, PTL

-----------------------------------------------------------------------------
(* The end of a captured process group (module GroupKill). *)

KillerStates ==
  [at : {"check", "recheck", "signal", "hook", "states", "wait", "acknowledged", "final", "recheck direct",
         "signal direct", "same", "members", "member", "signal member", "sweep"},
   heard : Known \cup {"none", "present", "empty"}, direct : {"none", "present", "empty", "eperm"},
   released : BOOLEAN, left : SUBSET Known, allEmpty : BOOLEAN, fallback : BOOLEAN]

KillTypeOK ==
  /\ pidSlot \in [Pids -> {"free", "captured", "zombie", "stranger"}]
  /\ lead \in BOOLEAN /\ hooked \in BOOLEAN /\ wronged \in BOOLEAN /\ recent \subseteq Pids
  /\ killer \in KillerStates /\ outcome \in {"none", "ok", "lost", "eperm", "failed"}

\* Whom the killer is about to signal was identified by its last step.
IdentityIsFresh(p) == pidSlot[p] = "stranger" => p \in recent

\* A stranger leads only under the target's number, and no signal is due without
\* the look that must come before it.
KillerLooked ==
  /\ lead => pidSlot["t"] = "stranger"
  /\ killer.at \in {"member", "signal member"} => killer.heard \in Known
  /\ outcome = "none" /\ killer.at \in {"signal", "signal direct"} => IdentityIsFresh("t")
  /\ outcome = "none" /\ killer.at = "signal member" => IdentityIsFresh(killer.heard)

\* Everything the end of a group keeps true between two steps.
KillInv == KillTypeOK /\ GroupEndIsSafe /\ KillerLooked

\* What the answers of the kernel imply: an empty group has nobody alive, and an
\* identity is only confirmed for a process that is still there.
LEMMA KernelAnswers ==
  ASSUME KillTypeOK
  PROVE  /\ "empty" \in GroupStates => AliveMembers = {}
         /\ \A p \in Pids : TRUE \in Identified(p) => pidSlot[p] \in {"captured", "zombie"}
         /\ \A p \in Pids : Identified(p) \subseteq BOOLEAN
         /\ \A p \in Pids : PidStates(p) \subseteq {"present", "empty", "eperm"}
         /\ GroupStates \subseteq {"present", "empty", "eperm"}
         /\ Known \subseteq Pids /\ "t" \in Known
  BY PeersAssumption DEF KillTypeOK, GroupStates, Identified, PidStates, Pids, AliveMembers, Known

\* The steps of the processes and of the killer keep the invariant.
LEMMA KillStep ==
  ASSUME KillInv, GroupKillNext
  PROVE  KillInv'
<1> USE KernelAnswers DEF KillInv
<1>1. ASSUME NEW p \in Pids, MemberExits(p) PROVE KillInv'
  <2>2. KillTypeOK'
    BY <1>1 DEF KillTypeOK, MemberExits, Others
  <2>3. GroupEndIsSafe'
    BY <1>1 DEF KillTypeOK, GroupEndIsSafe, EndedGroupIsDead, NoKnownStrangerHit, KillerLooked,
       IdentityIsFresh, AliveMembers, MemberExits, Others
  <2>4. KillerLooked'
    BY <1>1 DEF KillTypeOK, KillerStates, KillerLooked, IdentityIsFresh, MemberExits, Others
  <2> QED BY <2>2, <2>3, <2>4
<1>2. ASSUME NEW p \in Pids, MemberReaped(p) PROVE KillInv'
  <2>2. KillTypeOK'
    BY <1>2 DEF KillTypeOK, MemberReaped, Others
  <2>3. GroupEndIsSafe'
    BY <1>2 DEF KillTypeOK, GroupEndIsSafe, EndedGroupIsDead, NoKnownStrangerHit, KillerLooked,
       IdentityIsFresh, AliveMembers, MemberReaped, Others
  <2>4. KillerLooked'
    BY <1>2 DEF KillTypeOK, KillerStates, KillerLooked, IdentityIsFresh, MemberReaped, Others
  <2> QED BY <2>2, <2>3, <2>4
<1>3. ASSUME NEW p \in Pids, NumberReused(p) PROVE KillInv'
  <2>2. KillTypeOK'
    BY <1>3 DEF KillTypeOK, NumberReused, Others, Pids
  <2>3. GroupEndIsSafe'
    BY <1>3 DEF KillTypeOK, GroupEndIsSafe, EndedGroupIsDead, NoKnownStrangerHit, KillerLooked,
       IdentityIsFresh, AliveMembers, NumberReused, Others, Pids
  <2>4. KillerLooked'
    BY <1>3 DEF KillTypeOK, KillerStates, KillerLooked, IdentityIsFresh, NumberReused, Others,
       Pids
  <2> QED BY <2>2, <2>3, <2>4
<1>4. CASE MemberForks
  <2>2. KillTypeOK'
    BY <1>4 DEF KillTypeOK, MemberForks, Others, Pids
  <2>3. GroupEndIsSafe'
    BY <1>4 DEF KillTypeOK, GroupEndIsSafe, EndedGroupIsDead, NoKnownStrangerHit, KillerLooked,
       IdentityIsFresh, AliveMembers, MemberForks, Others, Pids
  <2>4. KillerLooked'
    BY <1>4 DEF KillTypeOK, KillerStates, KillerLooked, IdentityIsFresh, MemberForks, Others, Pids
  <2> QED BY <2>2, <2>3, <2>4
<1>5. CASE KillChecks("check", "recheck")
  <2>0. \/ UNCHANGED killer
        \/ killer' = [killer EXCEPT !.at = "recheck"]
    BY <1>5 DEF KillChecks, KillerStep, KillerEnds, Goto, Looks
  <2>1. killer' \in KillerStates
    <3>1. CASE UNCHANGED killer
      BY <3>1 DEF KillTypeOK
    <3>2. CASE ~UNCHANGED killer
      BY <2>0, <3>2 DEF KillTypeOK, KillerStates
    <3> QED BY <3>1, <3>2
  <2>2. KillTypeOK'
    BY <1>5, <2>1 DEF KillTypeOK, KillChecks, KillerStep, KillerEnds, Goto, Looks
  <2>3. GroupEndIsSafe'
    BY <1>5 DEF KillTypeOK, GroupEndIsSafe, EndedGroupIsDead, NoKnownStrangerHit, KillerLooked,
       IdentityIsFresh, AliveMembers, KillChecks, KillerStep, KillerEnds, Goto, Looks
  <2>4. killer'.at \notin {"signal", "signal direct", "signal member"} /\ (killer'.at = "member" => killer'.heard \in Known)
    BY <1>5, <2>0 DEF KillTypeOK, KillerStates, KillerLooked, KillChecks
  <2>5. lead' => pidSlot'["t"] = "stranger"
    BY <1>5 DEF KillTypeOK, KillerLooked, KillChecks, KillerStep, KillerEnds, Goto, Looks
  <2> QED BY <2>2, <2>3, <2>4, <2>5 DEF KillerLooked
<1>6. CASE KillChecks("recheck", "signal")
  <2>0. \/ UNCHANGED killer
        \/ killer' = [killer EXCEPT !.at = "signal"]
    BY <1>6 DEF KillChecks, KillerStep, KillerEnds, Goto, Looks, Identified
  <2>1. killer' \in KillerStates
    <3>1. CASE UNCHANGED killer
      BY <3>1 DEF KillTypeOK
    <3>2. CASE ~UNCHANGED killer
      BY <2>0, <3>2 DEF KillTypeOK, KillerStates
    <3> QED BY <3>1, <3>2
  <2>2. KillTypeOK'
    BY <1>6, <2>1 DEF KillTypeOK, KillChecks, KillerStep, KillerEnds, Goto, Looks, Identified
  <2>3. GroupEndIsSafe'
    BY <1>6 DEF KillTypeOK, GroupEndIsSafe, EndedGroupIsDead, NoKnownStrangerHit, KillerLooked,
       IdentityIsFresh, AliveMembers, KillChecks, KillerStep, KillerEnds, Goto, Looks, Identified
  <2>4. KillerLooked'
    BY <1>6 DEF KillTypeOK, KillerStates, KillerLooked, IdentityIsFresh, KillChecks, KillerStep,
       KillerEnds, Goto, Looks, Identified
  <2> QED BY <2>2, <2>3, <2>4
<1>7. CASE GroupSignalled
  <2>1. killer' \in KillerStates
    BY <1>7, ZenonT(60) DEF KillTypeOK, KillerStates, GroupSignalled, KillerStep, Kills
  <2>2. KillTypeOK'
    BY <1>7, <2>1 DEF KillTypeOK, GroupSignalled, KillerStep, Kills
  <2>3. GroupEndIsSafe'
    <3>1. outcome = "none" /\ killer.at = "signal" /\ outcome' = outcome
      BY <1>7 DEF GroupSignalled, KillerStep
    <3>2. lead => "t" \in recent
      BY <3>1 DEF KillerLooked, IdentityIsFresh
    <3>3. wronged' = (wronged \/ (IF lead THEN {"t"} ELSE {}) \ recent # {}) \/ wronged' = wronged
      BY <1>7 DEF GroupSignalled, Kills, KillTypeOK
    <3>4. ~wronged'
      BY <3>2, <3>3 DEF KillTypeOK, GroupEndIsSafe, NoKnownStrangerHit
    <3> QED BY <3>1, <3>4 DEF GroupEndIsSafe, EndedGroupIsDead, NoKnownStrangerHit
  <2>4. killer'.at \notin {"signal", "signal direct", "signal member"} /\ (killer'.at = "member" => killer'.heard \in Known)
    BY <1>7, ZenonT(60) DEF KillTypeOK, KillerStates, KillerLooked, GroupSignalled, KillerStep,
       Kills
  <2>5. lead' => pidSlot'["t"] = "stranger"
    BY <1>7 DEF KillTypeOK, KillerLooked, GroupSignalled, KillerStep, Kills
  <2> QED BY <2>2, <2>3, <2>4, <2>5 DEF KillerLooked
<1>8. CASE HookReturns
  <2>1. killer' \in KillerStates
    BY <1>8, ZenonT(60) DEF KillTypeOK, KillerStates, HookReturns, KillerStep, Known
  <2>2. KillTypeOK'
    BY <1>8, <2>1 DEF KillTypeOK, HookReturns, KillerStep, Known
  <2>3. GroupEndIsSafe'
    BY <1>8 DEF KillTypeOK, GroupEndIsSafe, EndedGroupIsDead, NoKnownStrangerHit, KillerLooked,
       IdentityIsFresh, AliveMembers, HookReturns, KillerStep, Known
  <2>4. killer'.at \notin {"signal", "signal direct", "signal member"} /\ (killer'.at = "member" => killer'.heard \in Known)
    BY <1>8, ZenonT(60) DEF KillTypeOK, KillerStates, KillerLooked, HookReturns, KillerStep, Known
  <2>5. lead' => pidSlot'["t"] = "stranger"
    BY <1>8 DEF KillTypeOK, KillerLooked, HookReturns, KillerStep, Known
  <2> QED BY <2>2, <2>3, <2>4, <2>5 DEF KillerLooked
<1>9. CASE DirectProbed
  <2>1. killer' \in KillerStates
    BY <1>9, ZenonT(60) DEF KillTypeOK, KillerStates, DirectProbed, KillerStep, Looks, PidStates
  <2>2. KillTypeOK'
    BY <1>9, <2>1 DEF KillTypeOK, DirectProbed, KillerStep, Looks, PidStates
  <2>3. GroupEndIsSafe'
    BY <1>9 DEF KillTypeOK, GroupEndIsSafe, EndedGroupIsDead, NoKnownStrangerHit, KillerLooked,
       IdentityIsFresh, AliveMembers, DirectProbed, KillerStep, Looks, PidStates
  <2>4. killer'.at \notin {"signal", "signal direct", "signal member"} /\ (killer'.at = "member" => killer'.heard \in Known)
    BY <1>9 DEF KillTypeOK, KillerStates, KillerLooked, DirectProbed, KillerStep, Looks, PidStates
  <2>5. lead' => pidSlot'["t"] = "stranger"
    BY <1>9 DEF KillTypeOK, KillerLooked, DirectProbed, KillerStep, Looks, PidStates
  <2> QED BY <2>2, <2>3, <2>4, <2>5 DEF KillerLooked
<1>10. CASE GroupProbed
  <2>0. \/ UNCHANGED killer
        \/ killer' = [killer EXCEPT !.at = "members", !.left = Known, !.fallback = TRUE]
        \/ \E at \in {"recheck direct", "same", "wait", "acknowledged", "final"} : killer' = [killer EXCEPT !.at = at, !.direct = "none"]
    BY <1>10 DEF GroupProbed, KillerStep, KillerEnds, Looks, Denied
  <2>1. killer' \in KillerStates
    <3>1. CASE UNCHANGED killer
      BY <3>1 DEF KillTypeOK
    <3>2. CASE ~UNCHANGED killer
      BY <2>0, <3>2, ZenonT(60) DEF KillTypeOK, KillerStates
    <3> QED BY <3>1, <3>2
  <2>2. KillTypeOK'
    BY <1>10, <2>1 DEF KillTypeOK, GroupProbed, KillerStep, KillerEnds, Looks, Denied
  <2>3. GroupEndIsSafe'
    BY <1>10 DEF KillTypeOK, GroupEndIsSafe, EndedGroupIsDead, NoKnownStrangerHit, KillerLooked,
       IdentityIsFresh, AliveMembers, GroupProbed, KillerStep, KillerEnds, Looks, Denied
  <2>4. killer'.at \notin {"signal", "signal direct", "signal member"} /\ (killer'.at = "member" => killer'.heard \in Known)
    BY <1>10, <2>0 DEF KillTypeOK, KillerStates, KillerLooked, GroupProbed
  <2>5. lead' => pidSlot'["t"] = "stranger"
    BY <1>10 DEF KillTypeOK, KillerLooked, GroupProbed, KillerStep, KillerEnds, Looks, Denied
  <2> QED BY <2>2, <2>3, <2>4, <2>5 DEF KillerLooked
<1>11. CASE WaitRevalidates
  <2>0. \/ UNCHANGED killer
        \/ killer' = [killer EXCEPT !.at = "wait"]
    BY <1>11 DEF WaitRevalidates, KillerStep, KillerEnds, Goto, Looks
  <2>1. killer' \in KillerStates
    <3>1. CASE UNCHANGED killer
      BY <3>1 DEF KillTypeOK
    <3>2. CASE ~UNCHANGED killer
      BY <2>0, <3>2 DEF KillTypeOK, KillerStates
    <3> QED BY <3>1, <3>2
  <2>2. KillTypeOK'
    BY <1>11, <2>1 DEF KillTypeOK, WaitRevalidates, KillerStep, KillerEnds, Goto, Looks
  <2>3. GroupEndIsSafe'
    BY <1>11 DEF KillTypeOK, GroupEndIsSafe, EndedGroupIsDead, NoKnownStrangerHit, KillerLooked,
       IdentityIsFresh, AliveMembers, WaitRevalidates, KillerStep, KillerEnds, Goto, Looks
  <2>4. killer'.at \notin {"signal", "signal direct", "signal member"} /\ (killer'.at = "member" => killer'.heard \in Known)
    BY <1>11, <2>0 DEF KillTypeOK, KillerStates, KillerLooked, WaitRevalidates
  <2>5. lead' => pidSlot'["t"] = "stranger"
    BY <1>11 DEF KillTypeOK, KillerLooked, WaitRevalidates, KillerStep, KillerEnds, Goto, Looks
  <2> QED BY <2>2, <2>3, <2>4, <2>5 DEF KillerLooked
<1>12. CASE DirectChecked
  <2>1. killer' \in KillerStates
    BY <1>12 DEF KillTypeOK, KillerStates, DirectChecked, KillerStep, Goto, Looks, Identified
  <2>2. KillTypeOK'
    BY <1>12, <2>1 DEF KillTypeOK, DirectChecked, KillerStep, Goto, Looks, Identified
  <2>3. GroupEndIsSafe'
    BY <1>12 DEF KillTypeOK, GroupEndIsSafe, EndedGroupIsDead, NoKnownStrangerHit, KillerLooked,
       IdentityIsFresh, AliveMembers, DirectChecked, KillerStep, Goto, Looks, Identified
  <2>4. KillerLooked'
    BY <1>12 DEF KillTypeOK, KillerStates, KillerLooked, IdentityIsFresh, DirectChecked,
       KillerStep, Goto, Looks, Identified
  <2> QED BY <2>2, <2>3, <2>4
<1>13. CASE DirectSignalled
  <2>1. killer' \in KillerStates
    BY <1>13 DEF KillTypeOK, KillerStates, DirectSignalled, KillerStep, Goto, Kills
  <2>2. KillTypeOK'
    BY <1>13, <2>1 DEF KillTypeOK, DirectSignalled, KillerStep, Goto, Kills
  <2>3. GroupEndIsSafe'
    BY <1>13 DEF KillTypeOK, GroupEndIsSafe, EndedGroupIsDead, NoKnownStrangerHit, KillerLooked,
       IdentityIsFresh, AliveMembers, DirectSignalled, KillerStep, Goto, Kills
  <2>4. killer'.at \notin {"signal", "signal direct", "signal member"} /\ (killer'.at = "member" => killer'.heard \in Known)
    BY <1>13 DEF KillTypeOK, KillerStates, KillerLooked, DirectSignalled, KillerStep, Goto, Kills
  <2>5. lead' => pidSlot'["t"] = "stranger"
    BY <1>13 DEF KillTypeOK, KillerLooked, DirectSignalled, KillerStep, Goto, Kills
  <2> QED BY <2>2, <2>3, <2>4, <2>5 DEF KillerLooked
<1>14. ASSUME NEW p \in Known, MemberProbed(p) PROVE KillInv'
  <2>0. \/ UNCHANGED killer
        \/ killer' = [killer EXCEPT !.left = killer.left \ {p}]
        \/ killer' = [killer EXCEPT !.at = "member", !.left = killer.left \ {p}, !.heard = p]
    BY <1>14 DEF MemberProbed, KillerStep, KillerEnds, Looks
  <2>1. killer' \in KillerStates
    <3>1. CASE UNCHANGED killer
      BY <3>1 DEF KillTypeOK
    <3>2. CASE ~UNCHANGED killer
      <4>1. killer.left \ {p} \in SUBSET Known /\ p \in Known \cup {"none", "present", "empty"}
        BY DEF KillTypeOK, KillerStates
      <4> QED BY <2>0, <3>2, <4>1, ZenonT(60) DEF KillTypeOK, KillerStates
    <3> QED BY <3>1, <3>2
  <2>2. KillTypeOK'
    BY <1>14, <2>1 DEF KillTypeOK, MemberProbed, KillerStep, KillerEnds, Looks
  <2>3. GroupEndIsSafe'
    BY <1>14 DEF KillTypeOK, GroupEndIsSafe, EndedGroupIsDead, NoKnownStrangerHit, KillerLooked,
       IdentityIsFresh, AliveMembers, MemberProbed, KillerStep, KillerEnds, Looks
  <2>4. killer'.at \notin {"signal", "signal direct", "signal member"} /\ (killer'.at = "member" => killer'.heard \in Known)
    BY <1>14, <2>0 DEF KillTypeOK, KillerStates, KillerLooked, MemberProbed
  <2>5. lead' => pidSlot'["t"] = "stranger"
    BY <1>14 DEF KillTypeOK, KillerLooked, MemberProbed, KillerStep, KillerEnds, Looks
  <2> QED BY <2>2, <2>3, <2>4, <2>5 DEF KillerLooked
<1>15. ASSUME NEW p \in Known, SweepProbes(p) PROVE KillInv'
  <2>0. \/ UNCHANGED killer
        \/ \E e \in BOOLEAN : killer' = [killer EXCEPT !.left = killer.left \ {p}, !.allEmpty = killer.allEmpty /\ e]
    BY <1>15 DEF SweepProbes, KillerStep, KillerEnds, Looks
  <2>1. killer' \in KillerStates
    <3>1. CASE UNCHANGED killer
      BY <3>1 DEF KillTypeOK
    <3>2. CASE ~UNCHANGED killer
      <4>1. PICK e \in BOOLEAN :
              killer' = [killer EXCEPT !.left = killer.left \ {p}, !.allEmpty = killer.allEmpty /\ e]
        BY <2>0, <3>2
      <4>2. killer.left \ {p} \in SUBSET Known /\ (killer.allEmpty /\ e) \in BOOLEAN
        BY DEF KillTypeOK, KillerStates
      <4> QED BY <4>1, <4>2 DEF KillTypeOK, KillerStates
    <3> QED BY <3>1, <3>2
  <2>2. KillTypeOK'
    BY <1>15, <2>1 DEF KillTypeOK, SweepProbes, KillerStep, KillerEnds, Looks
  <2>3. GroupEndIsSafe'
    BY <1>15 DEF KillTypeOK, GroupEndIsSafe, EndedGroupIsDead, NoKnownStrangerHit, KillerLooked,
       IdentityIsFresh, AliveMembers, SweepProbes, KillerStep, KillerEnds, Looks
  <2>4. killer'.at \notin {"signal", "signal direct", "signal member"} /\ (killer'.at = "member" => killer'.heard \in Known)
    BY <1>15, <2>0 DEF KillTypeOK, KillerStates, KillerLooked, SweepProbes
  <2>5. lead' => pidSlot'["t"] = "stranger"
    BY <1>15 DEF KillTypeOK, KillerLooked, SweepProbes, KillerStep, KillerEnds, Looks
  <2> QED BY <2>2, <2>3, <2>4, <2>5 DEF KillerLooked
<1>16. CASE MemberChecked
  <2>0. \/ UNCHANGED killer
        \/ killer' = [killer EXCEPT !.at = "signal member"]
    BY <1>16 DEF MemberChecked, KillerStep, KillerEnds, Goto, Looks, Identified
  <2>1. killer' \in KillerStates
    <3>1. CASE UNCHANGED killer
      BY <3>1 DEF KillTypeOK
    <3>2. CASE ~UNCHANGED killer
      BY <2>0, <3>2 DEF KillTypeOK, KillerStates
    <3> QED BY <3>1, <3>2
  <2>2. KillTypeOK'
    BY <1>16, <2>1 DEF KillTypeOK, MemberChecked, KillerStep, KillerEnds, Goto, Looks, Identified
  <2>3. GroupEndIsSafe'
    BY <1>16 DEF KillTypeOK, GroupEndIsSafe, EndedGroupIsDead, NoKnownStrangerHit, KillerLooked,
       IdentityIsFresh, AliveMembers, MemberChecked, KillerStep, KillerEnds, Goto, Looks,
    Identified
  <2>4. KillerLooked'
    BY <1>16 DEF KillTypeOK, KillerStates, KillerLooked, IdentityIsFresh, MemberChecked,
       KillerStep, KillerEnds, Goto, Looks, Identified
  <2> QED BY <2>2, <2>3, <2>4
<1>17. CASE MemberSignalled
  <2>1. killer' \in KillerStates
    BY <1>17 DEF KillTypeOK, KillerStates, MemberSignalled, KillerStep, Goto, Kills
  <2>2. KillTypeOK'
    BY <1>17, <2>1 DEF KillTypeOK, MemberSignalled, KillerStep, Goto, Kills
  <2>3. GroupEndIsSafe'
    BY <1>17 DEF KillTypeOK, GroupEndIsSafe, EndedGroupIsDead, NoKnownStrangerHit, KillerLooked,
       IdentityIsFresh, AliveMembers, MemberSignalled, KillerStep, Goto, Kills
  <2>4. killer'.at \notin {"signal", "signal direct", "signal member"} /\ (killer'.at = "member" => killer'.heard \in Known)
    BY <1>17 DEF KillTypeOK, KillerStates, KillerLooked, MemberSignalled, KillerStep, Goto, Kills
  <2>5. lead' => pidSlot'["t"] = "stranger"
    BY <1>17 DEF KillTypeOK, KillerLooked, MemberSignalled, KillerStep, Goto, Kills
  <2> QED BY <2>2, <2>3, <2>4, <2>5 DEF KillerLooked
<1>18. CASE MembersDone
  <2>1. killer' \in KillerStates
    BY <1>18 DEF KillTypeOK, KillerStates, MembersDone, KillerStep, Looks
  <2>2. KillTypeOK'
    BY <1>18, <2>1 DEF KillTypeOK, MembersDone, KillerStep, Looks
  <2>3. GroupEndIsSafe'
    BY <1>18 DEF KillTypeOK, GroupEndIsSafe, EndedGroupIsDead, NoKnownStrangerHit, KillerLooked,
       IdentityIsFresh, AliveMembers, MembersDone, KillerStep, Looks
  <2>4. killer'.at \notin {"signal", "signal direct", "signal member"} /\ (killer'.at = "member" => killer'.heard \in Known)
    BY <1>18 DEF KillTypeOK, KillerStates, KillerLooked, MembersDone, KillerStep, Looks
  <2>5. lead' => pidSlot'["t"] = "stranger"
    BY <1>18 DEF KillTypeOK, KillerLooked, MembersDone, KillerStep, Looks
  <2> QED BY <2>2, <2>3, <2>4, <2>5 DEF KillerLooked
<1>19. CASE SweepEnds
  <2>0. \/ UNCHANGED killer
        \/ killer' = [killer EXCEPT !.left = Known, !.allEmpty = TRUE]
    BY <1>19 DEF SweepEnds, KillerStep, KillerEnds, Looks
  <2>1. killer' \in KillerStates
    <3>1. CASE UNCHANGED killer
      BY <3>1 DEF KillTypeOK
    <3>2. CASE ~UNCHANGED killer
      BY <2>0, <3>2 DEF KillTypeOK, KillerStates
    <3> QED BY <3>1, <3>2
  <2>2. KillTypeOK'
    BY <1>19, <2>1 DEF KillTypeOK, SweepEnds, KillerStep, KillerEnds, Looks
  <2>3. GroupEndIsSafe'
    BY <1>19 DEF KillTypeOK, GroupEndIsSafe, EndedGroupIsDead, NoKnownStrangerHit, KillerLooked,
       IdentityIsFresh, AliveMembers, SweepEnds, KillerStep, KillerEnds, Looks
  <2>4. killer'.at \notin {"signal", "signal direct", "signal member"} /\ (killer'.at = "member" => killer'.heard \in Known)
    BY <1>19, <2>0 DEF KillTypeOK, KillerStates, KillerLooked, SweepEnds
  <2>5. lead' => pidSlot'["t"] = "stranger"
    BY <1>19 DEF KillTypeOK, KillerLooked, SweepEnds, KillerStep, KillerEnds, Looks
  <2> QED BY <2>2, <2>3, <2>4, <2>5 DEF KillerLooked
<1>20. CASE KillerGivesUp
  <2>2. KillTypeOK'
    BY <1>20 DEF KillTypeOK, KillerGivesUp, KillerEnds, Looks
  <2>3. GroupEndIsSafe'
    BY <1>20 DEF KillTypeOK, GroupEndIsSafe, EndedGroupIsDead, NoKnownStrangerHit, KillerLooked,
       IdentityIsFresh, AliveMembers, KillerGivesUp, KillerEnds, Looks
  <2>4. KillerLooked'
    BY <1>20 DEF KillTypeOK, KillerStates, KillerLooked, IdentityIsFresh, KillerGivesUp,
       KillerEnds, Looks
  <2> QED BY <2>2, <2>3, <2>4
<1> QED BY <1>1, <1>2, <1>3, <1>4, <1>5, <1>6, <1>7, <1>8, <1>9, <1>10, <1>11, <1>12, <1>13, <1>14, <1>15, <1>16, <1>17, <1>18, <1>19, <1>20 DEF GroupKillNext

\* A group that is reported ended has nobody alive, and no signal hits a stranger
\* that held the number when the killer last looked, for any set of named members.
THEOREM GroupEndStaysSafe == GroupKillSpec => []GroupEndIsSafe
<1>1. ASSUME GroupKillInit
      PROVE  KillInv
  <2>1. killer \in KillerStates
    BY <1>1 DEF GroupKillInit, KillerStates
  <2>2. KillTypeOK
    BY <1>1, <2>1 DEF GroupKillInit, KillTypeOK
  <2> QED BY <1>1, <2>2 DEF GroupKillInit, KillInv, GroupEndIsSafe, EndedGroupIsDead, NoKnownStrangerHit, KillerLooked
<1>2. ASSUME KillInv, UNCHANGED killVars
      PROVE  KillInv'
  BY <1>2 DEF killVars, KillInv, KillerLooked, KillTypeOK, GroupEndIsSafe, EndedGroupIsDead,
     NoKnownStrangerHit,
              IdentityIsFresh, AliveMembers
<1>3. KillInv => GroupEndIsSafe
  BY DEF KillInv
<1> QED BY <1>1, <1>2, <1>3, KillStep, PTL DEF GroupKillSpec

-----------------------------------------------------------------------------
(* Preview sessions (module Preview). *)

EventKinds == {"opened", "navigated", "title", "closed"}

PreviewSessions ==
  [status : {"none", "open", "closed"}, gen : Nat, url : Urls \cup {"none"}, title : Urls \cup {"none"},
   q : Seq(Nat \X EventKinds), next : Nat \ {0}, dropped : Nat]

DrainStates == [count : Nat, last : Nat]

PreviewTypeOK ==
  /\ preview \in [PreviewIds -> PreviewSessions] /\ drained \in [PreviewIds -> DrainStates]
  /\ window \in [PreviewIds -> {"none", "building", "unwatched", "open", "gone", "lost"}]
  /\ loaded \in [PreviewIds -> Urls \cup {"none"}] /\ shownGen \in [PreviewIds -> Nat]

\* Every number below next is drained, queued or dropped, and the queue's numbers
\* rise above what was drained.
Counted(s, d) ==
  /\ d.count + Len(s.q) + s.dropped = s.next - 1
  /\ d.last < s.next
  /\ \A k \in 1..Len(s.q) : /\ s.q[k][1] > (IF k = 1 THEN d.last ELSE s.q[k - 1][1])
                            /\ s.q[k][1] < s.next

\* A closed session's queue ends with the event that says so.
ClosedIsLast(s) == s.status = "closed" => s.q = <<>> \/ s.q[Len(s.q)][2] = "closed"

\* A session and its window.
SessionHolds(i) ==
  /\ Counted(preview[i], drained[i]) /\ ClosedIsLast(preview[i])
  /\ preview[i].status = "none" =>
       preview[i] = NoPreview /\ drained[i] = [count |-> 0, last |-> 0] /\ window[i] = "none"
  /\ window[i] = "gone" => preview[i].status = "closed"

\* Everything the previews keep true between two steps.
PreviewInv == PreviewTypeOK /\ \A i \in PreviewIds : SessionHolds(i)

\* push_event counts what it adds and what makes room for it.
LEMMA PushEventCounts ==
  ASSUME NEW s \in PreviewSessions, NEW d \in DrainStates, NEW kind \in EventKinds, Counted(s, d)
  PROVE  LET t == PushEvent(s, kind)
         IN  /\ t \in PreviewSessions /\ Counted(t, d)
             /\ t.status = s.status /\ t.q # <<>> /\ t.q[Len(t.q)][2] = kind
<1> DEFINE room == IF Len(s.q) >= MaxPreviewEvents THEN Tail(s.q) ELSE s.q
           t == PushEvent(s, kind)
<1>1. s.q \in Seq(Nat \X EventKinds)
  BY DEF PreviewSessions
<1>2. /\ s.next \in Nat \ {0} /\ s.dropped \in Nat /\ d.count \in Nat /\ d.last \in Nat
      /\ MaxPreviewEvents \in Nat \ {0} /\ Len(s.q) \in Nat
      /\ \A j \in 1..Len(s.q) : s.q[j][1] \in Nat
  <2>1. \A j \in 1..Len(s.q) : s.q[j] \in Nat \X EventKinds
    BY <1>1
  <2> QED BY <1>1, <2>1, PreviewAssumption DEF PreviewSessions, DrainStates
<1>3. /\ room \in Seq(Nat \X EventKinds) /\ Len(room) \in Nat
      /\ Len(room) = IF Len(s.q) >= MaxPreviewEvents THEN Len(s.q) - 1 ELSE Len(s.q)
      /\ \A k \in 1..Len(room) : room[k] = s.q[IF Len(s.q) >= MaxPreviewEvents THEN k + 1 ELSE k]
  BY <1>1, <1>2
<1>4. /\ t.q = Append(room, <<s.next, kind>>) /\ t.next = s.next + 1 /\ t.status = s.status
      /\ t.dropped = IF Len(s.q) >= MaxPreviewEvents THEN s.dropped + 1 ELSE s.dropped
  BY DEF PushEvent, PreviewSessions
<1> HIDE DEF room
<1>5. /\ t.q \in Seq(Nat \X EventKinds) /\ Len(t.q) = Len(room) + 1
      /\ \A k \in 1..Len(room) : t.q[k] = room[k]
      /\ t.q[Len(room) + 1] = <<s.next, kind>>
  <2>1. <<s.next, kind>> \in Nat \X EventKinds
    BY <1>2
  <2> QED BY <1>3, <1>4, <2>1
<1>6. t \in PreviewSessions
  <2>1. t = [s EXCEPT !.next = t.next, !.dropped = t.dropped, !.q = t.q]
    BY DEF PushEvent, PreviewSessions
  <2>2. t.next \in Nat \ {0} /\ t.dropped \in Nat
    BY <1>2, <1>4
  <2> HIDE DEF t
  <2> QED BY <1>5, <2>1, <2>2 DEF PreviewSessions
<1> HIDE DEF t
<1>7. d.count + Len(t.q) + t.dropped = t.next - 1 /\ d.last < t.next
  <2> DEFINE dc == d.count
             dl == d.last
             sn == s.next
             sd == s.dropped
             sl == Len(s.q)
             tn == t.next
             td == t.dropped
             tl == Len(t.q)
             full == sl >= MaxPreviewEvents
  <2>1. /\ dc \in Nat /\ dl \in Nat /\ sn \in Nat /\ sd \in Nat /\ sl \in Nat
        /\ dc + sl + sd = sn - 1 /\ dl < sn
    BY <1>2 DEF Counted
  <2>2. tl = IF full THEN sl ELSE sl + 1
    BY <1>2, <1>3, <1>5
  <2>3. tn = sn + 1 /\ td = IF full THEN sd + 1 ELSE sd
    BY <1>4
  <2> HIDE DEF dc, dl, sn, sd, sl, tn, td, tl, full
  <2>4. dc + tl + td = tn - 1 /\ dl < tn
    BY <2>1, <2>2, <2>3
  <2> QED BY <2>4 DEF dc, dl, tn, td, tl
<1>8. ASSUME NEW k \in 1..Len(t.q)
      PROVE  t.q[k][1] > (IF k = 1 THEN d.last ELSE t.q[k - 1][1]) /\ t.q[k][1] < t.next
  <2>1. /\ d.last < s.next
        /\ \A j \in 1..Len(s.q) : /\ s.q[j][1] > (IF j = 1 THEN d.last ELSE s.q[j - 1][1])
                                  /\ s.q[j][1] < s.next
    BY DEF Counted
  <2>2. \A j \in 1..Len(room) : /\ room[j][1] > (IF j = 1 THEN d.last ELSE room[j - 1][1])
                                /\ room[j][1] < s.next /\ room[j][1] \in Nat
    <3>1. CASE Len(s.q) >= MaxPreviewEvents
      <4>1. Len(room) = Len(s.q) - 1 /\ \A j \in 1..Len(room) : room[j] = s.q[j + 1]
        BY <1>3, <3>1
      <4>2. TAKE j \in 1..Len(room)
      <4>3. j \in Nat /\ j + 1 \in 1..Len(s.q) /\ j \in 1..Len(s.q) /\ room[j] = s.q[j + 1] /\ j + 1 # 1
        BY <1>2, <4>1
      <4>4. s.q[j + 1][1] > s.q[j][1] /\ s.q[j + 1][1] < s.next /\ s.q[j][1] \in Nat /\ s.q[j + 1][1] \in Nat
        BY <1>2, <2>1, <4>3
      <4>5. CASE j = 1
        BY <1>2, <2>1, <4>3, <4>4, <4>5
      <4>6. CASE j # 1
        <5>1. room[j - 1] = s.q[j]
          BY <4>1, <4>3, <4>6
        <5> QED BY <4>3, <4>4, <4>6, <5>1
      <4> QED BY <4>5, <4>6
    <3>2. CASE ~(Len(s.q) >= MaxPreviewEvents)
      <4>1. room = s.q
        BY <3>2 DEF room
      <4> QED BY <1>2, <2>1, <4>1
    <3> QED BY <3>1, <3>2
  <2>3. CASE k = Len(room) + 1
    <3>1. t.q[k] = <<s.next, kind>> /\ t.q[k][1] = s.next
      BY <1>5, <2>3
    <3>2. k # 1 => k - 1 \in 1..Len(room)
      <4> DEFINE r == Len(room)
      <4>1. r \in Nat /\ k = r + 1
        BY <1>3, <2>3
      <4> HIDE DEF r
      <4>2. k # 1 => k - 1 \in 1..r
        BY <4>1
      <4> QED BY <4>2 DEF r
    <3>3. k # 1 => t.q[k - 1] = room[k - 1]
      BY <1>5, <3>2
    <3> QED BY <1>2, <1>4, <2>1, <2>2, <3>1, <3>2, <3>3
  <2>4. CASE k \in 1..Len(room)
    <3>1. t.q[k] = room[k] /\ (k # 1 => t.q[k - 1] = room[k - 1])
      BY <1>3, <1>5, <2>4, SMTT(40)
    <3> QED BY <1>2, <1>4, <2>2, <2>4, <3>1, SMTT(40)
  <2> QED BY <1>3, <1>5, <2>3, <2>4
<1>9. Counted(t, d)
  BY <1>7, <1>8 DEF Counted
<1> QED BY <1>4, <1>5, <1>6, <1>9, SMTT(40) DEF t

\* Closing a session is recorded in it, once.
LEMMA ClosedSessionCounts ==
  ASSUME NEW s \in PreviewSessions, NEW d \in DrainStates, Counted(s, d), ClosedIsLast(s), s.status # "none"
  PROVE  LET t == ClosedSession(s)
         IN  t \in PreviewSessions /\ Counted(t, d) /\ ClosedIsLast(t) /\ t.status = "closed"
<1>1. CASE s.status = "open"
  <2> DEFINE r == [s EXCEPT !.status = "closed"]
  <2>1. r \in PreviewSessions /\ r.status = "closed" /\ r.q = s.q /\ r.next = s.next /\ r.dropped = s.dropped
    BY DEF PreviewSessions
  <2>2. Counted(r, d)
    BY <2>1 DEF Counted
  <2> HIDE DEF r
  <2>3. LET t == PushEvent(r, "closed")
        IN  /\ t \in PreviewSessions /\ Counted(t, d)
            /\ t.status = r.status /\ t.q # <<>> /\ t.q[Len(t.q)][2] = "closed"
    BY <2>1, <2>2, PushEventCounts DEF EventKinds
  <2>4. ClosedSession(s) = PushEvent(r, "closed")
    BY <1>1 DEF ClosedSession, r
  <2> QED BY <2>1, <2>3, <2>4 DEF ClosedIsLast
<1>2. CASE s.status # "open"
  BY <1>2 DEF ClosedSession, PreviewSessions
<1> QED BY <1>1, <1>2

\* drain_events takes from the front and moves the mark to the last number it took.
LEMMA DrainCounts ==
  ASSUME NEW s \in PreviewSessions, NEW d \in DrainStates, Counted(s, d), ClosedIsLast(s),
         NEW n \in 1..Len(s.q)
  PROVE  LET t == [s EXCEPT !.q = SubSeq(s.q, n + 1, Len(s.q))]
             e == [count |-> d.count + n, last |-> s.q[n][1]]
         IN  t \in PreviewSessions /\ e \in DrainStates /\ Counted(t, e) /\ ClosedIsLast(t) /\ t.status = s.status
<1> DEFINE rest == SubSeq(s.q, n + 1, Len(s.q))
           t == [s EXCEPT !.q = rest]
           e == [count |-> d.count + n, last |-> s.q[n][1]]
<1>1. s.q \in Seq(Nat \X EventKinds)
  BY DEF PreviewSessions
<1>2. /\ s.next \in Nat \ {0} /\ s.dropped \in Nat /\ d.count \in Nat /\ d.last \in Nat
      /\ Len(s.q) \in Nat /\ n \in Nat /\ n <= Len(s.q)
      /\ \A j \in 1..Len(s.q) : s.q[j][1] \in Nat
  <2>1. \A j \in 1..Len(s.q) : s.q[j] \in Nat \X EventKinds
    BY <1>1
  <2> QED BY <1>1, <2>1 DEF PreviewSessions, DrainStates
<1>3. /\ rest \in Seq(Nat \X EventKinds) /\ Len(rest) = Len(s.q) - n
      /\ \A k \in 1..Len(rest) : rest[k] = s.q[k + n]
  BY <1>1, <1>2, SMTT(40)
<1> HIDE DEF rest
<1>4. /\ t \in PreviewSessions /\ t.status = s.status /\ t.q = rest /\ t.next = s.next /\ t.dropped = s.dropped
      /\ e \in DrainStates /\ e.count = d.count + n /\ e.last = s.q[n][1]
  <2>1. /\ t \in PreviewSessions /\ t.status = s.status /\ t.q = rest /\ t.next = s.next
        /\ t.dropped = s.dropped
    BY <1>3 DEF PreviewSessions
  <2>2. d.count + n \in Nat /\ s.q[n][1] \in Nat
    BY <1>2
  <2>3. e \in DrainStates /\ e.count = d.count + n /\ e.last = s.q[n][1]
    BY <2>2 DEF DrainStates
  <2> QED BY <2>1, <2>3
<1> HIDE DEF t, e
<1>5. e.count + Len(t.q) + t.dropped = t.next - 1
  <2> DEFINE dc == d.count
             ec == e.count
             sl == Len(s.q)
             tl == Len(t.q)
             sd == s.dropped
             sn == s.next
  <2>1. /\ dc \in Nat /\ sl \in Nat /\ sd \in Nat /\ sn \in Nat /\ n \in Nat
        /\ dc + sl + sd = sn - 1 /\ ec = dc + n /\ tl = sl - n
    BY <1>2, <1>3, <1>4 DEF Counted
  <2> HIDE DEF dc, ec, sl, tl, sd, sn
  <2>2. ec + tl + sd = sn - 1
    BY <2>1
  <2> QED BY <1>4, <2>2 DEF ec, tl, sd, sn
<1>6. \A j \in 1..Len(s.q) : /\ s.q[j][1] > (IF j = 1 THEN d.last ELSE s.q[j - 1][1])
                             /\ s.q[j][1] < s.next
  BY DEF Counted
<1>7. e.last < t.next
  BY <1>4, <1>6
<1>8. ASSUME NEW k \in 1..Len(t.q)
      PROVE  t.q[k][1] > (IF k = 1 THEN e.last ELSE t.q[k - 1][1]) /\ t.q[k][1] < t.next
  <2>1. /\ k \in Nat \ {0} /\ k + n \in 1..Len(s.q) /\ k + n # 1 /\ (k + n) - 1 = (k - 1) + n
        /\ t.q[k] = s.q[k + n]
    BY <1>2, <1>3, <1>4, SMTT(40)
  <2>2. s.q[k + n][1] > s.q[(k - 1) + n][1] /\ s.q[k + n][1] < s.next
    BY <1>6, <2>1
  <2>3. CASE k = 1
    BY <1>2, <1>4, <2>1, <2>2, <2>3
  <2>4. CASE k # 1
    <3>1. k - 1 \in 1..Len(rest)
      BY <1>4, <2>1, <2>4
    <3>2. t.q[k - 1] = s.q[(k - 1) + n]
      BY <1>3, <1>4, <3>1
    <3> QED BY <1>4, <2>1, <2>2, <2>4, <3>2
  <2> QED BY <2>3, <2>4
<1>9. Counted(t, e)
  BY <1>5, <1>7, <1>8 DEF Counted
<1>10. ClosedIsLast(t)
  <2>1. CASE Len(rest) = 0
    BY <1>3, <1>4, <2>1 DEF ClosedIsLast
  <2>2. CASE Len(rest) # 0
    <3>1. Len(rest) \in 1..Len(rest) /\ Len(rest) + n = Len(s.q) /\ s.q # <<>>
      BY <1>1, <1>2, <1>3, <2>2
    <3>2. rest[Len(rest)] = s.q[Len(s.q)]
      BY <1>3, <3>1
    <3> QED BY <1>4, <3>1, <3>2 DEF ClosedIsLast
  <2> QED BY <2>1, <2>2
<1> QED BY <1>4, <1>9, <1>10 DEF t, e, rest

\* The steps of the windows and of the user interface keep the invariant.
LEMMA PreviewStep ==
  ASSUME PreviewInv, NEW i \in PreviewIds,
         \/ PreviewBuilt(i) \/ PreviewWatched(i) \/ PageLoads(i) \/ PageTitled(i) \/ PreviewClose(i)
         \/ PreviewDestroyed(i) \/ PreviewDrain(i)
         \/ \E url \in Urls : PreviewOpen(i, url) \/ PreviewNavigates(i, url)
  PROVE  PreviewInv'
<1> DEFINE s == preview[i]
           d == drained[i]
<1>1. /\ s \in PreviewSessions /\ d \in DrainStates /\ Counted(s, d) /\ ClosedIsLast(s)
      /\ s.status = "none" => s = NoPreview /\ d = [count |-> 0, last |-> 0] /\ window[i] = "none"
      /\ window[i] = "gone" => s.status = "closed"
  BY DEF PreviewInv, PreviewTypeOK, SessionHolds

\* What a step has to show of the one session that it changes.
<1>2. ASSUME NEW t \in PreviewSessions, NEW e \in DrainStates, Counted(t, e), ClosedIsLast(t), t.status # "none",
             preview' = [preview EXCEPT ![i] = t], drained' = [drained EXCEPT ![i] = e],
             \A j \in PreviewIds \ {i} : window'[j] = window[j],
             window' \in [PreviewIds -> {"none", "building", "unwatched", "open", "gone", "lost"}],
             window'[i] = "gone" => t.status = "closed",
             loaded' \in [PreviewIds -> Urls \cup {"none"}], shownGen' \in [PreviewIds -> Nat]
      PROVE  PreviewInv'
  <2>1. /\ preview'[i] = t /\ drained'[i] = e
        /\ \A j \in PreviewIds \ {i} : preview'[j] = preview[j] /\ drained'[j] = drained[j]
    BY <1>2 DEF PreviewInv, PreviewTypeOK
  <2>2. PreviewTypeOK'
    BY <1>2 DEF PreviewInv, PreviewTypeOK
  <2>3. SessionHolds(i)'
    BY <1>2, <2>1 DEF SessionHolds
  <2>4. \A j \in PreviewIds \ {i} : SessionHolds(j)'
    BY <1>2, <2>1 DEF PreviewInv, SessionHolds
  <2> QED BY <2>2, <2>3, <2>4 DEF PreviewInv
<1>3. s.status # "none" =>
        LET t == ClosedSession(s)
        IN  t \in PreviewSessions /\ Counted(t, d) /\ ClosedIsLast(t) /\ t.status = "closed"
  BY <1>1, ClosedSessionCounts
<1>4. /\ drained = [drained EXCEPT ![i] = d] /\ preview = [preview EXCEPT ![i] = s]
      /\ window \in [PreviewIds -> {"none", "building", "unwatched", "open", "gone", "lost"}]
      /\ loaded \in [PreviewIds -> Urls \cup {"none"}] /\ shownGen \in [PreviewIds -> Nat]
      /\ s.url \in Urls \cup {"none"}
  BY <1>1 DEF PreviewInv, PreviewTypeOK, PreviewSessions
<1>5. CASE PreviewBuilt(i)
  <2>1. s.status # "none"
    BY <1>1, <1>5 DEF PreviewBuilt
  <2>2. CASE /\ window' = [window EXCEPT ![i] = "unwatched"] /\ UNCHANGED preview
             /\ loaded' = [loaded EXCEPT ![i] = s.url]
    <3>1. /\ window'[i] = "unwatched" /\ \A j \in PreviewIds \ {i} : window'[j] = window[j]
          /\ window' \in [PreviewIds -> {"none", "building", "unwatched", "open", "gone", "lost"}]
          /\ loaded' \in [PreviewIds -> Urls \cup {"none"}]
      BY <1>4, <2>2
    <3> QED BY <1>1, <1>2, <1>4, <1>5, <2>1, <2>2, <3>1 DEF PreviewBuilt
  <2>3. CASE /\ window' = [window EXCEPT ![i] = "gone"] /\ UNCHANGED loaded
             /\ preview' = [preview EXCEPT ![i] = ClosedSession(s)]
    <3>1. /\ \A j \in PreviewIds \ {i} : window'[j] = window[j]
          /\ window' \in [PreviewIds -> {"none", "building", "unwatched", "open", "gone", "lost"}]
      BY <1>4, <2>3
    <3> QED BY <1>1, <1>2, <1>3, <1>4, <1>5, <2>1, <2>3, <3>1 DEF PreviewBuilt
  <2> QED BY <1>5, <2>2, <2>3 DEF PreviewBuilt
<1>6. CASE PreviewWatched(i) \/ PageLoads(i)
  <2>1. s.status # "none"
    BY <1>1, <1>6 DEF PreviewWatched, PageLoads
  <2> QED BY <1>1, <1>2, <1>4, <1>6, <2>1 DEF PreviewWatched, PageLoads
<1>7. CASE PageTitled(i)
  <2> DEFINE r == [s EXCEPT !.title = loaded[i]]
  <2>1. /\ r \in PreviewSessions /\ r.q = s.q /\ r.next = s.next /\ r.dropped = s.dropped /\ r.status = "open"
        /\ preview' = [preview EXCEPT ![i] = PushEvent(r, "title")]
    BY <1>1, <1>4, <1>7 DEF PageTitled, OpenAt, PreviewSessions
  <2> HIDE DEF r
  <2>2. Counted(r, d)
    BY <1>1, <2>1 DEF Counted
  <2>3. LET t == PushEvent(r, "title")
        IN  t \in PreviewSessions /\ Counted(t, d) /\ t.status = "open"
    BY <1>1, <2>1, <2>2, PushEventCounts DEF EventKinds
  <2>4. ClosedIsLast(PushEvent(r, "title")) /\ window[i] # "gone"
    BY <1>7, <2>3 DEF ClosedIsLast, PageTitled
  <2> QED BY <1>1, <1>2, <1>4, <1>7, <2>1, <2>3, <2>4 DEF PageTitled
<1>8. CASE PreviewClose(i)
  BY <1>1, <1>2, <1>3, <1>4, <1>8 DEF PreviewClose
<1>9. CASE PreviewDestroyed(i)
  <2>1. s.status # "none"
    BY <1>1, <1>9 DEF PreviewDestroyed
  <2>2. CASE window[i] = "open"
    BY <1>1, <1>2, <1>3, <1>4, <1>9, <2>1, <2>2 DEF PreviewDestroyed
  <2>3. CASE window[i] # "open"
    BY <1>1, <1>2, <1>4, <1>9, <2>1, <2>3 DEF PreviewDestroyed
  <2> QED BY <2>2, <2>3
<1>10. CASE PreviewDrain(i)
  <2>1. PICK n \in 1..Len(s.q) :
          /\ drained' = [drained EXCEPT ![i] = [count |-> d.count + n, last |-> s.q[n][1]]]
          /\ preview' = [preview EXCEPT ![i] = [s EXCEPT !.q = SubSeq(s.q, n + 1, Len(s.q))]]
    BY <1>1, <1>10 DEF PreviewDrain, PreviewInv, PreviewTypeOK
  <2> DEFINE t == [s EXCEPT !.q = SubSeq(s.q, n + 1, Len(s.q))]
             e == [count |-> d.count + n, last |-> s.q[n][1]]
  <2>2. t \in PreviewSessions /\ e \in DrainStates /\ Counted(t, e) /\ ClosedIsLast(t) /\ t.status = s.status
    BY <1>1, DrainCounts
  <2>3. s.status # "none"
    BY <1>1, <1>10 DEF PreviewDrain, NoPreview
  <2>4. preview' = [preview EXCEPT ![i] = t] /\ drained' = [drained EXCEPT ![i] = e]
    BY <2>1
  <2> HIDE DEF t, e
  <2> QED BY <1>1, <1>2, <1>4, <1>10, <2>2, <2>3, <2>4 DEF PreviewDrain
<1>11. ASSUME NEW url \in Urls, PreviewOpen(i, url) PROVE PreviewInv'
  <2> DEFINE r == [NoPreview EXCEPT !.status = "open", !.gen = 1, !.url = url]
  <2>1. r \in PreviewSessions /\ Counted(r, d) /\ r.status = "open"
    BY <1>1, <1>11 DEF PreviewOpen, NoPreview, PreviewSessions, Counted
  <2>2. preview' = [preview EXCEPT ![i] = PushEvent(r, "opened")]
    BY <1>11 DEF PreviewOpen
  <2> HIDE DEF r
  <2>3. LET t == PushEvent(r, "opened")
        IN  t \in PreviewSessions /\ Counted(t, d) /\ t.status = "open"
    BY <1>1, <2>1, PushEventCounts DEF EventKinds
  <2>4. ClosedIsLast(PushEvent(r, "opened"))
    BY <2>3 DEF ClosedIsLast
  <2> QED BY <1>1, <1>2, <1>4, <1>11, <2>2, <2>3, <2>4 DEF PreviewOpen
<1>12. ASSUME NEW url \in Urls, PreviewNavigates(i, url) PROVE PreviewInv'
  <2> DEFINE r == [s EXCEPT !.gen = @ + 1, !.url = url, !.title = "none"]
  <2>1. /\ r \in PreviewSessions /\ r.q = s.q /\ r.next = s.next /\ r.dropped = s.dropped /\ r.status = "open"
        /\ preview' = [preview EXCEPT ![i] = PushEvent(r, "navigated")]
    <3>1. s.gen + 1 \in Nat /\ s.status = "open"
      <4>1. s.status = "open"
        BY <1>12 DEF PreviewNavigates, OpenAt
      <4>2. s.gen \in Nat
        BY <1>1 DEF PreviewSessions
      <4> QED BY <4>1, <4>2
    <3>2. r = [s EXCEPT !.gen = s.gen + 1, !.url = url, !.title = "none"]
      OBVIOUS
    <3>3. /\ r \in PreviewSessions /\ r.q = s.q /\ r.next = s.next /\ r.dropped = s.dropped
          /\ r.status = "open"
      BY <1>1, <3>1, <3>2 DEF PreviewSessions
    <3>4. preview' = [preview EXCEPT ![i] = PushEvent(r, "navigated")]
      BY <1>12 DEF PreviewNavigates
    <3> QED BY <3>3, <3>4
  <2> HIDE DEF r
  <2>2. Counted(r, d)
    BY <1>1, <2>1 DEF Counted
  <2>3. LET t == PushEvent(r, "navigated")
        IN  t \in PreviewSessions /\ Counted(t, d) /\ t.status = "open"
    BY <1>1, <2>1, <2>2, PushEventCounts DEF EventKinds
  <2>4. ClosedIsLast(PushEvent(r, "navigated")) /\ window[i] # "gone"
    BY <1>12, <2>3 DEF ClosedIsLast, PreviewNavigates
  <2>5. shownGen' \in [PreviewIds -> Nat] /\ UNCHANGED <<window, loaded, drained>>
    <3>1. shownGen' = [shownGen EXCEPT ![i] = @ + 1] /\ UNCHANGED <<window, loaded, drained>>
      BY <1>12 DEF PreviewNavigates
    <3> QED BY <1>4, <3>1
  <2> QED BY <1>1, <1>2, <1>4, <2>1, <2>3, <2>4, <2>5
<1> QED BY <1>5, <1>6, <1>7, <1>8, <1>9, <1>10, <1>11, <1>12

\* Every event of a session is drained, queued or counted as dropped, in order and
\* once, and a closed session says so last, for every limit of the queue.
THEOREM PreviewsAccount == PreviewSpec => []PreviewAccounts
<1>1. ASSUME PreviewInit
      PROVE  PreviewInv
  <2>1. NoPreview \in PreviewSessions /\ [count |-> 0, last |-> 0] \in DrainStates
    BY DEF NoPreview, PreviewSessions, DrainStates
  <2>2. PreviewTypeOK
    BY <1>1, <2>1 DEF PreviewInit, PreviewTypeOK
  <2> QED BY <1>1, <2>2 DEF PreviewInit, PreviewInv, SessionHolds, Counted, ClosedIsLast, NoPreview
<1>2. ASSUME PreviewInv, UNCHANGED previewVars
      PROVE  PreviewInv'
  BY <1>2 DEF previewVars, PreviewInv, PreviewTypeOK, SessionHolds
<1>3. ASSUME PreviewInv, PreviewNext
      PROVE  PreviewInv'
  BY <1>3, PreviewStep DEF PreviewNext
<1>4. PreviewInv => PreviewAccounts
  BY DEF PreviewInv, SessionHolds, Counted, ClosedIsLast, PreviewAccounts
<1> QED BY <1>1, <1>2, <1>3, <1>4, PTL DEF PreviewSpec

-----------------------------------------------------------------------------
(* The settings store (module Settings). *)

\* A document that load can read back.
StoredDocs == [rev : Nat, key : {"plain"}, schema : {"current", "legacy"}]

PrimaryDoc == file["primary"]
BackupDoc == file["backup"]

\* The files when nobody writes: how far behind each may be.
FilesHold ==
  /\ PrimaryDoc \in StoredDocs \cup {Missing} \cup (IF damage = 1 THEN {Spoiled} ELSE {})
  /\ BackupDoc \in StoredDocs \cup {Missing}
  /\ PrimaryDoc \in StoredDocs => PrimaryDoc.rev + damage >= acked
  /\ BackupDoc \in StoredDocs => BackupDoc.rev + 1 >= acked
  /\ PrimaryDoc = Missing /\ BackupDoc \in StoredDocs => BackupDoc.rev + damage >= acked
  /\ PrimaryDoc = Missing /\ BackupDoc = Missing => acked = 0

\* The first write of two: the primary goes to the backup, unchanged meanwhile.
BacksUp(doc) ==
  /\ tx.todo = <<<<"backup", PrimaryDoc>>, <<"primary", doc>>>>
  /\ PrimaryDoc \in StoredDocs /\ tx.rev \in {PrimaryDoc.rev, PrimaryDoc.rev + 1}
  /\ tx.at = "place" => tx.old \in StoredDocs /\ tx.old.rev + 1 >= acked

\* The only write, or the second: the backup covers the primary, or nothing was saved.
ReplacesPrimary(doc) ==
  /\ tx.todo = <<<<"primary", doc>>>>
  /\ \/ /\ BackupDoc \in StoredDocs /\ tx.rev \in {BackupDoc.rev, BackupDoc.rev + 1}
        /\ BackupDoc.rev + damage >= acked
     \/ PrimaryDoc = Missing /\ BackupDoc = Missing /\ tx.rev = 1 /\ acked = 0
  /\ tx.at = "place" => \/ tx.old \in StoredDocs /\ tx.old.rev + damage >= acked
                        \/ tx.old = Spoiled /\ damage = 1

\* All is written and not yet reported.
Written ==
  /\ tx.todo = <<>> /\ PrimaryDoc \in StoredDocs /\ PrimaryDoc.rev = tx.rev
  /\ BackupDoc \in StoredDocs => BackupDoc.rev + 1 >= tx.rev

TxHolds ==
  \/ tx = NoTx
  \/ /\ tx.kind = "write" /\ tx.rev \in Nat /\ tx.at \in {"write", "place"}
     /\ \/ \E doc \in StoredDocs : doc.rev = tx.rev /\ (BacksUp(doc) \/ ReplacesPrimary(doc))
        \/ Written

\* Everything the store keeps true between two file operations.
SettingsInv ==
  /\ DOMAIN file = {"primary", "backup"} /\ DOMAIN tx = DOMAIN NoTx
  /\ acked \in Nat /\ damage \in {0, 1} /\ FilesHold /\ TxHolds

\* The two files are told apart, and what is left of a plan is a sequence.
LEMMA PlanSteps ==
  ASSUME NEW f, NEW g, NEW x, NEW y
  PROVE  /\ Head(<<<<f, x>>, <<g, y>>>>) = <<f, x>> /\ Tail(<<<<f, x>>, <<g, y>>>>) = <<<<g, y>>>>
         /\ Head(<<<<g, y>>>>) = <<g, y>> /\ Tail(<<<<g, y>>>>) = <<>>
         /\ <<<<f, x>>, <<g, y>>>> # <<>> /\ <<<<g, y>>>> # <<>> /\ <<<<f, x>>, <<g, y>>>> # <<<<g, y>>>>
         /\ <<f, x>>[1] = f /\ <<f, x>>[2] = x
  OBVIOUS

\* A file that is neither gone nor spoiled is one that load can read.
LEMMA StoredIsReadable ==
  ASSUME NEW doc \in StoredDocs \cup {Missing, Spoiled}
  PROVE  (Readable(doc) <=> doc \in StoredDocs) /\ Missing \notin StoredDocs /\ Spoiled \notin StoredDocs
         /\ Missing # Spoiled /\ Missing.rev = 0
  BY DEF StoredDocs, Readable, Missing, Spoiled

\* Replacing one of the two files leaves the other.
LEMMA OneFile ==
  ASSUME DOMAIN file = {"primary", "backup"}, NEW f \in {"primary", "backup"}, NEW doc,
         file' = [file EXCEPT ![f] = doc]
  PROVE  /\ DOMAIN file' = {"primary", "backup"}
         /\ f = "primary" => PrimaryDoc' = doc /\ BackupDoc' = BackupDoc
         /\ f = "backup" => BackupDoc' = doc /\ PrimaryDoc' = PrimaryDoc
  BY DEF PrimaryDoc, BackupDoc

\* A transaction starts with the backup of a readable primary, or with a backup
\* that covers the primary, or with no file at all.
LEMMA BeginHolds ==
  ASSUME SettingsInv, NEW w, NEW doc \in StoredDocs, NEW writes, Begin(w, doc.rev, writes),
         \/ /\ writes = <<<<"backup", PrimaryDoc>>, <<"primary", doc>>>>
            /\ PrimaryDoc \in StoredDocs /\ doc.rev \in {PrimaryDoc.rev, PrimaryDoc.rev + 1}
         \/ /\ writes = <<<<"primary", doc>>>>
            /\ \/ /\ BackupDoc \in StoredDocs /\ doc.rev \in {BackupDoc.rev, BackupDoc.rev + 1}
                  /\ BackupDoc.rev + damage >= acked
               \/ PrimaryDoc = Missing /\ BackupDoc = Missing /\ doc.rev = 1 /\ acked = 0
  PROVE  SettingsInv'
<1>1. /\ tx'.kind = "write" /\ tx'.todo = writes /\ tx'.at = "write" /\ tx'.rev = doc.rev
      /\ DOMAIN tx' = DOMAIN NoTx
  BY DEF Begin, NoTx
<1>2. UNCHANGED <<file, acked, damage, PrimaryDoc, BackupDoc>>
  BY DEF Begin, PrimaryDoc, BackupDoc
<1>3. doc.rev \in Nat
  BY DEF StoredDocs
<1>4. FilesHold'
  BY <1>2 DEF SettingsInv, FilesHold
<1>5. TxHolds'
  BY <1>1, <1>2, <1>3 DEF TxHolds, BacksUp, ReplacesPrimary
<1> QED BY <1>1, <1>2, <1>4, <1>5 DEF SettingsInv

\* A store whose spellings its two checks agree on keeps its invariant.
LEMMA SettingsStep ==
  ASSUME "dashed" \notin KeyKinds, SettingsInv, SettingsNext
  PROVE  SettingsInv'
<1> USE SettingsAssumption
<1>0. /\ PrimaryDoc \in StoredDocs \cup {Missing, Spoiled} /\ BackupDoc \in StoredDocs \cup {Missing}
      /\ Readable(PrimaryDoc) <=> PrimaryDoc \in StoredDocs
      /\ Readable(BackupDoc) <=> BackupDoc \in StoredDocs
      /\ PrimaryDoc = Spoiled => damage = 1
      /\ Missing \notin StoredDocs /\ Spoiled \notin StoredDocs /\ Missing # Spoiled /\ Missing.rev = 0
      /\ acked \in Nat /\ damage \in {0, 1} /\ DOMAIN file = {"primary", "backup"}
  BY StoredIsReadable DEF SettingsInv, FilesHold
<1>1. ASSUME NEW w \in Windows, NEW key \in KeyKinds, NEW server \in ServerShapes, NEW profile \in ProfileShapes,
             CompareAndSave(w, key, server, profile)
      PROVE  SettingsInv'
  <2> DEFINE doc == Document(known[w] + 1, key)
  <2>1. /\ key = "plain" /\ Current.rev = known[w] /\ (Current = Missing \/ Readable(Current))
        /\ Begin(w, doc.rev, PersistWrites(doc, Current # Missing))
    BY <1>1 DEF CompareAndSave, Validates, KeyHolds, Document
  <2>2. Current = IF PrimaryDoc # Missing THEN PrimaryDoc ELSE BackupDoc
    BY DEF Current, PrimaryDoc, BackupDoc
  <2>3. Current \in StoredDocs \/ (Current = Missing /\ PrimaryDoc = Missing /\ BackupDoc = Missing)
    BY <1>0, <2>1, <2>2
  <2>4. Current.rev \in Nat /\ doc.rev = Current.rev + 1
    BY <1>0, <2>1, <2>3 DEF StoredDocs, Document
  <2>5. doc \in StoredDocs
    BY <2>1, <2>4 DEF StoredDocs, Document
  <2> HIDE DEF doc
  <2>6. CASE PrimaryDoc # Missing
    <3>1. PersistWrites(doc, Current # Missing) = <<<<"backup", PrimaryDoc>>, <<"primary", doc>>>>
      BY <2>2, <2>6 DEF PersistWrites, PrimaryDoc
    <3> QED BY <1>0, <2>1, <2>2, <2>3, <2>4, <2>5, <2>6, <3>1, BeginHolds
  <2>7. CASE PrimaryDoc = Missing
    <3>1. PersistWrites(doc, Current # Missing) = <<<<"primary", doc>>>>
      BY <2>7 DEF PersistWrites, PrimaryDoc
    <3>2. BackupDoc \in StoredDocs => BackupDoc.rev + damage >= acked
      BY <2>7 DEF SettingsInv, FilesHold
    <3>3. BackupDoc = Missing => acked = 0 /\ doc.rev = 1
      BY <1>0, <2>2, <2>4, <2>7 DEF SettingsInv, FilesHold
    <3> QED BY <1>0, <2>1, <2>2, <2>3, <2>4, <2>5, <2>7, <3>1, <3>2, <3>3, BeginHolds
  <2> QED BY <2>6, <2>7
<1>2. ASSUME NEW w \in Windows, Load(w)
      PROVE  SettingsInv'
  <2> DEFINE doc == [LoadResult EXCEPT !.schema = "current"]
  <2>1. CASE PrimaryDoc = Legacy
    <3>1. LoadResult = Legacy /\ PrimaryDoc \in StoredDocs
      BY <1>0, <2>1 DEF LoadResult, PrimaryDoc, Legacy, StoredDocs
    <3>2. doc \in StoredDocs /\ doc.rev = PrimaryDoc.rev
      BY <2>1, <3>1 DEF StoredDocs, Legacy
    <3>3. Begin(w, doc.rev, <<<<"backup", PrimaryDoc>>, <<"primary", doc>>>>)
      BY <1>2, <2>1 DEF Load, PrimaryDoc
    <3> HIDE DEF doc
    <3> QED BY <3>1, <3>2, <3>3, BeginHolds
  <2>2. CASE PrimaryDoc # Legacy /\ ~Readable(PrimaryDoc) /\ Readable(BackupDoc)
    <3>1. LoadResult = BackupDoc /\ BackupDoc \in StoredDocs
      BY <1>0, <2>2 DEF LoadResult, PrimaryDoc, BackupDoc
    <3>2. doc \in StoredDocs /\ doc.rev = BackupDoc.rev
      BY <3>1 DEF StoredDocs
    <3>3. Begin(w, doc.rev, <<<<"primary", doc>>>>)
      BY <1>2, <2>2 DEF Load, PersistWrites, PrimaryDoc, BackupDoc
    <3>4. BackupDoc.rev + damage >= acked
      BY <1>0, <2>2, <3>1 DEF SettingsInv, FilesHold
    <3> HIDE DEF doc
    <3> QED BY <3>1, <3>2, <3>3, <3>4, BeginHolds
  <2>3. CASE PrimaryDoc # Legacy /\ ~(~Readable(PrimaryDoc) /\ Readable(BackupDoc))
    <3>1. UNCHANGED <<file, tx, acked, damage>>
      BY <1>2, <2>3 DEF Load, PrimaryDoc, BackupDoc
    <3> QED BY <3>1 DEF SettingsInv, FilesHold, TxHolds, BacksUp, ReplacesPrimary, Written, PrimaryDoc, BackupDoc
  <2> QED BY <2>1, <2>2, <2>3
<1>3. CASE UNCHANGED settingsVars
  BY <1>3 DEF settingsVars, SettingsInv, FilesHold, TxHolds, BacksUp, ReplacesPrimary, Written,
     PrimaryDoc, BackupDoc
<1>4. CASE Replace \/ Place
  <2>1. /\ tx.kind = "write" /\ tx.todo # <<>> /\ file' = [file EXCEPT ![Head(tx.todo)[1]] = Head(tx.todo)[2]]
        /\ UNCHANGED <<acked, damage>> /\ tx' = [tx EXCEPT !.todo = Tail(tx.todo), !.at = "write"]
    BY <1>4 DEF Replace, Place, Busy, Advance, Target
  <2>2. /\ tx'.kind = "write" /\ tx'.todo = Tail(tx.todo) /\ tx'.at = "write" /\ tx'.rev = tx.rev
        /\ DOMAIN tx' = DOMAIN NoTx
    BY <2>1 DEF SettingsInv, NoTx
  <2>3. tx # NoTx /\ tx.rev \in Nat
    BY <2>1 DEF SettingsInv, TxHolds, NoTx
  <2>4. PICK doc \in StoredDocs : doc.rev = tx.rev /\ (BacksUp(doc) \/ ReplacesPrimary(doc))
    BY <2>1, <2>3 DEF SettingsInv, TxHolds, Written
  <2>5. CASE BacksUp(doc)
    <3>1. /\ Head(tx.todo) = <<"backup", PrimaryDoc>> /\ Head(tx.todo)[1] = "backup"
          /\ Head(tx.todo)[2] = PrimaryDoc /\ Tail(tx.todo) = <<<<"primary", doc>>>>
      BY <2>5, PlanSteps DEF BacksUp
    <3>2. BackupDoc' = PrimaryDoc /\ PrimaryDoc' = PrimaryDoc /\ DOMAIN file' = {"primary", "backup"}
      BY <1>0, <2>1, <3>1, OneFile
    <3>3. PrimaryDoc \in StoredDocs /\ tx.rev \in {PrimaryDoc.rev, PrimaryDoc.rev + 1}
      BY <2>5 DEF BacksUp
    <3>4. PrimaryDoc.rev \in Nat /\ PrimaryDoc.rev + damage >= acked
      BY <3>3 DEF SettingsInv, FilesHold, StoredDocs
    <3>5. FilesHold'
      BY <1>0, <2>1, <3>2, <3>3, <3>4 DEF FilesHold
    <3>6. ReplacesPrimary(doc)'
      BY <2>1, <2>2, <3>1, <3>2, <3>3, <3>4 DEF ReplacesPrimary
    <3>7. TxHolds'
      BY <2>2, <2>3, <2>4, <3>6 DEF TxHolds
    <3> QED BY <1>0, <2>1, <2>2, <3>2, <3>5, <3>7 DEF SettingsInv
  <2>6. CASE ReplacesPrimary(doc)
    <3>1. Head(tx.todo)[1] = "primary" /\ Head(tx.todo)[2] = doc /\ Tail(tx.todo) = <<>>
      BY <2>6, PlanSteps DEF ReplacesPrimary
    <3>2. PrimaryDoc' = doc /\ BackupDoc' = BackupDoc /\ DOMAIN file' = {"primary", "backup"}
      BY <1>0, <2>1, <3>1, OneFile
    <3>3. BackupDoc \in StoredDocs => /\ BackupDoc.rev \in Nat /\ BackupDoc.rev + 1 >= acked
                                      /\ tx.rev \in {BackupDoc.rev, BackupDoc.rev + 1}
                                      /\ BackupDoc.rev + damage >= acked
      BY <1>0, <2>6 DEF ReplacesPrimary, SettingsInv, FilesHold, StoredDocs
    <3>4. BackupDoc \notin StoredDocs => acked = 0
      BY <2>6 DEF ReplacesPrimary
    <3>5. doc.rev + damage >= acked
      BY <1>0, <2>3, <2>4, <3>3, <3>4
    <3>6. FilesHold'
      BY <1>0, <2>1, <3>2, <3>3, <3>5 DEF FilesHold
    <3>7. Written'
      BY <2>2, <2>3, <2>4, <3>1, <3>2, <3>3 DEF Written
    <3>8. TxHolds'
      BY <2>2, <2>3, <3>7 DEF TxHolds
    <3> QED BY <1>0, <2>1, <2>2, <3>2, <3>6, <3>8 DEF SettingsInv
  <2> QED BY <2>4, <2>5, <2>6
<1>5. CASE MoveAside
  <2>1. /\ tx.kind = "write" /\ tx.todo # <<>> /\ file' = [file EXCEPT ![Head(tx.todo)[1]] = Missing]
        /\ UNCHANGED <<acked, damage>> /\ tx' = [tx EXCEPT !.at = "place", !.old = file[Head(tx.todo)[1]]]
        /\ file[Head(tx.todo)[1]] # Missing
    BY <1>5 DEF MoveAside, Busy, Target
  <2>2. /\ tx'.kind = "write" /\ tx'.todo = tx.todo /\ tx'.at = "place" /\ tx'.rev = tx.rev
        /\ tx'.old = file[Head(tx.todo)[1]] /\ DOMAIN tx' = DOMAIN NoTx
    BY <2>1 DEF SettingsInv, NoTx
  <2>3. tx # NoTx /\ tx.rev \in Nat
    BY <2>1 DEF SettingsInv, TxHolds, NoTx
  <2>4. PICK doc \in StoredDocs : doc.rev = tx.rev /\ (BacksUp(doc) \/ ReplacesPrimary(doc))
    BY <2>1, <2>3 DEF SettingsInv, TxHolds, Written
  <2>5. CASE BacksUp(doc)
    <3>1. Head(tx.todo)[1] = "backup" /\ tx.todo = <<<<"backup", PrimaryDoc>>, <<"primary", doc>>>>
      BY <2>5, PlanSteps DEF BacksUp
    <3>2. /\ BackupDoc' = Missing /\ PrimaryDoc' = PrimaryDoc /\ DOMAIN file' = {"primary", "backup"}
          /\ tx'.old = BackupDoc /\ BackupDoc \in StoredDocs
      BY <1>0, <2>1, <2>2, <3>1, OneFile DEF BackupDoc
    <3>3. PrimaryDoc \in StoredDocs /\ tx.rev \in {PrimaryDoc.rev, PrimaryDoc.rev + 1}
      BY <2>5 DEF BacksUp
    <3>4. FilesHold'
      BY <1>0, <2>1, <3>2, <3>3 DEF SettingsInv, FilesHold
    <3>5. BacksUp(doc)'
      BY <2>1, <2>2, <3>1, <3>2, <3>3 DEF BacksUp, SettingsInv, FilesHold
    <3>6. TxHolds'
      BY <2>2, <2>3, <2>4, <3>5 DEF TxHolds
    <3> QED BY <1>0, <2>1, <2>2, <3>2, <3>4, <3>6 DEF SettingsInv
  <2>6. CASE ReplacesPrimary(doc)
    <3>1. Head(tx.todo)[1] = "primary" /\ tx.todo = <<<<"primary", doc>>>>
      BY <2>6, PlanSteps DEF ReplacesPrimary
    <3>2. /\ PrimaryDoc' = Missing /\ BackupDoc' = BackupDoc /\ DOMAIN file' = {"primary", "backup"}
          /\ tx'.old = PrimaryDoc /\ PrimaryDoc \in StoredDocs \cup {Spoiled}
      BY <1>0, <2>1, <2>2, <3>1, OneFile DEF PrimaryDoc
    <3>3. /\ BackupDoc \in StoredDocs /\ tx.rev \in {BackupDoc.rev, BackupDoc.rev + 1}
          /\ BackupDoc.rev + damage >= acked
      BY <1>0, <2>6, <3>2 DEF ReplacesPrimary
    <3>4. FilesHold'
      BY <1>0, <2>1, <3>2, <3>3 DEF SettingsInv, FilesHold
    <3>5. ReplacesPrimary(doc)'
      BY <1>0, <2>1, <2>2, <3>1, <3>2, <3>3 DEF ReplacesPrimary, SettingsInv, FilesHold
    <3>6. TxHolds'
      BY <2>2, <2>3, <2>4, <3>5 DEF TxHolds
    <3> QED BY <1>0, <2>1, <2>2, <3>2, <3>4, <3>6 DEF SettingsInv
  <2> QED BY <2>4, <2>5, <2>6
<1>6. CASE ReplaceFails
  <2>1. /\ tx.kind = "write" /\ tx.todo # <<>> /\ UNCHANGED <<acked, damage>> /\ tx' = NoTx
    BY <1>6 DEF ReplaceFails
  <2>2. PICK left \in {file[Head(tx.todo)[1]], Head(tx.todo)[2]} \cup (IF tx.at = "place" THEN {tx.old} ELSE {}) :
          file' = [file EXCEPT ![Head(tx.todo)[1]] = left]
    BY <1>6 DEF ReplaceFails, Target
  <2>3. tx # NoTx /\ tx.rev \in Nat
    BY <2>1 DEF SettingsInv, TxHolds, NoTx
  <2>4. PICK doc \in StoredDocs : doc.rev = tx.rev /\ (BacksUp(doc) \/ ReplacesPrimary(doc))
    BY <2>1, <2>3 DEF SettingsInv, TxHolds, Written
  <2>5. TxHolds' /\ DOMAIN tx' = DOMAIN NoTx
    BY <2>1 DEF TxHolds
  <2>6. CASE BacksUp(doc)
    <3>1. Head(tx.todo)[1] = "backup" /\ Head(tx.todo)[2] = PrimaryDoc
      BY <2>6, PlanSteps DEF BacksUp
    <3>2. BackupDoc' = left /\ PrimaryDoc' = PrimaryDoc /\ DOMAIN file' = {"primary", "backup"}
      BY <1>0, <2>2, <3>1, OneFile
    <3>3. PrimaryDoc \in StoredDocs /\ PrimaryDoc.rev \in Nat /\ PrimaryDoc.rev + damage >= acked
      BY <2>6 DEF BacksUp, SettingsInv, FilesHold, StoredDocs
    <3>4. \/ left = BackupDoc
          \/ left = PrimaryDoc
          \/ left \in StoredDocs /\ left.rev + 1 >= acked
      BY <2>2, <2>6, <3>1 DEF BacksUp, BackupDoc
    <3>5. left \in StoredDocs \cup {Missing} /\ (left \in StoredDocs => left.rev + 1 >= acked)
      BY <1>0, <3>3, <3>4 DEF SettingsInv, FilesHold
    <3>6. FilesHold'
      BY <1>0, <2>1, <3>2, <3>3, <3>5 DEF SettingsInv, FilesHold
    <3> QED BY <1>0, <2>1, <2>5, <3>2, <3>6 DEF SettingsInv
  <2>7. CASE ReplacesPrimary(doc)
    <3>1. Head(tx.todo)[1] = "primary" /\ Head(tx.todo)[2] = doc
      BY <2>7, PlanSteps DEF ReplacesPrimary
    <3>2. PrimaryDoc' = left /\ BackupDoc' = BackupDoc /\ DOMAIN file' = {"primary", "backup"}
      BY <1>0, <2>2, <3>1, OneFile
    <3>3. BackupDoc \in StoredDocs => /\ BackupDoc.rev \in Nat /\ BackupDoc.rev + 1 >= acked
                                      /\ tx.rev \in {BackupDoc.rev, BackupDoc.rev + 1}
                                      /\ BackupDoc.rev + damage >= acked
      BY <1>0, <2>7 DEF ReplacesPrimary, SettingsInv, FilesHold, StoredDocs
    <3>4. BackupDoc \notin StoredDocs => acked = 0
      BY <2>7 DEF ReplacesPrimary
    <3>5. doc.rev + damage >= acked
      BY <1>0, <2>3, <2>4, <3>3, <3>4
    <3>6. \/ left = PrimaryDoc
          \/ left \in StoredDocs /\ left.rev + damage >= acked
          \/ left = Spoiled /\ damage = 1
      BY <2>2, <2>7, <3>1, <3>5 DEF ReplacesPrimary, PrimaryDoc
    <3>7. FilesHold'
      BY <1>0, <2>1, <3>2, <3>3, <3>4, <3>6 DEF SettingsInv, FilesHold
    <3> QED BY <1>0, <2>1, <2>5, <3>2, <3>7 DEF SettingsInv
  <2> QED BY <2>4, <2>6, <2>7
<1>7. CASE Saved
  <2>1. /\ tx.kind = "write" /\ tx.todo = <<>> /\ acked' = (IF tx.rev > acked THEN tx.rev ELSE acked)
        /\ tx' = NoTx /\ UNCHANGED <<damage, file, PrimaryDoc, BackupDoc>>
    BY <1>7 DEF Saved, PrimaryDoc, BackupDoc
  <2>2. Written /\ tx.rev \in Nat
    <3>1. tx # NoTx
      BY <2>1 DEF NoTx
    <3> QED BY <2>1, <3>1, PlanSteps DEF SettingsInv, TxHolds, BacksUp, ReplacesPrimary
  <2>3. acked' \in Nat
    BY <1>0, <2>1, <2>2
  <2>4. FilesHold'
    BY <1>0, <2>1, <2>2 DEF SettingsInv, FilesHold, Written
  <2> QED BY <1>0, <2>1, <2>3, <2>4 DEF SettingsInv, TxHolds
<1>8. CASE SettingsCrash
  <2>1. tx' = NoTx /\ UNCHANGED <<file, acked, damage, PrimaryDoc, BackupDoc>>
    BY <1>8 DEF SettingsCrash, PrimaryDoc, BackupDoc
  <2> QED BY <2>1 DEF SettingsInv, TxHolds, FilesHold
<1>9. CASE Spoil
  <2>1. /\ tx = NoTx /\ file' = [file EXCEPT !["primary"] = Spoiled] /\ UNCHANGED <<tx, acked>>
        /\ damage' = damage + 1 /\ damage < MaxDamage
    BY <1>9 DEF Spoil
  <2>2. PrimaryDoc' = Spoiled /\ BackupDoc' = BackupDoc /\ DOMAIN file' = {"primary", "backup"}
    BY <1>0, <2>1, OneFile
  <2>3. damage' = 1
    BY <1>0, <2>1 DEF SettingsAssumption
  <2>4. FilesHold'
    BY <1>0, <2>1, <2>2, <2>3 DEF SettingsInv, FilesHold
  <2> QED BY <1>0, <2>1, <2>2, <2>3, <2>4 DEF SettingsInv, TxHolds
<1>10. ASSUME NEW w, NEW key, NEW server, NEW profile, SaveRefused(w, key, server, profile)
       PROVE  SettingsInv'
  BY <1>3, <1>10 DEF SaveRefused
<1>11. CASE LoadFails
  BY <1>3, <1>11 DEF LoadFails
<1> QED BY <1>1, <1>2, <1>4, <1>5, <1>6, <1>7, <1>8, <1>9, <1>10, <1>11 DEF SettingsNext

\* What load returns is never older than a reported save, and one spoiled primary
\* costs at most the newest revision, wherever crashes and I/O errors fall: for all
\* windows, limits and documents that the reader's spelling rule does not refuse.
\* The dashed spelling is excluded because the save admits it and load does not.
THEOREM SavesSurvive ==
  ASSUME "dashed" \notin KeyKinds
  PROVE  SettingsSpec => []SavedSurvives
<1>1. ASSUME SettingsInit
      PROVE  SettingsInv
  <2>1. /\ DOMAIN file = {"primary", "backup"} /\ PrimaryDoc \in {Missing, Legacy} /\ BackupDoc = Missing
        /\ tx = NoTx /\ acked = 0 /\ damage = 0
    BY <1>1 DEF SettingsInit, PrimaryDoc, BackupDoc
  <2>2. Legacy \in StoredDocs /\ Legacy.rev = 0 /\ Missing \notin StoredDocs
    BY DEF Legacy, Missing, StoredDocs
  <2> QED BY <2>1, <2>2 DEF SettingsInv, FilesHold, TxHolds
<1>2. ASSUME SettingsInv, UNCHANGED settingsVars
      PROVE  SettingsInv'
  BY <1>2 DEF settingsVars, SettingsInv, FilesHold, TxHolds, BacksUp, ReplacesPrimary, Written,
     PrimaryDoc,
              BackupDoc
<1>3. ASSUME SettingsInv
      PROVE  SavedSurvives
  <2>1. /\ Readable(PrimaryDoc) <=> PrimaryDoc \in StoredDocs
        /\ Readable(BackupDoc) <=> BackupDoc \in StoredDocs
        /\ PrimaryDoc = Spoiled => damage = 1
        /\ Missing \notin StoredDocs /\ Spoiled \notin StoredDocs /\ Missing # Spoiled
        /\ PrimaryDoc \in StoredDocs \cup {Missing, Spoiled} /\ BackupDoc \in StoredDocs \cup {Missing}
    BY <1>3, StoredIsReadable DEF SettingsInv, FilesHold
  <2>2. LoadResult = IF PrimaryDoc \in StoredDocs THEN PrimaryDoc
                     ELSE IF BackupDoc \in StoredDocs THEN BackupDoc
                     ELSE IF PrimaryDoc = Missing /\ BackupDoc = Missing THEN Document(0, "plain")
                     ELSE Spoiled
    BY <2>1 DEF LoadResult, PrimaryDoc, BackupDoc
  <2>3. Document(0, "plain") # Spoiled /\ Document(0, "plain").rev = 0
    BY DEF Document, Spoiled
  <2>4. (PrimaryDoc \in StoredDocs => PrimaryDoc.rev \in Nat) /\ (BackupDoc \in StoredDocs => BackupDoc.rev \in Nat)
    BY DEF StoredDocs
  <2> QED BY <1>3, <2>1, <2>2, <2>3, <2>4 DEF SavedSurvives, SettingsInv, FilesHold
<1> QED BY <1>1, <1>2, <1>3, SettingsStep, PTL DEF SettingsSpec

-----------------------------------------------------------------------------
(* A user's terminal (module Terminal). *)

\* What a failing, closing, exiting or draining thread has left to do.
FailTodos ==
  {FailSteps, <<"publish", "stop", "close_events">>, <<"stop", "close_events">>, <<"close_events">>, <<>>}
CloseTodos ==
  {CloseSteps, <<"publish", "stop", "wait", "return">>, <<"stop", "wait", "return">>,
   <<"wait", "return">>, <<"return">>, <<>>}
ExitTodos ==
  {ExitSteps, <<"stop", "publish_exit", "drop_master">>, <<"publish_exit", "drop_master">>,
   <<"drop_master">>, <<>>}
DrainTodos ==
  {<<"mark_error", "publish", "stop", "close_events", "mark_drained", "publish_exit", "drop_master">>,
   <<"publish", "stop", "close_events", "mark_drained", "publish_exit", "drop_master">>,
   <<"stop", "close_events", "mark_drained", "publish_exit", "drop_master">>,
   <<"close_events", "mark_drained", "publish_exit", "drop_master">>, DrainSteps,
   <<"publish_exit", "drop_master">>, <<"drop_master">>, <<>>}

\* What the reader has left once it is marked as done.
DrainRest == {<<"publish_exit", "drop_master">>, <<"drop_master">>, <<>>}

TodosOf(t) ==
  IF t \in Closers THEN CloseTodos
  ELSE IF t = "reader" THEN DrainTodos
  ELSE IF t = "child" THEN ExitTodos \cup FailTodos ELSE FailTodos

ThreadStates ==
  [pc : {"idle", "run", "push", "write", "end"}, todo : CloseTodos \cup DrainTodos \cup ExitTodos \cup FailTodos,
   say : {"none", "error", "closed", "exited"}, ok : BOOLEAN]
LifeStates == [sent : BOOLEAN, closed : BOOLEAN, drained : BOOLEAN, status : BOOLEAN]
TermEvents == {"output", "resized", "error", "closed", "exited"}
TermQueues == [q : Seq(TermEvents), closed : BOOLEAN, final : BOOLEAN]

TermTypes ==
  /\ shell \in {"none", "running", "zombie", "reaped"} /\ kids \in SUBSET Groups
  /\ written \in Nat /\ written <= MaxOutput /\ ptyBuf \in Nat /\ ptyBuf <= written
  /\ master \in BOOLEAN /\ job \in BOOLEAN /\ owned \in BOOLEAN /\ halt \in BOOLEAN /\ joined \in BOOLEAN
  /\ late \in BOOLEAN /\ shownFinal \in BOOLEAN
  /\ life \in LifeStates /\ events \in TermQueues /\ Len(events.q) <= MaxEvents
  /\ typed \in Nat /\ size \in BOOLEAN
  /\ thread \in [Threads -> ThreadStates] /\ \A t \in Threads : thread[t].todo \in TodosOf(t)
  /\ ptyFaults \in Nat /\ ptyFaults <= MaxTermFaults

\* Before a session is opened nothing of it is there.
NothingOpen ==
  shell = "none" =>
    /\ ~owned /\ ~halt /\ kids = {} /\ ~life.sent /\ ~life.closed /\ ~life.drained /\ ~life.status
    /\ \A t \in Threads : thread[t] = Plan("idle")

\* A session stops only once its end is marked or its exit is known.
StopsAreMarked ==
  /\ life.closed => life.sent
  /\ halt => life.sent \/ life.status
  /\ \A t \in Threads : At(t, "publish") \/ At(t, "stop") => life.sent \/ life.status

\* A terminal event is the last one, and the queue knows that it had one.
FinalsAreMarked ==
  /\ \A i \in 1..Len(events.q) : events.q[i] \in Finals => i = Len(events.q) /\ events.final
  /\ shownFinal => events.q = <<>> /\ events.final

\* The reader has left, and no output is to come, unless the pseudo terminal failed or,
\* on Windows, is gone.
TailIsTaken ==
  /\ thread["reader"].pc = "end"
  /\ \/ ptyBuf = 0 /\ ~Held
     \/ ptyFaults > 0 \/ (TermPlatform = "windows" /\ ~master)

\* An exit is announced, now or when the reader has drained, only after the tail.
ExitsAwaitTail ==
  /\ \A t \in Threads : thread[t].say = "exited" => TailIsTaken
  /\ (\E i \in 1..Len(events.q) : events.q[i] = "exited") => TailIsTaken
  /\ ~Free("reader") => thread["reader"].pc = "end"
  /\ thread["reader"].pc = "end" => TailIsTaken \/ life.sent \/ At("reader", "mark_error")
  /\ life.drained => /\ thread["reader"].pc = "end"
                     /\ thread["reader"].todo \in DrainRest

\* A closer that reports success has joined every worker, and with the child's
\* worker the shell has ended; no closer waits before the session is stopped, and the
\* stop has ended every process it reaches.
SessionIsHeld ==
  /\ shell = "running" => job /\ ~halt
  /\ thread["child"].pc = "end" => shell # "running"
  /\ \A c \in Closers : At(c, "return") /\ thread[c].ok => joined
  /\ \A c \in Closers : At(c, "wait") => halt
  /\ joined => AllEnded /\ halt
  /\ ~owned /\ shell # "none" => joined
  /\ halt \/ ~job => kids \cap Reached = {}

TermInv ==
  TermTypes /\ NothingOpen /\ StopsAreMarked /\ FinalsAreMarked /\ ExitsAwaitTail /\ SessionIsHeld

\* One step of a procedure: a mark comes before the publication and the stop, a wait
\* before the return.
NextStep(s) ==
  /\ Tail(s) # <<>> => Head(Tail(s)) \notin {"mark_error", "mark_closed", "mark_exit"}
  /\ Tail(s) # <<>> /\ Head(Tail(s)) \in {"publish", "stop"}
       => Head(s) \in {"mark_error", "mark_closed", "mark_exit", "publish"}
  /\ Tail(s) # <<>> /\ Head(Tail(s)) = "return" => Head(s) = "wait"
  /\ Tail(s) # <<>> /\ Head(Tail(s)) = "wait" => Head(s) = "stop"

\* A failing thread goes on.
LEMMA FailAdvances ==
  ASSUME NEW s \in FailTodos, s # <<>>
  PROVE  /\ Tail(s) \in FailTodos /\ NextStep(s)
         /\ Head(s) \notin {"mark_drained", "wait", "return"}
<1>1. CASE s = <<"mark_error", "publish", "stop", "close_events">>
  <2>1. Head(s) = "mark_error" /\ Tail(s) = <<"publish", "stop", "close_events">>
    BY <1>1
  <2>2. Head(<<"publish", "stop", "close_events">>) = "publish" /\ <<"publish", "stop", "close_events">> # <<>>
    OBVIOUS
  <2> QED BY <1>1, <2>1, <2>2 DEF FailTodos, FailSteps, NextStep
<1>2. CASE s = <<"publish", "stop", "close_events">>
  <2>1. Head(s) = "publish" /\ Tail(s) = <<"stop", "close_events">>
    BY <1>2
  <2>2. Head(<<"stop", "close_events">>) = "stop" /\ <<"stop", "close_events">> # <<>>
    OBVIOUS
  <2> QED BY <1>2, <2>1, <2>2 DEF FailTodos, FailSteps, NextStep
<1>3. CASE s = <<"stop", "close_events">>
  <2>1. Head(s) = "stop" /\ Tail(s) = <<"close_events">>
    BY <1>3
  <2>2. Head(<<"close_events">>) = "close_events" /\ <<"close_events">> # <<>>
    OBVIOUS
  <2> QED BY <1>3, <2>1, <2>2 DEF FailTodos, FailSteps, NextStep
<1>4. CASE s = <<"close_events">>
  <2>1. Head(s) = "close_events" /\ Tail(s) = <<>>
    BY <1>4
  <2> QED BY <1>4, <2>1 DEF FailTodos, FailSteps, NextStep
<1> QED BY <1>1, <1>2, <1>3, <1>4 DEF FailTodos, FailSteps

\* A closing caller goes on.
LEMMA CloseAdvances ==
  ASSUME NEW s \in CloseTodos, s # <<>>
  PROVE  /\ Tail(s) \in CloseTodos /\ NextStep(s)
         /\ Head(s) # "mark_drained"
<1>1. CASE s = <<"mark_closed", "publish", "stop", "wait", "return">>
  <2>1. Head(s) = "mark_closed" /\ Tail(s) = <<"publish", "stop", "wait", "return">>
    BY <1>1
  <2>2. Head(<<"publish", "stop", "wait", "return">>) = "publish" /\ <<"publish", "stop", "wait", "return">> # <<>>
    OBVIOUS
  <2> QED BY <1>1, <2>1, <2>2 DEF CloseTodos, CloseSteps, NextStep
<1>2. CASE s = <<"publish", "stop", "wait", "return">>
  <2>1. Head(s) = "publish" /\ Tail(s) = <<"stop", "wait", "return">>
    BY <1>2
  <2>2. Head(<<"stop", "wait", "return">>) = "stop" /\ <<"stop", "wait", "return">> # <<>>
    OBVIOUS
  <2> QED BY <1>2, <2>1, <2>2 DEF CloseTodos, CloseSteps, NextStep
<1>3. CASE s = <<"stop", "wait", "return">>
  <2>1. Head(s) = "stop" /\ Tail(s) = <<"wait", "return">>
    BY <1>3
  <2>2. Head(<<"wait", "return">>) = "wait" /\ <<"wait", "return">> # <<>>
    OBVIOUS
  <2> QED BY <1>3, <2>1, <2>2 DEF CloseTodos, CloseSteps, NextStep
<1>4. CASE s = <<"wait", "return">>
  <2>1. Head(s) = "wait" /\ Tail(s) = <<"return">>
    BY <1>4
  <2>2. Head(<<"return">>) = "return" /\ <<"return">> # <<>>
    OBVIOUS
  <2> QED BY <1>4, <2>1, <2>2 DEF CloseTodos, CloseSteps, NextStep
<1>5. CASE s = <<"return">>
  <2>1. Head(s) = "return" /\ Tail(s) = <<>>
    BY <1>5
  <2> QED BY <1>5, <2>1 DEF CloseTodos, CloseSteps, NextStep
<1> QED BY <1>1, <1>2, <1>3, <1>4, <1>5 DEF CloseTodos, CloseSteps

\* The child's worker goes on.
LEMMA ExitAdvances ==
  ASSUME NEW s \in ExitTodos, s # <<>>
  PROVE  /\ Tail(s) \in ExitTodos /\ NextStep(s)
         /\ Head(s) \notin {"mark_drained", "wait", "return"}
<1>1. CASE s = <<"mark_exit", "stop", "publish_exit", "drop_master">>
  <2>1. Head(s) = "mark_exit" /\ Tail(s) = <<"stop", "publish_exit", "drop_master">>
    BY <1>1
  <2>2. Head(<<"stop", "publish_exit", "drop_master">>) = "stop" /\ <<"stop", "publish_exit", "drop_master">> # <<>>
    OBVIOUS
  <2> QED BY <1>1, <2>1, <2>2 DEF ExitTodos, ExitSteps, NextStep
<1>2. CASE s = <<"stop", "publish_exit", "drop_master">>
  <2>1. Head(s) = "stop" /\ Tail(s) = <<"publish_exit", "drop_master">>
    BY <1>2
  <2>2. Head(<<"publish_exit", "drop_master">>) = "publish_exit" /\ <<"publish_exit", "drop_master">> # <<>>
    OBVIOUS
  <2> QED BY <1>2, <2>1, <2>2 DEF ExitTodos, ExitSteps, NextStep
<1>3. CASE s = <<"publish_exit", "drop_master">>
  <2>1. Head(s) = "publish_exit" /\ Tail(s) = <<"drop_master">>
    BY <1>3
  <2>2. Head(<<"drop_master">>) = "drop_master" /\ <<"drop_master">> # <<>>
    OBVIOUS
  <2> QED BY <1>3, <2>1, <2>2 DEF ExitTodos, ExitSteps, NextStep
<1>4. CASE s = <<"drop_master">>
  <2>1. Head(s) = "drop_master" /\ Tail(s) = <<>>
    BY <1>4
  <2> QED BY <1>4, <2>1 DEF ExitTodos, ExitSteps, NextStep
<1> QED BY <1>1, <1>2, <1>3, <1>4 DEF ExitTodos, ExitSteps

\* The reader goes on, and ends with the exit that waited for it.
LEMMA DrainAdvances ==
  ASSUME NEW s \in DrainTodos, s # <<>>
  PROVE  /\ Tail(s) \in DrainTodos /\ NextStep(s)
         /\ Head(s) \notin {"wait", "return"} /\ (Head(s) = "mark_drained" => Tail(s) \in DrainRest)
         /\ s \in DrainRest => Tail(s) \in DrainRest
<1>1. CASE s = <<"mark_error", "publish", "stop", "close_events", "mark_drained", "publish_exit", "drop_master">>
  <2>1. Head(s) = "mark_error" /\ Tail(s) = <<"publish", "stop", "close_events", "mark_drained", "publish_exit", "drop_master">>
    BY <1>1
  <2>2. Head(<<"publish", "stop", "close_events", "mark_drained", "publish_exit", "drop_master">>) = "publish" /\ <<"publish", "stop", "close_events", "mark_drained", "publish_exit", "drop_master">> # <<>>
    OBVIOUS
  <2> QED BY <1>1, <2>1, <2>2 DEF DrainTodos, DrainSteps, NextStep, DrainRest
<1>2. CASE s = <<"publish", "stop", "close_events", "mark_drained", "publish_exit", "drop_master">>
  <2>1. Head(s) = "publish" /\ Tail(s) = <<"stop", "close_events", "mark_drained", "publish_exit", "drop_master">>
    BY <1>2
  <2>2. Head(<<"stop", "close_events", "mark_drained", "publish_exit", "drop_master">>) = "stop" /\ <<"stop", "close_events", "mark_drained", "publish_exit", "drop_master">> # <<>>
    OBVIOUS
  <2> QED BY <1>2, <2>1, <2>2 DEF DrainTodos, DrainSteps, NextStep, DrainRest
<1>3. CASE s = <<"stop", "close_events", "mark_drained", "publish_exit", "drop_master">>
  <2>1. Head(s) = "stop" /\ Tail(s) = <<"close_events", "mark_drained", "publish_exit", "drop_master">>
    BY <1>3
  <2>2. Head(<<"close_events", "mark_drained", "publish_exit", "drop_master">>) = "close_events" /\ <<"close_events", "mark_drained", "publish_exit", "drop_master">> # <<>>
    OBVIOUS
  <2> QED BY <1>3, <2>1, <2>2 DEF DrainTodos, DrainSteps, NextStep, DrainRest
<1>4. CASE s = <<"close_events", "mark_drained", "publish_exit", "drop_master">>
  <2>1. Head(s) = "close_events" /\ Tail(s) = <<"mark_drained", "publish_exit", "drop_master">>
    BY <1>4
  <2>2. Head(<<"mark_drained", "publish_exit", "drop_master">>) = "mark_drained" /\ <<"mark_drained", "publish_exit", "drop_master">> # <<>>
    OBVIOUS
  <2> QED BY <1>4, <2>1, <2>2 DEF DrainTodos, DrainSteps, NextStep, DrainRest
<1>5. CASE s = <<"mark_drained", "publish_exit", "drop_master">>
  <2>1. Head(s) = "mark_drained" /\ Tail(s) = <<"publish_exit", "drop_master">>
    BY <1>5
  <2>2. Head(<<"publish_exit", "drop_master">>) = "publish_exit" /\ <<"publish_exit", "drop_master">> # <<>>
    OBVIOUS
  <2> QED BY <1>5, <2>1, <2>2 DEF DrainTodos, DrainSteps, NextStep, DrainRest
<1>6. CASE s = <<"publish_exit", "drop_master">>
  <2>1. Head(s) = "publish_exit" /\ Tail(s) = <<"drop_master">>
    BY <1>6
  <2>2. Head(<<"drop_master">>) = "drop_master" /\ <<"drop_master">> # <<>>
    OBVIOUS
  <2> QED BY <1>6, <2>1, <2>2 DEF DrainTodos, DrainSteps, NextStep, DrainRest
<1>7. CASE s = <<"drop_master">>
  <2>1. Head(s) = "drop_master" /\ Tail(s) = <<>>
    BY <1>7
  <2> QED BY <1>7, <2>1 DEF DrainTodos, DrainSteps, NextStep, DrainRest
<1> QED BY <1>1, <1>2, <1>3, <1>4, <1>5, <1>6, <1>7 DEF DrainTodos, DrainSteps

\* A thread goes on with its own procedure.
LEMMA TodoAdvances ==
  ASSUME NEW t \in Threads, NEW s \in TodosOf(t), s # <<>>
  PROVE  /\ Tail(s) \in TodosOf(t) /\ NextStep(s)
         /\ Head(s) = "mark_drained" => t = "reader" /\ Tail(s) \in DrainRest
         /\ t = "reader" /\ s \in DrainRest => Tail(s) \in DrainRest
         /\ Head(s) \in {"wait", "return"} => t \in Closers
<1>1. CASE t \in Closers
  <2>1. s \in CloseTodos /\ t # "reader" /\ TodosOf(t) = CloseTodos
    BY <1>1, TerminalAssumption DEF TodosOf
  <2> QED BY <1>1, <2>1, CloseAdvances
<1>2. CASE t = "reader" /\ t \notin Closers
  <2>1. s \in DrainTodos /\ TodosOf(t) = DrainTodos
    BY <1>2 DEF TodosOf
  <2> QED BY <1>2, <2>1, DrainAdvances
<1>3. CASE t # "reader" /\ t \notin Closers /\ s \in FailTodos
  <2>1. FailTodos \subseteq TodosOf(t)
    BY <1>3 DEF TodosOf
  <2> QED BY <1>3, <2>1, FailAdvances
<1>4. CASE t # "reader" /\ t \notin Closers /\ s \notin FailTodos
  <2>1. s \in ExitTodos /\ ExitTodos \subseteq TodosOf(t)
    BY <1>4 DEF TodosOf
  <2> QED BY <1>4, <2>1, ExitAdvances
<1> QED BY <1>1, <1>2, <1>3, <1>4

\* A step of a procedure, as far as the thread's own state goes.
Moves(t, p, y, k) ==
  thread' = [thread EXCEPT ![t] = [pc |-> p, todo |-> Tail(thread[t].todo), say |-> y, ok |-> k]]

\* What a step of thread t's procedure leaves for the invariant.
StepLeaves(t) ==
  /\ shell # "none"
  /\ thread' \in [Threads -> ThreadStates] /\ \A u \in Threads : thread'[u].todo \in TodosOf(u)
  /\ \A u \in Threads \ {t} : thread'[u] = thread[u]
  /\ thread'["reader"].pc = thread["reader"].pc /\ thread'["child"].pc = thread["child"].pc
  /\ thread["reader"].todo \in DrainRest
       => thread'["reader"].todo \in DrainRest
  /\ ~Free("reader")' => ~Free("reader")
  /\ \A x \in {"mark_error", "publish", "stop", "wait", "return"}, u \in Threads \ {t} : At(u, x)' <=> At(u, x)
  /\ ~At(t, "mark_error")'
  /\ At(t, "publish")' \/ At(t, "stop")'
       => At(t, "mark_error") \/ At(t, "mark_closed") \/ At(t, "mark_exit") \/ At(t, "publish")
  /\ At(t, "return")' => At(t, "wait") /\ t \in Closers
  /\ At(t, "wait")' => At(t, "stop")
  /\ At(t, "mark_drained") => t = "reader" /\ thread'["reader"].todo \in DrainRest
  /\ t \in Workers => ~AllEnded
  /\ t \notin Workers => \A w \in Workers : thread'[w] = thread[w]

\* A thread that goes on with its procedure.
LEMMA StepMoves ==
  ASSUME TermInv, NEW t \in Threads, ~Free(t), NEW p \in {"idle", "run", "push", "write", "end"},
         p = thread[t].pc \/ t \in Closers,
         NEW y \in {"none", "error", "closed", "exited"}, NEW k \in BOOLEAN, Moves(t, p, y, k)
  PROVE  StepLeaves(t)
<1> DEFINE s == thread[t].todo
           r == [pc |-> p, todo |-> Tail(s), say |-> y, ok |-> k]
<1>1. thread \in [Threads -> ThreadStates] /\ s \in TodosOf(t) /\ s # <<>>
  BY DEF TermInv, TermTypes, Free
<1>2. /\ Tail(s) \in TodosOf(t) /\ NextStep(s)
      /\ Head(s) = "mark_drained" => t = "reader" /\ Tail(s) \in DrainRest
      /\ t = "reader" /\ s \in DrainRest => Tail(s) \in DrainRest
  BY <1>1, TodoAdvances
<1>3. r \in ThreadStates
  <2>1. Tail(s) \in CloseTodos \cup DrainTodos \cup ExitTodos \cup FailTodos
    BY <1>2 DEF TodosOf
  <2> QED BY <2>1 DEF ThreadStates
<1>4. thread' = [thread EXCEPT ![t] = r]
  BY DEF Moves
<1>5. r.todo = Tail(s) /\ r.pc = p
  OBVIOUS
<1> HIDE DEF r
<1>6. /\ thread' \in [Threads -> ThreadStates] /\ thread'[t] = r
      /\ \A u \in Threads \ {t} : thread'[u] = thread[u]
  BY <1>1, <1>3, <1>4
<1>7. \A u \in Threads : thread'[u].todo \in TodosOf(u)
  BY <1>2, <1>5, <1>6 DEF TermInv, TermTypes
<1>8. "reader" \in Threads \ Closers /\ "child" \in Threads \ Closers /\ Workers = Threads \ Closers
  BY TerminalAssumption DEF Threads, Workers
<1>9. /\ thread'["reader"].pc = thread["reader"].pc /\ thread'["child"].pc = thread["child"].pc
  BY <1>5, <1>6, <1>8
<1>10. shell # "none"
  <2>1. s # Plan("idle").todo
    BY <1>1 DEF Plan
  <2> QED BY <2>1 DEF TermInv, NothingOpen
<1>11. thread["reader"].todo \in DrainRest
         => thread'["reader"].todo \in DrainRest
  BY <1>1, <1>2, <1>5, <1>6, <1>8
<1>12. \A x, u : u \in Threads \ {t} => (At(u, x)' <=> At(u, x))
  BY <1>6 DEF At, Free
<1>13. \A x : At(t, x)' <=> Tail(s) # <<>> /\ Head(Tail(s)) = x
  BY <1>5, <1>6 DEF At, Free
<1>14. \A x : At(t, x) <=> Head(s) = x
  BY <1>1 DEF At, Free
<1>15. t \in Workers => ~AllEnded
  BY DEF AllEnded, Ended
<1>16. At(t, "return")' => At(t, "wait") /\ t \in Closers
  <2>1. At(t, "return")' => Head(s) = "wait"
    BY <1>2, <1>13 DEF NextStep
  <2>2. At(t, "return")' => t \in Closers
    BY <1>2, <1>13, TodoAdvances
  <2> QED BY <1>14, <2>1, <2>2
<1>17. /\ ~At(t, "mark_error")' /\ (At(t, "wait")' => At(t, "stop"))
       /\ At(t, "publish")' \/ At(t, "stop")'
            => At(t, "mark_error") \/ At(t, "mark_closed") \/ At(t, "mark_exit") \/ At(t, "publish")
  BY <1>2, <1>13, <1>14 DEF NextStep
<1>18. At(t, "mark_drained") => t = "reader" /\ thread'["reader"].todo \in DrainRest
  BY <1>2, <1>5, <1>6, <1>14
<1>20. ~Free("reader")' => ~Free("reader")
  BY <1>1, <1>6, <1>8 DEF Free
<1>19. t \notin Workers => \A w \in Workers : thread'[w] = thread[w]
  BY <1>6, <1>8
<1> QED BY <1>6, <1>7, <1>9, <1>10, <1>11, <1>12, <1>15, <1>16, <1>17, <1>18, <1>19, <1>20 DEF StepLeaves

\* A thread's record after a step.
LEMMA ThreadRecord ==
  ASSUME NEW P, NEW T, NEW Y, NEW K, NEW x \in [pc : P, todo : T, say : Y, ok : K],
         NEW w, NEW z, NEW y, NEW k, NEW p
  PROVE  /\ w = [x EXCEPT !.todo = z, !.say = y] => w = [pc |-> x.pc, todo |-> z, say |-> y, ok |-> x.ok]
         /\ w = [x EXCEPT !.todo = z, !.ok = k] => w = [pc |-> x.pc, todo |-> z, say |-> x.say, ok |-> k]
         /\ w = [x EXCEPT !.todo = z, !.pc = p] => w = [pc |-> p, todo |-> z, say |-> x.say, ok |-> x.ok]
         /\ w = [x EXCEPT !.pc = p, !.todo = z] => w = [pc |-> p, todo |-> z, say |-> x.say, ok |-> x.ok]
         /\ w = [x EXCEPT !.todo = z] => w = [pc |-> x.pc, todo |-> z, say |-> x.say, ok |-> x.ok]
         /\ w = [x EXCEPT !.pc = p] => w = [pc |-> p, todo |-> x.todo, say |-> x.say, ok |-> x.ok]
<1>1. ASSUME w = [x EXCEPT !.todo = z, !.say = y] PROVE w = [pc |-> x.pc, todo |-> z, say |-> y, ok |-> x.ok]
  BY <1>1
<1>2. ASSUME w = [x EXCEPT !.todo = z, !.ok = k] PROVE w = [pc |-> x.pc, todo |-> z, say |-> x.say, ok |-> k]
  BY <1>2
<1>3. ASSUME w = [x EXCEPT !.todo = z, !.pc = p] PROVE w = [pc |-> p, todo |-> z, say |-> x.say, ok |-> x.ok]
  BY <1>3
<1>4. ASSUME w = [x EXCEPT !.pc = p, !.todo = z] PROVE w = [pc |-> p, todo |-> z, say |-> x.say, ok |-> x.ok]
  BY <1>4
<1>5. ASSUME w = [x EXCEPT !.todo = z] PROVE w = [pc |-> x.pc, todo |-> z, say |-> x.say, ok |-> x.ok]
  BY <1>5
<1>6. ASSUME w = [x EXCEPT !.pc = p] PROVE w = [pc |-> p, todo |-> x.todo, say |-> x.say, ok |-> x.ok]
  BY <1>6
<1> QED BY <1>1, <1>2, <1>3, <1>4, <1>5, <1>6

\* The thread's state after a step.
LEMMA StepForms ==
  ASSUME thread \in [Threads -> ThreadStates], NEW t \in Threads, NEW y, NEW k, NEW p
  PROVE  /\ thread' = [thread EXCEPT ![t].todo = Tail(@), ![t].say = y] => Moves(t, thread[t].pc, y, thread[t].ok)
         /\ thread' = [thread EXCEPT ![t].todo = Tail(@), ![t].ok = k] => Moves(t, thread[t].pc, thread[t].say, k)
         /\ thread' = [thread EXCEPT ![t].todo = Tail(@), ![t].pc = p] => Moves(t, p, thread[t].say, thread[t].ok)
         /\ thread' = [thread EXCEPT ![t].todo = Tail(@)] => Moves(t, thread[t].pc, thread[t].say, thread[t].ok)
<1> DEFINE x == thread[t]
           z == Tail(thread[t].todo)
<1>1. x \in ThreadStates
  OBVIOUS
<1>2. ASSUME thread' = [thread EXCEPT ![t].todo = Tail(@), ![t].say = y]
      PROVE  Moves(t, thread[t].pc, y, thread[t].ok)
  <2>1. PICK w : w = [x EXCEPT !.todo = z, !.say = y] /\ thread' = [thread EXCEPT ![t] = w]
    BY <1>2
  <2>2. w = [pc |-> x.pc, todo |-> z, say |-> y, ok |-> x.ok]
    <3> HIDE DEF x, z
    <3> QED BY <1>1, <2>1, ThreadRecord DEF ThreadStates
  <2> QED BY <2>1, <2>2 DEF Moves
<1>3. ASSUME thread' = [thread EXCEPT ![t].todo = Tail(@), ![t].ok = k]
      PROVE  Moves(t, thread[t].pc, thread[t].say, k)
  <2>1. PICK w : w = [x EXCEPT !.todo = z, !.ok = k] /\ thread' = [thread EXCEPT ![t] = w]
    BY <1>3
  <2>2. w = [pc |-> x.pc, todo |-> z, say |-> x.say, ok |-> k]
    <3> HIDE DEF x, z
    <3> QED BY <1>1, <2>1, ThreadRecord DEF ThreadStates
  <2> QED BY <2>1, <2>2 DEF Moves
<1>4. ASSUME thread' = [thread EXCEPT ![t].todo = Tail(@), ![t].pc = p]
      PROVE  Moves(t, p, thread[t].say, thread[t].ok)
  <2>1. PICK w : w = [x EXCEPT !.todo = z, !.pc = p] /\ thread' = [thread EXCEPT ![t] = w]
    BY <1>4
  <2>2. w = [pc |-> p, todo |-> z, say |-> x.say, ok |-> x.ok]
    <3> HIDE DEF x, z
    <3> QED BY <1>1, <2>1, ThreadRecord DEF ThreadStates
  <2> QED BY <2>1, <2>2 DEF Moves
<1>5. ASSUME thread' = [thread EXCEPT ![t].todo = Tail(@)]
      PROVE  Moves(t, thread[t].pc, thread[t].say, thread[t].ok)
  <2>1. PICK w : w = [x EXCEPT !.todo = z] /\ thread' = [thread EXCEPT ![t] = w]
    BY <1>5
  <2>2. w = [pc |-> x.pc, todo |-> z, say |-> x.say, ok |-> x.ok]
    <3> HIDE DEF x, z
    <3> QED BY <1>1, <2>1, ThreadRecord DEF ThreadStates
  <2> QED BY <2>1, <2>2 DEF Moves
<1> QED BY <1>2, <1>3, <1>4, <1>5

\* Every worker that has ended stays so when no worker moves.
LEMMA EndedStays ==
  ASSUME \A w \in Workers : thread'[w] = thread[w],
         halt => halt' /\ typed' <= typed /\ (size' => size), typed \in Nat, typed' \in Nat
  PROVE  AllEnded => AllEnded'
BY DEF AllEnded, Ended, Free

\* Announcing or marking an end.
LEMMA MarkStep ==
  ASSUME TermInv, NEW t \in Threads, MarkEnd(t) \/ MarkExit(t) \/ MarkDrained(t)
  PROVE  TermInv'
<1> DEFINE first == ~life.sent
           now == ~life.sent /\ life.drained
           then == ~life.sent /\ life.status
<1>1. /\ ~Free(t) /\ thread[t] \in ThreadStates /\ thread \in [Threads -> ThreadStates]
      /\ life \in LifeStates
  BY DEF TermInv, TermTypes, MarkEnd, MarkExit, MarkDrained, At
<1>2. PICK y \in {"none", "error", "closed", "exited"} :
        /\ Moves(t, thread[t].pc, y, thread[t].ok)
        /\ y = "exited" => ~life.sent /\ (life.drained \/ At(t, "mark_drained"))
  <2>1. CASE MarkEnd(t)
    <3> DEFINE y == IF first THEN IF At(t, "mark_error") THEN "error" ELSE "closed" ELSE "none"
    <3>1. thread' = [thread EXCEPT ![t].todo = Tail(@), ![t].say = y]
      BY <2>1 DEF MarkEnd
    <3>2. y \in {"none", "error", "closed"}
      OBVIOUS
    <3> HIDE DEF y
    <3>3. Moves(t, thread[t].pc, y, thread[t].ok)
      BY <1>1, <3>1, StepForms
    <3> QED BY <3>2, <3>3
  <2>2. CASE MarkExit(t)
    <3> DEFINE y == IF now THEN "exited" ELSE "none"
    <3>1. thread' = [thread EXCEPT ![t].todo = Tail(@), ![t].say = y]
      BY <2>2 DEF MarkExit
    <3>2. y \in {"none", "exited"} /\ (y = "exited" => now)
      OBVIOUS
    <3> HIDE DEF y
    <3>3. Moves(t, thread[t].pc, y, thread[t].ok)
      BY <1>1, <3>1, StepForms
    <3> QED BY <3>2, <3>3
  <2>3. CASE MarkDrained(t)
    <3> DEFINE y == IF then THEN "exited" ELSE "none"
    <3>1. thread' = [thread EXCEPT ![t].todo = Tail(@), ![t].say = y]
      BY <2>3 DEF MarkDrained
    <3>2. y \in {"none", "exited"} /\ (y = "exited" => then)
      OBVIOUS
    <3> HIDE DEF y
    <3>3. Moves(t, thread[t].pc, y, thread[t].ok)
      BY <1>1, <3>1, StepForms
    <3> QED BY <2>3, <3>2, <3>3 DEF MarkDrained
  <2> QED BY <2>1, <2>2, <2>3
<1>3. StepLeaves(t) /\ thread'[t].say = y /\ thread'[t].ok = thread[t].ok
  <2>1. thread[t].pc \in {"idle", "run", "push", "write", "end"} /\ thread[t].ok \in BOOLEAN
    BY <1>1 DEF ThreadStates
  <2> QED BY <1>1, <1>2, <2>1, StepMoves DEF Moves
<1>4. /\ life' \in LifeStates /\ (life.sent => life'.sent) /\ (life'.closed => life'.sent)
      /\ life.sent \/ life.status => life'.sent \/ life'.status
      /\ At(t, "mark_error") \/ At(t, "mark_closed") \/ At(t, "mark_exit") => life'.sent \/ life'.status
      /\ At(t, "mark_error") => life'.sent
      /\ life'.drained => life.drained \/ At(t, "mark_drained")
  <2>1. life.closed => life.sent
    BY DEF TermInv, StopsAreMarked
  <2>2. CASE MarkEnd(t)
    BY <1>1, <2>1, <2>2 DEF MarkEnd, LifeStates, At
  <2>3. CASE MarkExit(t)
    BY <1>1, <2>1, <2>3 DEF MarkExit, LifeStates, At
  <2>4. CASE MarkDrained(t)
    BY <1>1, <2>1, <2>4 DEF MarkDrained, LifeStates, At
  <2> QED BY <2>2, <2>3, <2>4
<1>5. /\ UNCHANGED <<shell, kids, written, ptyBuf, typed, size, events, shownFinal>>
      /\ UNCHANGED <<halt, master, job, owned, joined, late, ptyFaults, calls>>
  BY DEF MarkEnd, MarkExit, MarkDrained, shellVars, queueVars, envVars
<1>6. TermTypes'
  BY <1>3, <1>4, <1>5 DEF TermInv, TermTypes, StepLeaves
<1>7. NothingOpen'
  BY <1>3, <1>5 DEF NothingOpen, StepLeaves
<1>8. StopsAreMarked'
  BY <1>3, <1>4, <1>5 DEF TermInv, StopsAreMarked, StepLeaves
<1>9. FinalsAreMarked'
  BY <1>5 DEF TermInv, FinalsAreMarked
<1>10. TailIsTaken => TailIsTaken'
  BY <1>3, <1>5 DEF Held, TailIsTaken, StepLeaves
<1>11. y = "exited" => TailIsTaken
  <2>1. CASE life.drained
    <3>1. thread["reader"].pc = "end" /\ thread["reader"].todo \in DrainRest
      BY <2>1 DEF TermInv, ExitsAwaitTail
    <3>2. ~At("reader", "mark_error")
      BY <3>1 DEF At, Free, DrainRest
    <3> QED BY <1>2, <3>1, <3>2 DEF TermInv, ExitsAwaitTail
  <2>2. CASE At(t, "mark_drained")
    <3>1. t = "reader" /\ ~At("reader", "mark_error") /\ ~Free("reader")
      BY <1>3, <2>2 DEF StepLeaves, At
    <3> QED BY <1>2, <3>1 DEF TermInv, ExitsAwaitTail
  <2> QED BY <1>2, <2>1, <2>2
<1>12. ExitsAwaitTail'
  <2>1. \A u \in Threads : thread'[u].say = "exited" => TailIsTaken'
    BY <1>3, <1>10, <1>11 DEF TermInv, ExitsAwaitTail, StepLeaves
  <2>2. thread'["reader"].pc = "end" => TailIsTaken' \/ life'.sent \/ At("reader", "mark_error")'
    <3>1. At("reader", "mark_error") => life'.sent \/ At("reader", "mark_error")'
      BY <1>3, <1>4, TerminalAssumption DEF StepLeaves, Threads, Workers
    <3> QED BY <1>3, <1>4, <1>10, <3>1 DEF TermInv, ExitsAwaitTail, StepLeaves
  <2>3. life'.drained => /\ thread'["reader"].pc = "end"
                         /\ thread'["reader"].todo \in DrainRest
    <3>1. At(t, "mark_drained") => ~Free("reader") /\ thread'["reader"].todo \in DrainRest
      BY <1>1, <1>3 DEF StepLeaves
    <3> QED BY <1>3, <1>4, <3>1 DEF TermInv, ExitsAwaitTail, StepLeaves
  <2> QED BY <1>3, <1>5, <1>10, <2>1, <2>2, <2>3 DEF TermInv, ExitsAwaitTail, StepLeaves
<1>13. AllEnded => AllEnded'
  BY <1>3, <1>5, EndedStays DEF TermInv, TermTypes, StepLeaves
<1>14. SessionIsHeld'
  <2>1. ~At(t, "wait") /\ ~At(t, "stop")
    BY DEF MarkEnd, MarkExit, MarkDrained, At
  <2>2. \A c \in Closers : At(c, "return")' /\ thread'[c].ok => joined'
    BY <1>3, <1>5, <2>1 DEF TermInv, SessionIsHeld, StepLeaves, Threads
  <2>3. \A c \in Closers : At(c, "wait")' => halt'
    BY <1>3, <1>5, <2>1 DEF TermInv, SessionIsHeld, StepLeaves, Threads
  <2>4. joined' => AllEnded' /\ halt'
    BY <1>5, <1>13 DEF TermInv, SessionIsHeld
  <2> QED BY <1>3, <1>5, <2>2, <2>3, <2>4 DEF TermInv, SessionIsHeld, StepLeaves
<1> QED BY <1>6, <1>7, <1>8, <1>9, <1>12, <1>14 DEF TermInv

\* The event queue after a terminal event, closed with it or not.
Published(e, kind, b) == [PushFinal(e, kind) EXCEPT !.closed = @ \/ b]

\* push_terminal: the event is the queue's last, and the oldest makes room for it.
LEMMA FinalPushed ==
  ASSUME NEW e \in TermQueues, Len(e.q) <= MaxEvents, NEW kind \in {"error", "closed", "exited"},
         \A i \in 1..Len(e.q) : e.q[i] \in Finals => i = Len(e.q) /\ e.final,
         NEW b \in BOOLEAN, NEW f, f = Published(e, kind, b)
  PROVE  /\ f \in TermQueues /\ Len(f.q) <= MaxEvents /\ f.final
         /\ \A i \in 1..Len(f.q) : f.q[i] \in Finals => i = Len(f.q)
         /\ (\E i \in 1..Len(f.q) : f.q[i] = "exited")
              => kind = "exited" \/ \E i \in 1..Len(e.q) : e.q[i] = "exited"
         /\ e.final => f.q = e.q
<1> DEFINE q == e.q
           r == IF Len(q) >= MaxEvents THEN Tail(q) ELSE q
<1>1. q \in Seq(TermEvents) /\ e.closed \in BOOLEAN /\ e.final \in BOOLEAN /\ kind \in TermEvents
  BY DEF TermQueues, TermEvents
<1>2. /\ f.final = TRUE /\ f.closed \in BOOLEAN
      /\ f = [q |-> f.q, closed |-> f.closed, final |-> f.final]
      /\ e.final \/ e.closed => f.q = q
      /\ ~e.final /\ ~e.closed => f.q = Append(r, kind)
  <2>1. CASE e.final \/ e.closed
    BY <1>1, <2>1 DEF Published, PushFinal, TermQueues
  <2>2. CASE ~e.final /\ ~e.closed
    <3>1. PICK g : g = [e EXCEPT !.final = TRUE, !.q = Append(r, kind)] /\ g = PushFinal(e, kind)
      BY <2>2 DEF PushFinal
    <3> HIDE DEF r, q
    <3>2. /\ g.q = Append(r, kind) /\ g.final = TRUE /\ g.closed = e.closed
          /\ g = [q |-> g.q, closed |-> g.closed, final |-> g.final]
      BY <3>1 DEF TermQueues
    <3>3. f = [g EXCEPT !.closed = @ \/ b]
      BY <3>1 DEF Published
    <3> QED BY <1>1, <2>2, <3>2, <3>3
  <2> QED BY <2>1, <2>2
<1> HIDE DEF q
<1>3. CASE e.final \/ e.closed
  <2>1. f.q = q /\ f = [q |-> f.q, closed |-> f.closed, final |-> f.final]
    BY <1>2, <1>3
  <2>2. f \in TermQueues
    BY <1>1, <1>2, <2>1 DEF TermQueues
  <2> QED BY <1>2, <2>1, <2>2 DEF q
<1>4. CASE ~e.final /\ ~e.closed
  <2>1. MaxEvents \in Nat \ {0} /\ Len(q) \in Nat /\ Len(q) <= MaxEvents
    BY <1>1, TerminalAssumption DEF q
  <2>2. \A i \in 1..Len(q) : q[i] \notin Finals
    BY <1>4 DEF q
  <2>3. /\ r \in Seq(TermEvents) /\ Len(r) < MaxEvents
        /\ \A i \in 1..Len(r) : \E j \in 1..Len(q) : r[i] = q[j]
    <3>1. CASE Len(q) >= MaxEvents
      <4>1. q # <<>>
        BY <1>1, <2>1, <3>1
      <4>2. Tail(q) \in Seq(TermEvents) /\ Len(Tail(q)) = Len(q) - 1 /\ \A i \in 1..Len(Tail(q)) : Tail(q)[i] = q[i + 1]
        BY <1>1, <4>1, HeadTailProperties
      <4>3. \A i \in 1..Len(Tail(q)) : i + 1 \in 1..Len(q)
        BY <2>1, <4>2
      <4> QED BY <2>1, <3>1, <4>2, <4>3
    <3>2. CASE ~(Len(q) >= MaxEvents)
      BY <1>1, <2>1, <3>2
    <3> QED BY <3>1, <3>2
  <2> HIDE DEF r
  <2>4. /\ Append(r, kind) \in Seq(TermEvents) /\ Len(Append(r, kind)) = Len(r) + 1
        /\ \A i \in 1..Len(r) : Append(r, kind)[i] = r[i]
        /\ Append(r, kind)[Len(r) + 1] = kind
    BY <1>1, <2>3, AppendProperties
  <2>5. f.q = Append(r, kind) /\ Len(r) \in Nat
    BY <1>2, <1>4, <2>3
  <2>6. \A i \in 1..Len(f.q) : i = Len(f.q) \/ (i \in 1..Len(r) /\ f.q[i] = r[i])
    BY <2>4, <2>5
  <2>7. f \in TermQueues /\ Len(f.q) <= MaxEvents
    <3>1. f.q \in Seq(TermEvents) /\ Len(f.q) <= MaxEvents
      <4>1. f.q \in Seq(TermEvents) /\ Len(f.q) = Len(r) + 1
        BY <2>4, <2>5
      <4>2. Len(r) + 1 <= MaxEvents
        BY <2>1, <2>3, <2>5
      <4> QED BY <4>1, <4>2
    <3> QED BY <1>2, <3>1 DEF TermQueues
  <2>8. \A i \in 1..Len(f.q) : f.q[i] \in Finals => i = Len(f.q)
    BY <2>2, <2>3, <2>6
  <2>9. (\E i \in 1..Len(f.q) : f.q[i] = "exited") => kind = "exited"
    <3>1. \A i \in 1..Len(f.q) : f.q[i] = kind \/ f.q[i] \notin Finals
      BY <2>2, <2>3, <2>4, <2>5, <2>6
    <3> QED BY <3>1 DEF Finals
  <2> QED BY <1>2, <1>4, <2>7, <2>8, <2>9
<1> QED BY <1>1, <1>3, <1>4

\* Publishing a terminal event.
LEMMA PublishStep ==
  ASSUME TermInv, NEW t \in Threads, PublishEnd(t)
  PROVE  TermInv'
<1>1. /\ ~Free(t) /\ thread[t] \in ThreadStates /\ thread \in [Threads -> ThreadStates]
      /\ events \in TermQueues /\ Len(events.q) <= MaxEvents /\ ~At(t, "wait") /\ ~At(t, "stop")
      /\ ~At(t, "mark_error") /\ ~At(t, "mark_closed") /\ ~At(t, "mark_exit") /\ ~At(t, "mark_drained")
  BY DEF TermInv, TermTypes, PublishEnd, At
<1>2. Moves(t, thread[t].pc, "none", thread[t].ok)
  BY <1>1, StepForms DEF PublishEnd
<1>3. StepLeaves(t) /\ thread'[t].say = "none" /\ thread'[t].ok = thread[t].ok
  <2>1. thread[t].pc \in {"idle", "run", "push", "write", "end"} /\ thread[t].ok \in BOOLEAN
    BY <1>1 DEF ThreadStates
  <2> QED BY <1>1, <1>2, <2>1, StepMoves DEF Moves
<1>4. /\ UNCHANGED <<shell, kids, written, ptyBuf, typed, size, shownFinal, life>>
      /\ UNCHANGED <<halt, master, job, owned, joined, late, ptyFaults, calls>>
  BY DEF PublishEnd, shellVars, lifeVars, envVars
<1>6. /\ events' \in TermQueues /\ Len(events'.q) <= MaxEvents
      /\ \A i \in 1..Len(events'.q) : events'.q[i] \in Finals => i = Len(events'.q) /\ events'.final
      /\ (\E i \in 1..Len(events'.q) : events'.q[i] = "exited")
           => thread[t].say = "exited" \/ \E i \in 1..Len(events.q) : events.q[i] = "exited"
      /\ events.final => events'.q = events.q /\ events'.final
  <2>1. CASE thread[t].say = "none"
    BY <1>1, <2>1 DEF TermInv, FinalsAreMarked, PublishEnd
  <2>2. CASE thread[t].say # "none"
    <3>1. thread[t].say \in {"error", "closed", "exited"}
      BY <1>1, <2>2 DEF ThreadStates
    <3>2. PICK b \in BOOLEAN : events' = Published(events, thread[t].say, b)
      BY <2>2 DEF PublishEnd, Published, At
    <3>3. \A i \in 1..Len(events.q) : events.q[i] \in Finals => i = Len(events.q) /\ events.final
      BY DEF TermInv, FinalsAreMarked
    <3>4. /\ events' \in TermQueues /\ Len(events'.q) <= MaxEvents /\ events'.final
          /\ \A i \in 1..Len(events'.q) : events'.q[i] \in Finals => i = Len(events'.q)
          /\ (\E i \in 1..Len(events'.q) : events'.q[i] = "exited")
               => thread[t].say = "exited" \/ \E i \in 1..Len(events.q) : events.q[i] = "exited"
          /\ events.final => events'.q = events.q
      <4> HIDE DEF Finals
      <4> QED BY <1>1, <3>1, <3>2, <3>3, FinalPushed
    <3> QED BY <3>4
  <2> QED BY <2>1, <2>2
<1>7. TermTypes'
  BY <1>3, <1>4, <1>6 DEF TermInv, TermTypes, StepLeaves
<1>8. NothingOpen'
  BY <1>3, <1>4 DEF NothingOpen, StepLeaves
<1>9. StopsAreMarked'
  BY <1>1, <1>3, <1>4 DEF TermInv, StopsAreMarked, StepLeaves
<1>10. FinalsAreMarked'
  BY <1>4, <1>6 DEF TermInv, FinalsAreMarked
<1>11. TailIsTaken => TailIsTaken'
  BY <1>3, <1>4 DEF Held, TailIsTaken, StepLeaves
<1>12. ExitsAwaitTail'
  <2>1. \A u \in Threads : thread'[u].say = "exited" => TailIsTaken'
    BY <1>3, <1>11 DEF TermInv, ExitsAwaitTail, StepLeaves
  <2>2. (\E i \in 1..Len(events'.q) : events'.q[i] = "exited") => TailIsTaken'
    BY <1>6, <1>11 DEF TermInv, ExitsAwaitTail
  <2>3. At("reader", "mark_error") => At("reader", "mark_error")'
    BY <1>1, <1>3 DEF StepLeaves, Threads, Workers
  <2> QED BY <1>3, <1>4, <1>11, <2>1, <2>2, <2>3 DEF TermInv, ExitsAwaitTail, StepLeaves
<1>13. AllEnded => AllEnded'
  BY <1>3, <1>4, EndedStays DEF TermInv, TermTypes, StepLeaves
<1>14. SessionIsHeld'
  <2>1. \A c \in Closers : At(c, "return")' /\ thread'[c].ok => joined'
    BY <1>1, <1>3, <1>4 DEF TermInv, SessionIsHeld, StepLeaves, Threads
  <2>2. \A c \in Closers : At(c, "wait")' => halt'
    BY <1>1, <1>3, <1>4 DEF TermInv, SessionIsHeld, StepLeaves, Threads
  <2>3. joined' => AllEnded' /\ halt'
    BY <1>4, <1>13 DEF TermInv, SessionIsHeld
  <2> QED BY <1>3, <1>4, <2>1, <2>2, <2>3 DEF TermInv, SessionIsHeld, StepLeaves
<1> QED BY <1>7, <1>8, <1>9, <1>10, <1>12, <1>14 DEF TermInv

\* Stopping the session: no shell of it runs any more.
LEMMA StopStep ==
  ASSUME TermInv, NEW t \in Threads, StopSession(t)
  PROVE  TermInv'
<1>1. /\ ~Free(t) /\ thread[t] \in ThreadStates /\ thread \in [Threads -> ThreadStates]
      /\ ~At(t, "wait") /\ At(t, "stop")
      /\ ~At(t, "mark_error") /\ ~At(t, "mark_closed") /\ ~At(t, "mark_exit") /\ ~At(t, "mark_drained")
  BY DEF TermInv, TermTypes, StopSession, At
<1>2. PICK k \in BOOLEAN : Moves(t, thread[t].pc, thread[t].say, k) /\ (k => thread[t].ok)
  <2> DEFINE k == thread[t].ok /\ (t \in Closers => ~TerminateFails)
  <2>1. thread' = [thread EXCEPT ![t].todo = Tail(@), ![t].ok = k]
    BY DEF StopSession
  <2> HIDE DEF k
  <2>2. Moves(t, thread[t].pc, thread[t].say, k)
    BY <1>1, <2>1, StepForms
  <2> QED BY <2>2 DEF k
<1>3. StepLeaves(t) /\ thread'[t].say = thread[t].say /\ thread'[t].ok = k
  <2>1. thread[t].pc \in {"idle", "run", "push", "write", "end"} /\ thread[t].say \in {"none", "error", "closed", "exited"}
    BY <1>1 DEF ThreadStates
  <2> QED BY <1>1, <1>2, <2>1, StepMoves DEF Moves
<1>4. /\ UNCHANGED <<written, ptyBuf, events, shownFinal, life, owned, joined, late, ptyFaults, calls>>
      /\ halt' = TRUE /\ typed' = 0 /\ size' = FALSE
  BY DEF StopSession, envVars
<1>5. /\ master' \in BOOLEAN /\ (~master => ~master') /\ job' \in BOOLEAN
      /\ shell' \in {"none", "running", "zombie", "reaped"} /\ shell' # "running"
      /\ shell' = "none" <=> shell = "none"
  BY DEF TermInv, TermTypes, SessionIsHeld, StopSession
<1>14. kids' \in SUBSET Groups /\ kids' \subseteq kids /\ kids' \cap Reached = {}
  <2>1. kids \in SUBSET Groups /\ (~job => kids \cap Reached = {})
    BY DEF TermInv, TermTypes, SessionIsHeld
  <2>2. kids' = IF job THEN kids \ Reached ELSE kids
    BY DEF StopSession
  <2> QED BY <2>1, <2>2
<1>6. TermTypes'
  BY <1>3, <1>4, <1>5, <1>14 DEF TermInv, TermTypes, StepLeaves
<1>7. NothingOpen'
  BY <1>3, <1>5 DEF NothingOpen, StepLeaves
<1>8. StopsAreMarked'
  BY <1>1, <1>3, <1>4 DEF TermInv, StopsAreMarked, StepLeaves
<1>9. FinalsAreMarked'
  BY <1>4 DEF TermInv, FinalsAreMarked
<1>10. TailIsTaken => TailIsTaken'
  BY <1>3, <1>4, <1>5, <1>14 DEF Held, TailIsTaken, StepLeaves
<1>11. ExitsAwaitTail'
  <2>1. \A u \in Threads : thread'[u].say = "exited" => TailIsTaken'
    BY <1>3, <1>10 DEF TermInv, ExitsAwaitTail, StepLeaves
  <2>2. At("reader", "mark_error") => At("reader", "mark_error")'
    BY <1>1, <1>3 DEF StepLeaves, Threads, Workers
  <2> QED BY <1>3, <1>4, <1>10, <2>1, <2>2 DEF TermInv, ExitsAwaitTail, StepLeaves
<1>12. AllEnded => AllEnded'
  BY <1>3, <1>4, EndedStays DEF TermInv, TermTypes, StepLeaves
<1>13. SessionIsHeld'
  <2>1. \A c \in Closers : At(c, "return")' /\ thread'[c].ok => joined'
    BY <1>1, <1>2, <1>3, <1>4 DEF TermInv, SessionIsHeld, StepLeaves, Threads
  <2>2. ~owned' /\ shell' # "none" => joined'
    BY <1>4, <1>5 DEF TermInv, SessionIsHeld
  <2>3. joined' => AllEnded'
    BY <1>4, <1>12 DEF TermInv, SessionIsHeld
  <2> QED BY <1>4, <1>5, <1>14, <2>1, <2>2, <2>3 DEF SessionIsHeld
<1> QED BY <1>6, <1>7, <1>8, <1>9, <1>11, <1>13 DEF TermInv

\* The steps that only end something: the master, the wait, the events, the call.
LEMMA EndingStep ==
  ASSUME TermInv, NEW t \in Threads, DropMaster(t) \/ WaitWorkers(t) \/ CloseEvents(t) \/ CloseReturns(t)
  PROVE  TermInv'
<1>1. /\ ~Free(t) /\ thread[t] \in ThreadStates /\ thread \in [Threads -> ThreadStates]
      /\ ~At(t, "stop") /\ ~At(t, "publish") /\ (At(t, "wait") => WaitWorkers(t))
      /\ ~At(t, "mark_error") /\ ~At(t, "mark_closed") /\ ~At(t, "mark_exit") /\ ~At(t, "mark_drained")
  BY DEF TermInv, TermTypes, DropMaster, WaitWorkers, CloseEvents, CloseReturns, At
<1>2. PICK p \in {"idle", "run", "push", "write", "end"}, k \in BOOLEAN :
        /\ Moves(t, p, thread[t].say, k) /\ (p = thread[t].pc \/ t \in Closers)
        /\ k => thread[t].ok /\ (At(t, "wait") => AllEnded)
  <2>1. thread[t].pc \in {"idle", "run", "push", "write", "end"} /\ thread[t].ok \in BOOLEAN
    BY <1>1 DEF ThreadStates
  <2>2. CASE Done(t)
    <3>1. Moves(t, thread[t].pc, thread[t].say, thread[t].ok)
      BY <1>1, <2>2, StepForms DEF Done
    <3>2. At(t, "wait") => AllEnded \/ thread[t].ok = FALSE
      <4>1. At(t, "wait") /\ ~AllEnded => thread' = [thread EXCEPT ![t].todo = Tail(@), ![t].ok = FALSE]
        BY <1>1 DEF WaitWorkers
      <4>2. At(t, "wait") /\ ~AllEnded => Moves(t, thread[t].pc, thread[t].say, FALSE)
        BY <1>1, <4>1, StepForms
      <4>3. ASSUME Moves(t, thread[t].pc, thread[t].say, FALSE)
            PROVE  thread[t].ok = FALSE
        BY <1>1, <3>1, <4>3 DEF Moves
      <4> QED BY <4>2, <4>3
    <3> QED BY <2>1, <3>1, <3>2
  <2>3. CASE thread' = [thread EXCEPT ![t].todo = Tail(@), ![t].ok = FALSE]
    <3>1. Moves(t, thread[t].pc, thread[t].say, FALSE)
      BY <1>1, <2>3, StepForms
    <3> QED BY <2>1, <3>1
  <2>4. CASE CloseReturns(t)
    <3>1. thread' = [thread EXCEPT ![t].todo = Tail(@), ![t].pc = "end"] /\ ~At(t, "wait")
      BY <2>4 DEF CloseReturns, At
    <3>2. Moves(t, "end", thread[t].say, thread[t].ok)
      BY <1>1, <3>1, StepForms
    <3>3. t \in Closers
      <4>1. thread[t].todo \in TodosOf(t) /\ thread[t].todo # <<>> /\ Head(thread[t].todo) = "return"
        BY <2>4 DEF TermInv, TermTypes, CloseReturns, At, Free
      <4> QED BY <4>1, TodoAdvances
    <3> QED BY <2>1, <3>1, <3>2, <3>3
  <2> QED BY <2>2, <2>3, <2>4 DEF DropMaster, WaitWorkers, CloseEvents
<1>3. StepLeaves(t) /\ thread'[t].say = thread[t].say /\ thread'[t].ok = k
  <2>1. thread[t].say \in {"none", "error", "closed", "exited"}
    BY <1>1 DEF ThreadStates
  <2> QED BY <1>1, <1>2, <2>1, StepMoves, ZenonT(60) DEF Moves
<1>4. /\ UNCHANGED <<shell, kids, written, ptyBuf, typed, size, shownFinal, life>>
      /\ UNCHANGED <<halt, job, late, ptyFaults, calls>>
      /\ events'.q = events.q /\ events'.final = events.final /\ events' \in TermQueues
      /\ master' \in BOOLEAN /\ (~master => ~master') /\ owned' \in BOOLEAN /\ (owned' => owned)
      /\ owned /\ ~owned' => At(t, "return") /\ thread[t].ok
      /\ joined' \in BOOLEAN /\ (joined => joined') /\ (joined' /\ ~joined => AllEnded /\ At(t, "wait"))
      /\ At(t, "wait") /\ AllEnded => joined'
  <2>1. /\ events \in TermQueues /\ master \in BOOLEAN /\ owned \in BOOLEAN /\ thread[t].ok \in BOOLEAN
        /\ joined \in BOOLEAN
    BY <1>1 DEF TermInv, TermTypes, ThreadStates
  <2>2. CASE DropMaster(t)
    BY <2>1, <2>2 DEF DropMaster, At, shellVars, queueVars, envVars
  <2>3. CASE WaitWorkers(t)
    <3>1. /\ UNCHANGED <<shell, kids, written, ptyBuf, typed, size, events, shownFinal, life>>
          /\ UNCHANGED <<halt, master, job, owned, late, ptyFaults, calls>> /\ At(t, "wait")
      BY <2>3 DEF WaitWorkers, shellVars, queueVars, envVars
    <3>2. (AllEnded /\ joined' = TRUE) \/ (~AllEnded /\ joined' = joined)
      BY <2>3 DEF WaitWorkers
    <3>3. /\ joined' \in BOOLEAN /\ (joined => joined') /\ (joined' /\ ~joined => AllEnded)
          /\ AllEnded => joined'
      <4>1. CASE AllEnded /\ joined' = TRUE
        BY <4>1
      <4>2. CASE ~AllEnded /\ joined' = joined
        BY <2>1, <4>2
      <4> QED BY <3>2, <4>1, <4>2
    <3> QED BY <2>1, <3>1, <3>3
  <2>4. ASSUME events' = [events EXCEPT !.closed = TRUE]
        PROVE  events'.q = events.q /\ events'.final = events.final /\ events' \in TermQueues
    BY <2>1, <2>4 DEF TermQueues
  <2>5. CASE CloseEvents(t)
    BY <2>1, <2>4, <2>5 DEF CloseEvents, At, shellVars, lifeVars, envVars
  <2>6. CASE CloseReturns(t)
    BY <2>1, <2>4, <2>6 DEF CloseReturns, At, shellVars, envVars
  <2> QED BY <2>2, <2>3, <2>5, <2>6
<1>5. TermTypes'
  BY <1>3, <1>4 DEF TermInv, TermTypes, StepLeaves
<1>6. NothingOpen'
  BY <1>3, <1>4 DEF NothingOpen, StepLeaves
<1>7. StopsAreMarked'
  BY <1>1, <1>3, <1>4 DEF TermInv, StopsAreMarked, StepLeaves
<1>8. FinalsAreMarked'
  BY <1>4 DEF TermInv, FinalsAreMarked
<1>9. TailIsTaken => TailIsTaken'
  BY <1>3, <1>4 DEF Held, TailIsTaken, StepLeaves
<1>10. ExitsAwaitTail'
  <2>1. \A u \in Threads : thread'[u].say = "exited" => TailIsTaken'
    BY <1>3, <1>9 DEF TermInv, ExitsAwaitTail, StepLeaves
  <2>2. At("reader", "mark_error") => At("reader", "mark_error")'
    BY <1>1, <1>3 DEF StepLeaves, Threads, Workers
  <2> QED BY <1>3, <1>4, <1>9, <2>1, <2>2 DEF TermInv, ExitsAwaitTail, StepLeaves
<1>11. AllEnded => AllEnded'
  BY <1>3, <1>4, EndedStays DEF TermInv, TermTypes, StepLeaves
<1>12. SessionIsHeld'
  <2>1. \A c \in Closers : At(c, "return")' /\ thread'[c].ok => joined'
    BY <1>2, <1>3, <1>4 DEF TermInv, SessionIsHeld, StepLeaves, Threads
  <2>2. ~owned' /\ shell' # "none" => joined'
    <3>1. At(t, "return") => t \in Closers
      <4>1. thread[t].todo \in TodosOf(t)
        BY DEF TermInv, TermTypes
      <4> QED BY <4>1, TodoAdvances DEF At, Free
    <3> QED BY <1>4, <3>1 DEF TermInv, SessionIsHeld, TermTypes
  <2>3. \A c \in Closers : At(c, "wait")' => halt'
    BY <1>1, <1>3, <1>4 DEF TermInv, SessionIsHeld, StepLeaves, Threads
  <2>4. joined' => AllEnded' /\ halt'
    <3>1. At(t, "wait") => t \in Closers
      <4>1. thread[t].todo \in TodosOf(t)
        BY DEF TermInv, TermTypes
      <4> QED BY <4>1, TodoAdvances DEF At, Free
    <3> QED BY <1>4, <1>11, <3>1 DEF TermInv, SessionIsHeld
  <2> QED BY <1>3, <1>4, <2>1, <2>2, <2>3, <2>4 DEF TermInv, SessionIsHeld, StepLeaves
<1> QED BY <1>5, <1>6, <1>7, <1>8, <1>10, <1>12 DEF TermInv

\* A step of worker w's loop, as far as its own state goes.
LoopMoves(w, p, s) ==
  thread' = [thread EXCEPT ![w] = [pc |-> p, todo |-> s, say |-> thread[w].say, ok |-> thread[w].ok]]

LoopLeaves(w) ==
  /\ thread' \in [Threads -> ThreadStates] /\ \A u \in Threads : thread'[u].todo \in TodosOf(u)
  /\ \A u \in Threads \ {w} : thread'[u] = thread[u]
  /\ \A u \in Threads : thread'[u].say = thread[u].say /\ thread'[u].ok = thread[u].ok
  /\ \A x \in {"publish", "stop", "wait", "return"}, u \in Threads : At(u, x)' => At(u, x)

\* The forms a loop's step is written in.
LEMMA LoopForms ==
  ASSUME thread \in [Threads -> ThreadStates], NEW t \in Threads, NEW p, NEW s
  PROVE  /\ thread' = [thread EXCEPT ![t].pc = p, ![t].todo = s] => LoopMoves(t, p, s)
         /\ thread' = [thread EXCEPT ![t].pc = p] => LoopMoves(t, p, thread[t].todo)
         /\ thread' = [thread EXCEPT ![t].todo = s] => LoopMoves(t, thread[t].pc, s)
         /\ thread' = thread => LoopMoves(t, thread[t].pc, thread[t].todo)
<1> DEFINE x == thread[t]
<1>1. x \in ThreadStates
  OBVIOUS
<1>2. ASSUME thread' = [thread EXCEPT ![t].pc = p, ![t].todo = s]
      PROVE  LoopMoves(t, p, s)
  <2>1. PICK w : w = [x EXCEPT !.pc = p, !.todo = s] /\ thread' = [thread EXCEPT ![t] = w]
    BY <1>2
  <2>2. w = [pc |-> p, todo |-> s, say |-> x.say, ok |-> x.ok]
    <3> HIDE DEF x
    <3> QED BY <1>1, <2>1, ThreadRecord DEF ThreadStates
  <2> QED BY <2>1, <2>2 DEF LoopMoves
<1>3. ASSUME thread' = [thread EXCEPT ![t].pc = p]
      PROVE  LoopMoves(t, p, thread[t].todo)
  <2>1. PICK w : w = [x EXCEPT !.pc = p] /\ thread' = [thread EXCEPT ![t] = w]
    BY <1>3
  <2>2. w = [pc |-> p, todo |-> x.todo, say |-> x.say, ok |-> x.ok]
    <3> HIDE DEF x
    <3> QED BY <1>1, <2>1, ThreadRecord DEF ThreadStates
  <2> QED BY <2>1, <2>2 DEF LoopMoves
<1>4. ASSUME thread' = [thread EXCEPT ![t].todo = s]
      PROVE  LoopMoves(t, thread[t].pc, s)
  <2>1. PICK w : w = [x EXCEPT !.todo = s] /\ thread' = [thread EXCEPT ![t] = w]
    BY <1>4
  <2>2. w = [pc |-> x.pc, todo |-> s, say |-> x.say, ok |-> x.ok]
    <3> HIDE DEF x
    <3> QED BY <1>1, <2>1, ThreadRecord DEF ThreadStates
  <2> QED BY <2>1, <2>2 DEF LoopMoves
<1>5. ASSUME thread' = thread
      PROVE  LoopMoves(t, thread[t].pc, thread[t].todo)
  <2>1. x = [pc |-> x.pc, todo |-> x.todo, say |-> x.say, ok |-> x.ok]
    <3> HIDE DEF x
    <3> QED BY <1>1 DEF ThreadStates
  <2>2. thread' = [thread EXCEPT ![t] = x]
    BY <1>5
  <2> QED BY <2>1, <2>2 DEF LoopMoves
<1> QED BY <1>2, <1>3, <1>4, <1>5

\* A worker goes on in its loop, or leaves it for a procedure that begins with a mark.
LEMMA LoopMoved ==
  ASSUME TermInv, NEW w \in Threads, NEW p \in {"idle", "run", "push", "write", "end"}, NEW s \in TodosOf(w),
         \/ s = <<>> \/ Head(s) \in {"mark_error", "mark_exit", "mark_drained", "mark_closed"},
         LoopMoves(w, p, s)
  PROVE  LoopLeaves(w) /\ thread'[w].pc = p /\ thread'[w].todo = s
<1> DEFINE r == [pc |-> p, todo |-> s, say |-> thread[w].say, ok |-> thread[w].ok]
<1>1. thread \in [Threads -> ThreadStates] /\ thread[w] \in ThreadStates
  BY DEF TermInv, TermTypes
<1>2. r \in ThreadStates
  <2>1. s \in CloseTodos \cup DrainTodos \cup ExitTodos \cup FailTodos
    BY DEF TodosOf
  <2> QED BY <1>1, <2>1 DEF ThreadStates
<1>3. thread' = [thread EXCEPT ![w] = r]
  BY DEF LoopMoves
<1>4. r.pc = p /\ r.todo = s /\ r.say = thread[w].say /\ r.ok = thread[w].ok
  OBVIOUS
<1> HIDE DEF r
<1>5. /\ thread' \in [Threads -> ThreadStates] /\ thread'[w] = r
      /\ \A u \in Threads \ {w} : thread'[u] = thread[u]
  BY <1>1, <1>2, <1>3
<1>6. \A u \in Threads : thread'[u].todo \in TodosOf(u)
  BY <1>4, <1>5 DEF TermInv, TermTypes
<1>7. \A x, u : u \in Threads \ {w} => (At(u, x)' <=> At(u, x))
  BY <1>5 DEF At, Free
<1>8. \A x \in {"publish", "stop", "wait", "return"} : ~At(w, x)'
  BY <1>4, <1>5 DEF At, Free
<1> QED BY <1>4, <1>5, <1>6, <1>7, <1>8 DEF LoopLeaves

\* An event that is no end is taken only while there was no end.
LEMMA EventAppended ==
  ASSUME events \in TermQueues, Accepts, NEW kind \in {"output", "resized"}, FinalsAreMarked,
         events' = [events EXCEPT !.q = Append(@, kind)], shownFinal' = shownFinal
  PROVE  /\ events' \in TermQueues /\ Len(events'.q) <= MaxEvents /\ FinalsAreMarked'
         /\ \A i \in 1..Len(events'.q) : events'.q[i] # "exited"
<1> DEFINE q == events.q
<1>1. q \in Seq(TermEvents) /\ Len(q) \in Nat /\ kind \in TermEvents /\ kind \notin Finals /\ MaxEvents \in Nat
  BY TerminalAssumption DEF TermQueues, TermEvents, Finals
<1>2. ~events.final /\ Len(q) < MaxEvents
  BY DEF Accepts
<1>3. \A i \in 1..Len(q) : q[i] \notin Finals
  BY <1>2 DEF FinalsAreMarked
<1>4. PICK a : a = Append(q, kind)
  OBVIOUS
<1>5. /\ events' \in TermQueues <=> a \in Seq(TermEvents)
      /\ events'.q = a /\ events'.final = events.final
  BY <1>4 DEF TermQueues
<1> HIDE DEF q
<1>6. /\ a \in Seq(TermEvents) /\ Len(a) = Len(q) + 1
      /\ \A i \in 1..Len(q) : a[i] = q[i]
      /\ a[Len(q) + 1] = kind
  BY <1>1, <1>4, AppendProperties
<1>7. \A i \in 1..Len(a) : a[i] \notin Finals
  BY <1>1, <1>3, <1>6
<1>8. "exited" \in Finals
  BY DEF Finals
<1>9. ~shownFinal
  BY <1>2 DEF FinalsAreMarked
<1> QED BY <1>1, <1>2, <1>5, <1>6, <1>7, <1>8, <1>9 DEF FinalsAreMarked

\* Four steps and then three.
LEMMA SevenSteps ==
  ASSUME NEW a, NEW b, NEW c, NEW d, NEW e, NEW f, NEW g
  PROVE  <<a, b, c, d>> \o <<e, f, g>> = <<a, b, c, d, e, f, g>>
<1> DEFINE S == {a, b, c, d, e, f, g}
           l == <<a, b, c, d>>
           r == <<e, f, g>>
           x == <<a, b, c, d, e, f, g>>
<1>1. l \in Seq(S) /\ r \in Seq(S) /\ x \in Seq(S) /\ Len(l) = 4 /\ Len(r) = 3 /\ Len(x) = 7
  OBVIOUS
<1>2. l[1] = a /\ l[2] = b /\ l[3] = c /\ l[4] = d /\ r[1] = e /\ r[2] = f /\ r[3] = g
  OBVIOUS
<1>3. x[1] = a /\ x[2] = b /\ x[3] = c /\ x[4] = d /\ x[5] = e /\ x[6] = f /\ x[7] = g
  OBVIOUS
<1> HIDE DEF S, l, r, x
<1>4. /\ l \o r \in Seq(S) /\ Len(l \o r) = 7
      /\ \A i \in 1..7 : (l \o r)[i] = IF i <= 4 THEN l[i] ELSE r[i - 4]
  <2>1. /\ l \o r \in Seq(S) /\ Len(l \o r) = Len(l) + Len(r)
        /\ \A i \in 1..(Len(l) + Len(r)) : (l \o r)[i] = IF i <= Len(l) THEN l[i] ELSE r[i - Len(l)]
    BY <1>1, ConcatProperties, Zenon
  <2> QED BY <1>1, <2>1
<1>5. ASSUME NEW i \in 1..7
      PROVE  (l \o r)[i] = x[i]
  <2>1. i = 1 \/ i = 2 \/ i = 3 \/ i = 4 \/ i = 5 \/ i = 6 \/ i = 7
    BY <1>5
  <2>2. (l \o r)[1] = a /\ (l \o r)[2] = b /\ (l \o r)[3] = c /\ (l \o r)[4] = d
    BY <1>2, <1>4
  <2>3. (l \o r)[5] = e /\ (l \o r)[6] = f /\ (l \o r)[7] = g
    BY <1>2, <1>4
  <2> QED BY <1>3, <2>1, <2>2, <2>3
<1>6. l \o r = x
  BY <1>1, <1>4, <1>5, SeqEqual
<1> QED BY <1>6 DEF l, r, x

\* The procedures a worker leaves its loop for are its own, and begin with a mark.
LEMMA LoopProcedures ==
  /\ "reader" \in Workers /\ "writer" \in Workers /\ "resizer" \in Workers /\ "child" \in Workers
  /\ Workers = Threads \ Closers /\ Closers \subseteq Threads
  /\ <<>> \in TodosOf("reader") /\ DrainSteps \in TodosOf("reader") /\ FailSteps \o DrainSteps \in TodosOf("reader")
  /\ <<>> \in TodosOf("writer") /\ FailSteps \in TodosOf("writer")
  /\ <<>> \in TodosOf("resizer") /\ FailSteps \in TodosOf("resizer")
  /\ ExitSteps \in TodosOf("child") /\ FailSteps \in TodosOf("child")
  /\ \A c \in Closers : CloseSteps \in TodosOf(c)
  /\ DrainSteps # <<>> /\ Head(DrainSteps) = "mark_drained"
  /\ FailSteps # <<>> /\ Head(FailSteps) = "mark_error"
  /\ FailSteps \o DrainSteps # <<>> /\ Head(FailSteps \o DrainSteps) = "mark_error"
  /\ ExitSteps # <<>> /\ Head(ExitSteps) = "mark_exit" /\ CloseSteps # <<>> /\ Head(CloseSteps) = "mark_closed"
<1>1. /\ "reader" \in Workers /\ "writer" \in Workers /\ "resizer" \in Workers /\ "child" \in Workers
      /\ Workers = Threads \ Closers /\ Closers \subseteq Threads
  BY TerminalAssumption DEF Workers, Threads
<1>2. FailSteps \o DrainSteps =
        <<"mark_error", "publish", "stop", "close_events", "mark_drained", "publish_exit", "drop_master">>
  BY SevenSteps DEF FailSteps, DrainSteps
<1>3. /\ <<>> \in DrainTodos /\ DrainSteps \in DrainTodos /\ FailSteps \o DrainSteps \in DrainTodos
      /\ <<>> \in FailTodos /\ FailSteps \in FailTodos /\ ExitSteps \in ExitTodos /\ CloseSteps \in CloseTodos
  BY <1>2 DEF DrainTodos, FailTodos, ExitTodos, CloseTodos
<1>4. /\ <<>> \in TodosOf("reader") /\ DrainSteps \in TodosOf("reader") /\ FailSteps \o DrainSteps \in TodosOf("reader")
      /\ <<>> \in TodosOf("writer") /\ FailSteps \in TodosOf("writer")
      /\ <<>> \in TodosOf("resizer") /\ FailSteps \in TodosOf("resizer")
      /\ ExitSteps \in TodosOf("child") /\ FailSteps \in TodosOf("child")
      /\ \A c \in Closers : CloseSteps \in TodosOf(c)
  BY <1>1, <1>3 DEF TodosOf
<1>5. /\ DrainSteps # <<>> /\ Head(DrainSteps) = "mark_drained" /\ FailSteps # <<>> /\ Head(FailSteps) = "mark_error"
      /\ ExitSteps # <<>> /\ Head(ExitSteps) = "mark_exit" /\ CloseSteps # <<>> /\ Head(CloseSteps) = "mark_closed"
  BY DEF DrainSteps, FailSteps, ExitSteps, CloseSteps
<1>6. FailSteps \o DrainSteps # <<>> /\ Head(FailSteps \o DrainSteps) = "mark_error"
  BY <1>2
<1> QED BY <1>1, <1>4, <1>5, <1>6

\* The reader takes, pushes or finds the end of the output, or fails.
LEMMA ReaderStep ==
  ASSUME TermInv, ReaderReads \/ ReaderPushes \/ ReaderEof \/ ReaderFails
  PROVE  TermInv'
<1>1. /\ thread \in [Threads -> ThreadStates] /\ "reader" \in Threads /\ "reader" \in Workers
      /\ thread["reader"].pc \in {"run", "push"}
  BY LoopProcedures DEF TermInv, TermTypes, ReaderReads, ReaderPushes, ReaderEof, ReaderFails
<1>2. /\ Free("reader") /\ ~life.drained /\ shell # "none" /\ ~AllEnded
      /\ \A t \in Threads : thread[t].say # "exited"
      /\ \A i \in 1..Len(events.q) : events.q[i] # "exited"
  <2>1. Free("reader") /\ ~life.drained /\ ~TailIsTaken
    BY <1>1 DEF TermInv, ExitsAwaitTail, Held, TailIsTaken
  <2>2. shell # "none"
    BY <1>1 DEF TermInv, NothingOpen, Plan
  <2>3. ~AllEnded
    BY <1>1 DEF AllEnded, Ended
  <2> QED BY <2>1, <2>2, <2>3 DEF TermInv, ExitsAwaitTail
<1>3. /\ UNCHANGED <<shell, kids, written, typed, size, shownFinal, late, calls>>
      /\ UNCHANGED <<life, halt, master, job, owned, joined>>
      /\ ptyBuf' \in Nat /\ ptyBuf' <= ptyBuf /\ ptyFaults' \in Nat /\ ptyFaults' <= MaxTermFaults
  BY TerminalAssumption
     DEF TermInv, TermTypes, ReaderReads, ReaderPushes, ReaderEof, ReaderFails, shellVars,
     queueVars, lifeVars, envVars
<1>4. ~OutputAllowed => life.sent
  BY DEF OutputAllowed, TermInv, StopsAreMarked
<1>5. PICK p \in {"run", "push", "end"}, s \in {<<>>, DrainSteps, FailSteps \o DrainSteps} :
        /\ LoopMoves("reader", p, s) /\ (s # <<>> => p = "end")
        /\ p = "end" => \/ life.sent \/ s = FailSteps \o DrainSteps \/ ptyFaults' > 0
                        \/ TermPlatform = "windows" /\ ~master
                        \/ ptyBuf' = 0 /\ ~Held
  <2>1. thread["reader"].todo = <<>>
    BY <1>2 DEF Free
  <2>2. CASE ReaderReads
    BY <1>1, <1>4, <2>1, <2>2, LoopForms DEF ReaderReads, Leave
  <2>3. CASE ReaderPushes
    BY <1>1, <2>1, <2>3, LoopForms DEF ReaderPushes, Leave
  <2>4. CASE ReaderEof
    BY <1>1, <2>1, <2>4, LoopForms, TerminalAssumption DEF ReaderEof, PtyOver, Leave, shellVars
  <2>5. CASE ReaderFails
    <3>1. ptyFaults' > 0
      BY <2>5 DEF ReaderFails, TermInv, TermTypes
    <3> QED BY <1>1, <2>1, <2>5, <3>1, LoopForms DEF ReaderFails, Leave
  <2> QED BY <2>2, <2>3, <2>4, <2>5
<1>6. LoopLeaves("reader") /\ thread'["reader"].pc = p /\ thread'["reader"].todo = s
  <2>1. s \in TodosOf("reader") /\ (s = <<>> \/ Head(s) \in {"mark_error", "mark_drained"})
    BY LoopProcedures
  <2> QED BY <1>1, <1>5, <2>1, LoopMoved
<1>7. /\ events' \in TermQueues /\ Len(events'.q) <= MaxEvents /\ FinalsAreMarked'
      /\ \A i \in 1..Len(events'.q) : events'.q[i] # "exited"
  <2>1. CASE events' = events
    BY <1>2, <1>3, <2>1 DEF TermInv, TermTypes, FinalsAreMarked
  <2>2. CASE Accepts /\ events' = [events EXCEPT !.q = Append(@, "output")]
    BY <1>3, <2>2, EventAppended DEF TermInv, TermTypes
  <2> QED BY <2>1, <2>2 DEF ReaderReads, ReaderPushes, ReaderEof, ReaderFails, queueVars
<1>8. TermTypes'
  BY <1>3, <1>6, <1>7 DEF TermInv, TermTypes, LoopLeaves
<1>9. NothingOpen'
  BY <1>2, <1>3 DEF NothingOpen
<1>10. StopsAreMarked'
  BY <1>3, <1>6 DEF TermInv, StopsAreMarked, LoopLeaves
<1>11. ExitsAwaitTail'
  <2>1. \A t \in Threads : thread'[t].say # "exited"
    BY <1>2, <1>6 DEF LoopLeaves
  <2>2. ~Free("reader")' => thread'["reader"].pc = "end"
    BY <1>5, <1>6 DEF Free
  <2>3. thread'["reader"].pc = "end" => TailIsTaken' \/ life'.sent \/ At("reader", "mark_error")'
    <3>1. s = FailSteps \o DrainSteps => At("reader", "mark_error")'
      BY <1>6, LoopProcedures DEF At, Free
    <3> QED BY <1>3, <1>5, <1>6, <3>1 DEF Held, TailIsTaken
  <2> QED BY <1>2, <1>3, <1>7, <2>1, <2>2, <2>3 DEF ExitsAwaitTail
<1>12. SessionIsHeld'
  <2>1. ~joined /\ \A c \in Closers : ~(At(c, "return")' /\ thread'[c].ok) /\ (At(c, "wait")' => halt)
    BY <1>2, <1>6, LoopProcedures DEF TermInv, SessionIsHeld, LoopLeaves
  <2>2. thread'["child"].pc = thread["child"].pc
    BY <1>6, LoopProcedures DEF LoopLeaves
  <2> QED BY <1>2, <1>3, <2>1, <2>2 DEF TermInv, SessionIsHeld
<1> QED BY <1>7, <1>8, <1>9, <1>10, <1>11, <1>12 DEF TermInv

\* What the reader's part of the invariant asks of the other workers' steps.
LEMMA OthersStep ==
  ASSUME TermInv, NEW w \in {"writer", "resizer", "child"}, LoopLeaves(w), ~AllEnded, shell # "none",
         UNCHANGED <<kids, written, ptyBuf, shownFinal, late, calls, life, halt, master, job,
         owned, joined>>,
         shell' = shell \/ shell' = "reaped", shell' # "running" \/ (w # "child" /\ shell' = shell),
         typed' \in Nat, size' \in BOOLEAN, ptyFaults' \in Nat, ptyFaults' <= MaxTermFaults, ptyFaults <= ptyFaults',
         events' \in TermQueues, Len(events'.q) <= MaxEvents, FinalsAreMarked',
         (\E i \in 1..Len(events'.q) : events'.q[i] = "exited")
            => \E i \in 1..Len(events.q) : events.q[i] = "exited"
  PROVE  TermInv'
<1>1. /\ w \in Threads \ {"reader"} /\ "reader" \in Threads \ {w} /\ w \notin Closers /\ Closers \subseteq Threads
      /\ "child" \in Threads
  BY LoopProcedures
<1>2. thread'["reader"] = thread["reader"] /\ (w # "child" => thread'["child"] = thread["child"])
  BY <1>1 DEF LoopLeaves
<1>3. TermTypes'
  BY <1>1 DEF TermInv, TermTypes, LoopLeaves
<1>4. NothingOpen'
  BY DEF NothingOpen
<1>5. StopsAreMarked'
  BY DEF TermInv, StopsAreMarked, LoopLeaves
<1>6. TailIsTaken => TailIsTaken'
  BY <1>2, <1>3 DEF Held, TailIsTaken, TermInv, TermTypes
<1>7. ExitsAwaitTail'
  <2>1. \A t \in Threads : thread'[t].say = "exited" => TailIsTaken'
    BY <1>6 DEF TermInv, ExitsAwaitTail, LoopLeaves
  <2>2. /\ Free("reader")' <=> Free("reader")
        /\ At("reader", "mark_error")' <=> At("reader", "mark_error")
    BY <1>2 DEF Free, At
  <2> QED BY <1>2, <1>6, <2>1, <2>2 DEF TermInv, ExitsAwaitTail
<1>8. SessionIsHeld'
  <2>1. ~joined /\ \A c \in Closers : ~(At(c, "return")' /\ thread'[c].ok) /\ (At(c, "wait")' => halt)
    BY <1>1 DEF TermInv, SessionIsHeld, LoopLeaves
  <2>2. thread'["child"].pc = "end" => shell' # "running"
    BY <1>2 DEF TermInv, SessionIsHeld
  <2> QED BY <2>1, <2>2 DEF TermInv, SessionIsHeld
<1> QED BY <1>3, <1>4, <1>5, <1>7, <1>8 DEF TermInv

\* The writer's loop: a chunk taken, written or not.
LEMMA WriterStep ==
  ASSUME TermInv, WriterPops \/ WriterReturns \/ WriterCut
  PROVE  TermInv'
<1>1. /\ thread \in [Threads -> ThreadStates] /\ "writer" \in Threads /\ "writer" \in Workers
      /\ thread["writer"].pc = "write" \/ (thread["writer"].pc = "run" /\ typed > 0)
      /\ typed \in Nat
  BY LoopProcedures DEF TermInv, TermTypes, WriterPops, WriterReturns, WriterCut, Free
<1>2. shell # "none" /\ ~AllEnded
  BY <1>1 DEF TermInv, NothingOpen, Plan, AllEnded, Ended
<1>8. thread["writer"].todo = <<>>
  BY DEF WriterPops, WriterReturns, WriterCut, Free
<1>3. PICK p \in {"run", "write", "end"}, s \in {<<>>, FailSteps} : LoopMoves("writer", p, s)
  BY <1>1, <1>8, LoopForms DEF WriterPops, WriterReturns, WriterCut, WriterLeaves, Leave
<1>4. LoopLeaves("writer")
  <2>1. s \in TodosOf("writer") /\ (s = <<>> \/ Head(s) = "mark_error")
    BY LoopProcedures
  <2> QED BY <1>1, <1>3, <2>1, LoopMoved
<1>5. /\ typed' \in Nat /\ ptyFaults' \in Nat /\ ptyFaults' <= MaxTermFaults /\ ptyFaults <= ptyFaults'
  BY <1>1, TerminalAssumption DEF TermInv, TermTypes, WriterPops, WriterReturns, WriterCut, queueVars, envVars
<1>6. UNCHANGED <<shell, kids, written, ptyBuf, size, events, shownFinal, late, calls, life, halt, master, job, owned, joined>>
  BY DEF WriterPops, WriterReturns, WriterCut, shellVars, lifeVars, queueVars, envVars
<1>7. FinalsAreMarked' /\ events' \in TermQueues /\ Len(events'.q) <= MaxEvents /\ size' \in BOOLEAN
  BY <1>6 DEF TermInv, TermTypes, FinalsAreMarked
<1> QED BY <1>2, <1>4, <1>5, <1>6, <1>7, OthersStep

\* The resizer's loop.
LEMMA ResizerStep ==
  ASSUME TermInv, ResizerPops
  PROVE  TermInv'
<1>1. /\ thread \in [Threads -> ThreadStates] /\ "resizer" \in Threads /\ "resizer" \in Workers
      /\ thread["resizer"].pc = "run" /\ thread["resizer"].todo = <<>> /\ size
  BY LoopProcedures DEF TermInv, TermTypes, ResizerPops, Free
<1>2. shell # "none" /\ ~AllEnded
  BY <1>1 DEF TermInv, NothingOpen, Plan, AllEnded, Ended
<1>3. PICK p \in {"run", "end"}, s \in {<<>>, FailSteps} : LoopMoves("resizer", p, s)
  BY <1>1, LoopForms DEF ResizerPops, Leave
<1>4. LoopLeaves("resizer")
  <2>1. s \in TodosOf("resizer") /\ (s = <<>> \/ Head(s) = "mark_error")
    BY LoopProcedures
  <2> QED BY <1>1, <1>3, <2>1, LoopMoved
<1>5. /\ size' \in BOOLEAN /\ ptyFaults' \in Nat /\ ptyFaults' <= MaxTermFaults /\ ptyFaults <= ptyFaults'
  <2>1. ptyFaults' = ptyFaults \/ (ptyFaults < MaxTermFaults /\ ptyFaults' = ptyFaults + 1)
    BY DEF ResizerPops
  <2>2. ptyFaults \in Nat /\ ptyFaults <= MaxTermFaults /\ MaxTermFaults \in Nat
    BY TerminalAssumption DEF TermInv, TermTypes
  <2>3. ptyFaults' \in Nat /\ ptyFaults' <= MaxTermFaults /\ ptyFaults <= ptyFaults'
    BY <2>1, <2>2
  <2>4. size' = FALSE
    BY DEF ResizerPops
  <2> QED BY <2>3, <2>4
<1>6. UNCHANGED <<shell, kids, written, ptyBuf, typed, shownFinal, late, calls, life, halt, master, job, owned, joined>>
  BY DEF ResizerPops, shellVars, lifeVars
<1>7. /\ FinalsAreMarked' /\ events' \in TermQueues /\ Len(events'.q) <= MaxEvents
      /\ (\E i \in 1..Len(events'.q) : events'.q[i] = "exited")
           => \E i \in 1..Len(events.q) : events.q[i] = "exited"
  <2>1. CASE events' = events
    BY <1>6, <2>1 DEF TermInv, TermTypes, FinalsAreMarked
  <2>2. CASE Accepts /\ events' = [events EXCEPT !.q = Append(@, "resized")]
    BY <1>6, <2>2, EventAppended DEF TermInv, TermTypes
  <2> QED BY <2>1, <2>2 DEF ResizerPops
<1>8. typed' \in Nat
  BY <1>6 DEF TermInv, TermTypes
<1> QED BY <1>2, <1>4, <1>5, <1>6, <1>7, <1>8, OthersStep

\* The child's worker reaps the shell, or gives up at the deadline of a stopped session.
LEMMA ChildStep ==
  ASSUME TermInv, ChildReaps \/ ChildLapses
  PROVE  TermInv'
<1>1. /\ thread \in [Threads -> ThreadStates] /\ "child" \in Threads /\ "child" \in Workers
      /\ thread["child"].pc = "run" /\ thread["child"].todo = <<>>
  BY LoopProcedures DEF TermInv, TermTypes, ChildReaps, ChildLapses, Free
<1>2. shell # "none" /\ ~AllEnded
  BY <1>1 DEF TermInv, NothingOpen, Plan, AllEnded, Ended
<1>3. PICK s \in {ExitSteps, FailSteps} : LoopMoves("child", "end", s)
  BY <1>1, LoopForms DEF ChildReaps, ChildLapses, Leave
<1>4. LoopLeaves("child")
  <2>1. s \in TodosOf("child") /\ Head(s) \in {"mark_exit", "mark_error"}
    BY LoopProcedures
  <2> QED BY <1>1, <1>3, <2>1, LoopMoved
<1>5. UNCHANGED <<kids, written, ptyBuf, typed, size, events, shownFinal, late, calls, ptyFaults,
                  life, halt, master, job, owned, joined>>
  BY DEF ChildReaps, ChildLapses, shellVars, queueVars, lifeVars, envVars
<1>6. (shell' = shell \/ shell' = "reaped") /\ shell' # "running"
  BY DEF TermInv, SessionIsHeld, ChildReaps, ChildLapses, shellVars
<1>7. /\ FinalsAreMarked' /\ events' \in TermQueues /\ Len(events'.q) <= MaxEvents
      /\ typed' \in Nat /\ size' \in BOOLEAN /\ ptyFaults' \in Nat /\ ptyFaults' <= MaxTermFaults /\ ptyFaults <= ptyFaults'
  BY <1>5 DEF TermInv, TermTypes, FinalsAreMarked
<1> QED BY <1>2, <1>4, <1>5, <1>6, <1>7, OthersStep

\* The shell, the clock, the user's input and the supervisor's clearing: no thread moves.
LEMMA StillStep ==
  ASSUME TermInv, \/ ShellWrites \/ ShellExits \/ TimePasses \/ SendInput \/ Resize \/ Reclaim
                  \/ \E g \in Groups : KidExits(g)
  PROVE  TermInv'
<1>1. /\ UNCHANGED <<events, shownFinal, ptyFaults, life, halt, master, job, joined, thread>>
      /\ (owned' => owned) /\ (~owned' => ~owned \/ joined) /\ owned' \in BOOLEAN
      /\ shell # "none" /\ kids' \subseteq kids
      /\ shell' = shell \/ (shell = "running" /\ shell' = "zombie")
      /\ halt => typed' = typed /\ size' = size
      /\ typed' \in Nat /\ size' \in BOOLEAN /\ late' \in BOOLEAN
      /\ ~Held => ptyBuf' = ptyBuf
      /\ written' \in Nat /\ written' <= MaxOutput /\ ptyBuf' \in Nat /\ ptyBuf' <= written'
  <2>1. /\ shell \in {"none", "running", "zombie", "reaped"} /\ typed \in Nat /\ size \in BOOLEAN /\ late \in BOOLEAN
        /\ written \in Nat /\ written <= MaxOutput /\ ptyBuf \in Nat /\ ptyBuf <= written /\ MaxOutput \in Nat
        /\ owned \in BOOLEAN /\ (shell = "none" => ~owned /\ ~halt /\ kids = {})
    BY TerminalAssumption DEF TermInv, TermTypes, NothingOpen
  <2>2. CASE ShellWrites
    BY <2>1, <2>2 DEF ShellWrites, Held, queueVars, lifeVars, envVars
  <2>3. CASE ShellExits
    BY <2>1, <2>3 DEF ShellExits, queueVars, lifeVars, envVars
  <2>4. CASE TimePasses
    BY <2>1, <2>4 DEF TimePasses, shellVars, queueVars, lifeVars
  <2>5. CASE SendInput
    BY <2>1, <2>5 DEF SendInput, shellVars, lifeVars
  <2>6. CASE Resize
    BY <2>1, <2>6 DEF Resize, shellVars, lifeVars
  <2>7. CASE Reclaim
    BY <2>1, <2>7 DEF Reclaim, shellVars, queueVars, envVars
  <2>8. CASE \E g \in Groups : KidExits(g)
    BY <2>1, <2>8 DEF KidExits, queueVars, lifeVars, envVars
  <2> QED BY <2>2, <2>3, <2>4, <2>5, <2>6, <2>7, <2>8
<1>2. TermTypes'
  BY <1>1 DEF TermInv, TermTypes
<1>3. NothingOpen'
  BY <1>1 DEF NothingOpen
<1>4. StopsAreMarked'
  BY <1>1 DEF TermInv, StopsAreMarked, At, Free
<1>5. FinalsAreMarked'
  BY <1>1 DEF TermInv, FinalsAreMarked
<1>6. TailIsTaken => TailIsTaken'
  BY <1>1 DEF Held, TailIsTaken
<1>7. ExitsAwaitTail'
  BY <1>1, <1>6 DEF TermInv, ExitsAwaitTail, At, Free
<1>8. AllEnded => AllEnded'
  BY <1>1, EndedStays DEF TermInv, TermTypes
<1>9. SessionIsHeld'
  BY <1>1, <1>8 DEF TermInv, SessionIsHeld, At, Free
<1> QED BY <1>2, <1>3, <1>4, <1>5, <1>7, <1>9 DEF TermInv

\* ja_terminal_poll takes the oldest event.
LEMMA PollStep ==
  ASSUME TermInv, Poll
  PROVE  TermInv'
<1> DEFINE q == events.q
<1>1. events \in TermQueues /\ q \in Seq(TermEvents) /\ q # <<>> /\ MaxEvents \in Nat /\ Len(q) <= MaxEvents
  BY TerminalAssumption DEF TermInv, TermTypes, TermQueues, Poll
<1>2. /\ Tail(q) \in Seq(TermEvents) /\ Len(Tail(q)) = Len(q) - 1 /\ \A i \in 1..Len(Tail(q)) : Tail(q)[i] = q[i + 1]
      /\ Len(q) \in Nat /\ Len(q) > 0 /\ Head(q) = q[1]
  BY <1>1, HeadTailProperties
<1>3. /\ events'.q = Tail(q) /\ events'.final = events.final /\ events' \in TermQueues
      /\ shownFinal' = (shownFinal \/ Head(q) \in Finals) /\ shownFinal' \in BOOLEAN
  <2>1. PICK r : r = Tail(q)
    OBVIOUS
  <2>2. events' = [events EXCEPT !.q = r]
    BY <2>1 DEF Poll
  <2>3. events'.q = r /\ events'.final = events.final /\ events' \in TermQueues
    BY <1>1, <1>2, <2>1, <2>2 DEF TermQueues
  <2> QED BY <2>1, <2>3 DEF Poll, TermInv, TermTypes
<1>4. /\ UNCHANGED <<shell, kids, written, ptyBuf, typed, size, life, halt, master, job, owned, joined, thread>>
      /\ UNCHANGED <<late, ptyFaults, calls>>
  BY DEF Poll, shellVars, lifeVars, envVars
<1>5. \A i \in 1..Len(q) : q[i] \in Finals => i = Len(q) /\ events.final
  BY DEF TermInv, FinalsAreMarked
<1> HIDE DEF q
<1>6. \A i \in 1..Len(Tail(q)) : i + 1 \in 1..Len(q)
  BY <1>2
<1>7. FinalsAreMarked'
  <2>1. \A i \in 1..Len(Tail(q)) : Tail(q)[i] \in Finals => i = Len(Tail(q)) /\ events.final
    <3> SUFFICES ASSUME NEW i \in 1..Len(Tail(q)), Tail(q)[i] \in Finals
                 PROVE  i = Len(Tail(q)) /\ events.final
      OBVIOUS
    <3>1. i + 1 = Len(q) /\ events.final
      BY <1>2, <1>5, <1>6
    <3>2. Len(Tail(q)) \in Int /\ i \in Int /\ Len(q) \in Int /\ Len(Tail(q)) = Len(q) - 1
      BY <1>2
    <3> QED BY <3>1, <3>2
  <2>2. Head(q) \in Finals => Tail(q) = <<>> /\ events.final
    <3>1. Head(q) \in Finals => Len(q) = 1 /\ events.final
      <4>1. 1 \in 1..Len(q)
        BY <1>2
      <4> QED BY <1>2, <1>5, <4>1
    <3> QED BY <1>2, <3>1
  <2>3. ~shownFinal
    BY <1>1 DEF TermInv, FinalsAreMarked, q
  <2> QED BY <1>3, <2>1, <2>2, <2>3 DEF FinalsAreMarked
<1>8. TermTypes'
  BY <1>1, <1>2, <1>3, <1>4 DEF TermInv, TermTypes, q
<1>9. NothingOpen' /\ StopsAreMarked'
  BY <1>4 DEF TermInv, NothingOpen, StopsAreMarked, At, Free
<1>10. ExitsAwaitTail'
  <2>1. (\E i \in 1..Len(Tail(q)) : Tail(q)[i] = "exited") => \E i \in 1..Len(q) : q[i] = "exited"
    BY <1>2, <1>6
  <2>2. TailIsTaken' <=> TailIsTaken
    BY <1>4 DEF Held, TailIsTaken
  <2> QED BY <1>3, <1>4, <2>1, <2>2 DEF TermInv, ExitsAwaitTail, At, Free, q
<1>11. SessionIsHeld'
  BY <1>4 DEF TermInv, SessionIsHeld, AllEnded, Ended, At, Free
<1> QED BY <1>7, <1>8, <1>9, <1>10, <1>11 DEF TermInv

\* A close is called.
LEMMA CallStep ==
  ASSUME TermInv, NEW t \in Closers, CloseCalled(t)
  PROVE  TermInv'
<1>1. /\ t \in Threads /\ thread \in [Threads -> ThreadStates] /\ shell # "none"
      /\ "reader" \in Threads \ {t} /\ "child" \in Threads \ {t} /\ \A w \in Workers : w \in Threads \ {t}
  BY LoopProcedures DEF TermInv, TermTypes, NothingOpen, CloseCalled
<1>2. LoopMoves(t, "run", CloseSteps)
  BY <1>1, LoopForms DEF CloseCalled
<1>3. LoopLeaves(t)
  BY <1>1, <1>2, LoopProcedures, LoopMoved
<1>4. /\ UNCHANGED <<shell, kids, written, ptyBuf, typed, size, events, shownFinal>>
      /\ UNCHANGED <<life, halt, master, job, owned, joined, late, ptyFaults, calls>>
  BY DEF CloseCalled, shellVars, queueVars, lifeVars, envVars
<1>5. thread'["reader"] = thread["reader"] /\ thread'["child"] = thread["child"]
  BY <1>1, <1>3 DEF LoopLeaves
<1>6. TermTypes'
  BY <1>3, <1>4 DEF TermInv, TermTypes, LoopLeaves
<1>7. NothingOpen' /\ FinalsAreMarked'
  BY <1>1, <1>4 DEF TermInv, NothingOpen, FinalsAreMarked
<1>8. StopsAreMarked'
  BY <1>3, <1>4 DEF TermInv, StopsAreMarked, LoopLeaves
<1>9. ExitsAwaitTail'
  <2>1. TailIsTaken' <=> TailIsTaken
    BY <1>4, <1>5 DEF Held, TailIsTaken
  <2>2. \A u \in Threads : thread'[u].say = "exited" => TailIsTaken'
    BY <1>3, <2>1 DEF TermInv, ExitsAwaitTail, LoopLeaves
  <2> QED BY <1>4, <1>5, <2>1, <2>2 DEF TermInv, ExitsAwaitTail, At, Free
<1>10. AllEnded => AllEnded'
  BY <1>1, <1>3, <1>4, EndedStays DEF TermInv, TermTypes, LoopLeaves
<1>11. SessionIsHeld'
  <2>1. \A c \in Closers : (At(c, "return")' /\ thread'[c].ok => joined) /\ (At(c, "wait")' => halt)
    BY <1>3, LoopProcedures DEF TermInv, SessionIsHeld, LoopLeaves
  <2> QED BY <1>4, <1>5, <1>10, <2>1 DEF TermInv, SessionIsHeld
<1> QED BY <1>6, <1>7, <1>8, <1>9, <1>11 DEF TermInv

\* A session opens, or is refused and leaves nothing.
LEMMA OpenStep ==
  ASSUME TermInv, NEW r \in Launches, TerminalOpen(r)
  PROVE  TermInv'
<1>1. /\ UNCHANGED <<written, ptyBuf, typed, size, events, shownFinal, life, halt, joined, late, ptyFaults, calls>>
      /\ shell = "none"
  BY DEF TerminalOpen, queueVars, envVars
<1>2. /\ ~halt /\ ~life.sent /\ ~life.closed /\ ~life.drained /\ ~life.status
      /\ \A t \in Threads : thread[t] = Plan("idle")
  BY <1>1 DEF TermInv, NothingOpen
<1>3. "reader" \in Threads /\ "child" \in Threads /\ Closers \subseteq Threads
  BY LoopProcedures
<1>4. CASE UNCHANGED <<shell, kids, master, job, owned, thread>>
  BY <1>1, <1>4 DEF TermInv, TermTypes, NothingOpen, StopsAreMarked, FinalsAreMarked,
     ExitsAwaitTail, Held, TailIsTaken,
                    SessionIsHeld, AllEnded, Ended, At, Free
<1>5. CASE ~UNCHANGED <<shell, kids, master, job, owned, thread>>
  <2>1. /\ shell' = "running" /\ kids' \in SUBSET Groups /\ master' = TRUE /\ job' = TRUE /\ owned' = TRUE
        /\ thread' = [t \in Threads |-> Plan(IF t \in Closers THEN "idle" ELSE "run")]
    BY <1>5 DEF TerminalOpen
  <2>2. /\ \A p \in {"idle", "run"} : /\ Plan(p) \in ThreadStates /\ Plan(p).todo = <<>> /\ Plan(p).say = "none"
                                      /\ Plan(p).pc = p
    BY DEF Plan, ThreadStates, FailTodos
  <2>3. \A t \in Threads : <<>> \in TodosOf(t)
    BY DEF TodosOf, FailTodos, CloseTodos, DrainTodos
  <2>4. \A t \in Threads : /\ thread'[t] \in ThreadStates /\ thread'[t].todo = <<>> /\ thread'[t].say = "none"
                           /\ thread'[t].pc \in {"idle", "run"}
    BY <2>1, <2>2
  <2>5. thread' \in [Threads -> ThreadStates]
    BY <2>1, <2>2
  <2>6. TermTypes'
    BY <1>1, <2>1, <2>3, <2>4, <2>5 DEF TermInv, TermTypes
  <2>7. \A x, t : t \in Threads => ~At(t, x)'
    BY <2>4 DEF At, Free
  <2>8. NothingOpen' /\ FinalsAreMarked' /\ StopsAreMarked'
    BY <1>1, <1>2, <2>1, <2>7 DEF TermInv, NothingOpen, FinalsAreMarked, StopsAreMarked
  <2>9. \A i \in 1..Len(events.q) : events.q[i] # "exited"
    <3>1. ~TailIsTaken
      BY <1>2, <1>3 DEF Held, TailIsTaken, Plan
    <3> QED BY <3>1 DEF TermInv, ExitsAwaitTail
  <2>10. ExitsAwaitTail'
    BY <1>1, <1>2, <1>3, <2>4, <2>9 DEF ExitsAwaitTail, Free
  <2>11. SessionIsHeld'
    <3>1. ~joined'
      BY <1>1, <1>2 DEF TermInv, SessionIsHeld
    <3> QED BY <1>1, <1>2, <1>3, <2>1, <2>4, <2>7, <3>1 DEF SessionIsHeld
  <2> QED BY <2>6, <2>8, <2>10, <2>11 DEF TermInv
<1> QED BY <1>4, <1>5

\* The invariant holds through every step of the session.
LEMMA TerminalIsConsistent == TerminalSpec => []TermInv
<1>1. ASSUME TerminalInit
      PROVE  TermInv
  <2>1. /\ Plan("idle") \in ThreadStates /\ Plan("idle").todo = <<>> /\ Plan("idle").say = "none"
        /\ Plan("idle").pc = "idle"
    BY DEF Plan, ThreadStates, FailTodos
  <2>2. \A t \in Threads : <<>> \in TodosOf(t)
    BY DEF TodosOf, FailTodos, CloseTodos, DrainTodos
  <2>3. \A t \in Threads : thread[t] = Plan("idle")
    BY <1>1 DEF TerminalInit
  <2>4. TermTypes
    <3>1. life \in LifeStates /\ events \in TermQueues /\ Len(events.q) = 0
      BY <1>1 DEF TerminalInit, LifeStates, TermQueues
    <3>2. thread \in [Threads -> ThreadStates] /\ \A t \in Threads : thread[t].todo \in TodosOf(t)
      BY <1>1, <2>1, <2>2, <2>3 DEF TerminalInit
    <3>3. /\ shell = "none" /\ kids = {} /\ joined = FALSE /\ written = 0 /\ ptyBuf = 0 /\ master = FALSE /\ job = FALSE
          /\ owned = FALSE /\ halt = FALSE /\ late = FALSE /\ shownFinal = FALSE /\ typed = 0 /\ size = FALSE
          /\ ptyFaults = 0
      BY <1>1 DEF TerminalInit
    <3>4. 0 <= MaxOutput /\ 0 <= MaxEvents /\ 0 <= MaxTermFaults
      BY TerminalAssumption
    <3>5. /\ written \in Nat /\ written <= MaxOutput /\ ptyBuf \in Nat /\ ptyBuf <= written
          /\ Len(events.q) <= MaxEvents /\ typed \in Nat /\ ptyFaults \in Nat /\ ptyFaults <= MaxTermFaults
      BY <3>1, <3>3, <3>4
    <3>6. /\ kids \in SUBSET Groups /\ joined \in BOOLEAN /\ master \in BOOLEAN /\ job \in BOOLEAN /\ owned \in BOOLEAN /\ halt \in BOOLEAN
          /\ late \in BOOLEAN /\ shownFinal \in BOOLEAN /\ size \in BOOLEAN
          /\ shell \in {"none", "running", "zombie", "reaped"}
      BY <3>3
    <3> QED BY <3>1, <3>2, <3>5, <3>6 DEF TermTypes
  <2>5. \A x, t : t \in Threads => ~At(t, x)
    BY <2>1, <2>3 DEF At, Free
  <2>6. NothingOpen /\ StopsAreMarked /\ FinalsAreMarked
    BY <1>1, <2>3, <2>5 DEF TerminalInit, NothingOpen, StopsAreMarked, FinalsAreMarked
  <2>7. ExitsAwaitTail /\ SessionIsHeld
    BY <1>1, <2>1, <2>3, <2>5, LoopProcedures DEF TerminalInit, ExitsAwaitTail, SessionIsHeld,
       Free
  <2> QED BY <2>4, <2>6, <2>7 DEF TermInv
<1>2. ASSUME TermInv, [TerminalNext]_terminalVars
      PROVE  TermInv'
  <2>1. CASE UNCHANGED terminalVars
    <3>1. UNCHANGED <<shell, kids, written, ptyBuf, master, life, halt, typed, size, events,
                      shownFinal, job, late, thread, owned, joined, ptyFaults, calls>>
      BY <2>1 DEF terminalVars
    <3>2. TermTypes' /\ NothingOpen' /\ FinalsAreMarked'
      BY <1>2, <3>1 DEF TermInv, TermTypes, NothingOpen, FinalsAreMarked
    <3>3. StopsAreMarked' /\ ExitsAwaitTail' /\ SessionIsHeld'
      BY <1>2, <3>1 DEF TermInv, StopsAreMarked, ExitsAwaitTail, SessionIsHeld, Held, TailIsTaken,
         AllEnded, Ended, At, Free
    <3> QED BY <3>2, <3>3 DEF TermInv
  <2>2. ASSUME NEW t \in Threads, ThreadStep(t)
        PROVE  TermInv'
    BY <1>2, <2>2, MarkStep, PublishStep, StopStep, EndingStep DEF ThreadStep
  <2>3. ASSUME NEW t \in Threads, WorkerStep(t)
        PROVE  TermInv'
    BY <1>2, <2>3, ReaderStep, WriterStep, ResizerStep, ChildStep DEF WorkerStep
  <2> QED BY <1>2, <2>1, <2>2, <2>3, ReaderStep, WriterStep, StillStep, PollStep, CallStep, OpenStep DEF TerminalNext
<1> QED BY <1>1, <1>2, PTL DEF TerminalSpec

\* For every interleaving of the four workers, the closers, the shell's exit and a
\* failing pseudo terminal: a terminal event is the last, an exit is announced after the
\* tail, and the supervisor lets a session go only when its shell, the processes its stop
\* reaches and its workers have ended (session.rs, session_workers.rs, process.rs).
THEOREM TerminalStaysSound == TerminalSpec => []SessionIsSound
<1>1. ASSUME TermInv
      PROVE  SessionIsSound
  <2>1. TerminalTypeOK
    BY <1>1, TerminalAssumption DEF TermInv, TermTypes, TerminalTypeOK, ThreadStates
  <2>2. FinalIsLast
    BY <1>1 DEF TermInv, FinalsAreMarked, FinalIsLast
  <2>3. TailBeforeExit
    BY <1>1 DEF TermInv, ExitsAwaitTail, TailIsTaken, TailBeforeExit
  <2>4. OwnedUntilGone
    <3>1. AllEnded => thread["child"].pc = "end"
      BY LoopProcedures DEF AllEnded, Ended
    <3> QED BY <1>1, <3>1 DEF TermInv, SessionIsHeld, OwnedUntilGone
  <2> QED BY <2>1, <2>2, <2>3, <2>4 DEF SessionIsSound
<1> QED BY <1>1, TerminalIsConsistent, PTL

-----------------------------------------------------------------------------
(* Marker clean-up (module Markers).                                       *)

Contents == {"absent", "prepared", "part", "soft", "full"}
Dirs == [Names -> Contents]

\* The operations of a pass, those of the owner alone, and where failures lead.
PassWorks == {"create", "write", "fsync", "dsync", "unlink", "isolate", "tombstone", "kill"}
OwnerWorks == {"prepare_marker", "spawn", "truncate", "rename", "reap"}
Works == PassWorks \cup OwnerWorks
OpNames == Works \cup Expands \cup Recoveries \cup Ends
PassElses == {"err", "restore", "restore_twin", "last_copy", "put_back", "abort"}
Elses == PassElses \cup {"end", "discard", "rewrite", "rewrite_marker"}
Ops == OpNames \X Names \X Elses

\* Operations that a pass does not come back from without having failed.
Doom == (Ends \ {"ok"}) \cup Recoveries \cup {"restore_twin"}

\* Operations on a tombstone or its backup, and handlers that look at the target.
OfCleaned == {"close", "backup", "publish", "restore_twin", "restore", "last_copy"}
ToTarget == {"restore", "restore_twin", "last_copy"}

MarkersTypes ==
  /\ dir \in Dirs /\ seen \in Dirs /\ markerDisk \subseteq Dirs /\ dir \in markerDisk
  /\ helperProc \in {"none", "running", "gone"} /\ phase \in {"owner", "idle", "pass"}
  /\ todo \subseteq Names /\ fresh \subseteq Names /\ target \in Names
  /\ troubled \in BOOLEAN /\ result \in {"none", "ok", "err", "abort"}
  /\ faults \in 0..MaxFaults
  /\ plan \in Seq(Ops)

\* What the operation at place i of plan p may be, for target t in phase ph.
ShapeAt(p, t, ph, i) ==
  /\ p[i][1] \in OfCleaned => p[i][2] \in Cleaned
  /\ p[i][1] \in ToTarget => p[i][2] = t
  /\ p[i][3] \in ToTarget => t \in Cleaned
  /\ p[i][3] = "last_copy" => p[i][2] = Twin(t)
  /\ p[i][3] \in {"last_copy", "put_back"} => p[i][1] \in {"unlink", "dsync"}
  /\ p[i][1] = "ok" => i = Len(p)
  /\ p[i][1] = "close" => \A j \in (i + 1)..Len(p) : p[j][1] = "ok" /\ p[j][3] = "err"
  /\ ph = "pass" => p[i][1] \notin OwnerWorks \cup {"rewrite", "end"} /\ p[i][3] \in PassElses

Shape(p, t, ph) == \A i \in 1..Len(p) : ShapeAt(p, t, ph, i)

PlanShape == Shape(plan, target, phase) /\ (phase = "idle" => plan = <<>>)

\* The marker is removed only after the helper was killed or reaped,
Drops(op) == op[1] \in {"unlink", "isolate", "tombstone"} /\ op[2] = "active"

NamedAt(p, d, h, i) ==
  /\ Drops(p[i]) => /\ \A j \in 1..Len(p) : p[j][1] # "spawn"
                    /\ h # "running" \/ \E j \in 1..(i - 1) : p[j][1] \in {"kill", "reap"}
  /\ p[i][1] = "spawn" /\ i = 1 => Present(d, "active")
  /\ p[i][1] = "spawn" \/ p[i][3] = "discard" =>
       /\ h = "none"
       /\ \A j \in 1..(i - 1) : p[j][1] = "prepare_marker" /\ p[j][2] = "active"

Named(p, d, h) == \A i \in 1..Len(p) : NamedAt(p, d, h, i)

\* so a helper that runs is named by it.
HelperNamed == Named(plan, dir, helperProc) /\ (helperProc = "running" => Present(dir, "active"))

\* What a pass has not touched is as it was scanned, and it lists whole markers only.
Scanned ==
  phase = "pass" => /\ \A n \in Names : n \notin fresh => dir[n] = seen[n]
                    /\ "active" \in todo => Whole(seen, "active")

\* An operation that removes n, one that brings it, and the end that takes it off
\* the list of what is to be handled.
Clears(op, n) ==
  \/ op[1] \in {"unlink", "isolate", "tombstone"} /\ op[2] = n
  \/ op[1] = "close" /\ n \in Cleaned
  \/ op[1] \in {"backup", "close_pending"} /\ n = "pending"
Brings(op, n) ==
  \/ op[1] \in {"create", "write"} /\ op[2] = n
  \/ op[1] = "tombstone" /\ n = "cleaned"
  \/ op[1] \in {"backup", "publish"} /\ n = Twin(op[2])
Excuses(op, n) == op[1] = "ok" /\ op[2] = n

\* The transaction will fail, or it clears what is there and what it brings, and a
\* damaged tombstone is not handled before its whole twin.
Doomed(p) == \E i \in 1..Len(p) : p[i][1] \in Doom
AllCleared(p, d, t) ==
  \A n \in Names : Present(d, n) /\ (n \notin t \/ \E i \in 1..Len(p) : Excuses(p[i], n))
                     => \E j \in 1..Len(p) : Clears(p[j], n)
NothingAdded(p) ==
  \A i \in 1..Len(p) : \A n \in Names : Brings(p[i], n) => \E j \in (i + 1)..Len(p) : Clears(p[j], n)
TwinsTogether(p, s, t) ==
  \A n \in Cleaned :
    n \in t /\ Whole(s, Twin(n)) /\ (Twin(n) \notin t \/ \E i \in 1..Len(p) : Excuses(p[i], Twin(n)))
      => \E i \in 1..Len(p) : Excuses(p[i], n)

Empties(p, d, s, t) == AllCleared(p, d, t) /\ NothingAdded(p) /\ TwinsTogether(p, s, t)

LeavesNothing == phase = "pass" /\ ~troubled => Doomed(plan) \/ Empties(plan, dir, seen, todo)

OkIsEmpty == result = "ok" => phase = "idle" /\ dir = Empty /\ markerDisk = {Empty}

\* An operation that may cost n its whole image, and one that leaves n whole.
Takes(op, n) ==
  \/ op[1] \in {"create", "write", "unlink", "isolate", "tombstone"} /\ op[2] = n
  \/ op[1] = "tombstone" /\ n = "cleaned"
  \/ op[1] \in {"backup", "close_pending"} /\ n = "pending"
  \/ op[1] = "close"
Makes(op, n) ==
  \/ op[1] = "fsync" /\ op[2] = n
  \/ op[1] = "tombstone" /\ n = "cleaned"
  \/ op[1] \in {"backup", "publish"} /\ n = Twin(op[2])

\* n is whole, or gone, when place i of plan p is reached from directory d.
WholeAt(p, d, n, i) ==
  \/ Whole(d, n) /\ \A j \in 1..(i - 1) : ~Takes(p[j], n)
  \/ \E k \in 1..(i - 1) : Makes(p[k], n) /\ \A j \in (k + 1)..(i - 1) : ~Takes(p[j], n)
GoneAt(p, d, n, i) ==
  \/ i = 1 /\ ~Present(d, n)
  \/ i # 1 /\ p[i - 1][1] = "unlink" /\ p[i - 1][2] = n
FirmAt(p, d, n, i) == WholeAt(p, d, n, i) \/ GoneAt(p, d, n, i)
Halted(p, i) == \E k \in 1..(i - 1) : p[k][1] \in Doom

\* Some image is whole there and outlives the operation.
Lit(p, d, i) ==
  \E n \in Names : WholeAt(p, d, n, i) /\ (Takes(p[i], n) => p[i][1] = "tombstone" \/ p[i][1] \in Expands)

\* The operations after which a transaction may end for want of success.
Needs(op) == op[1] \in {"fail", "restore"} \/ (op[1] \notin Ends /\ op[3] \in {"err", "restore"})

KeptAt(p, d, i) ==
  /\ Needs(p[i]) => Lit(p, d, i)
  /\ p[i][3] \in {"put_back", "last_copy"} => FirmAt(p, d, p[i][2], i)
  /\ p[i][1] = "put_back" => FirmAt(p, d, p[i][2], i)
  /\ p[i][1] = "last_copy" => FirmAt(p, d, Twin(p[i][2]), i)
  /\ p[i][1] \in {"backup", "publish", "close_pending"} => WholeAt(p, d, p[i][2], i) /\ p[i][2] \in Cleaned
  /\ p[i][1] = "tombstone" => p[i][2] = "active" /\ WholeAt(p, d, "active", i)

Kept(p, d) == \A i \in 1..Len(p) : Halted(p, i) \/ KeptAt(p, d, i)

\* A transaction on a whole image that fails leaves one.
ImageStays == phase = "pass" => Kept(plan, dir) \/ (plan[1][1] = "fail" /\ ~Whole(seen, target))

MarkersInv ==
  MarkersTypes /\ PlanShape /\ HelperNamed /\ Scanned /\ LeavesNothing /\ OkIsEmpty /\ ImageStays

-----------------------------------------------------------------------------
\* Plan q is plan p with its first operation replaced by the operations of x.
Splice(p, x, q) ==
  /\ Len(x) \in Nat /\ Len(p) \in Nat \ {0} /\ Len(q) = Len(x) + Len(p) - 1
  /\ \A i \in 1..Len(x) : q[i] = x[i]
  /\ \A i \in 2..Len(p) : q[Len(x) + i - 1] = p[i]

\* Which is what a step into a part of a transaction does, and a completed operation.
LEMMA Spliced ==
  ASSUME NEW S, NEW p \in Seq(S), p # <<>>
  PROVE  /\ Head(p) = p[1] /\ p[1] \in S
         /\ Tail(p) \in Seq(S) /\ Splice(p, <<>>, Tail(p))
         /\ \A x \in Seq(S) : x \o Tail(p) \in Seq(S) /\ Splice(p, x, x \o Tail(p))
<1>1. Head(p) = p[1] /\ p[1] \in S /\ Tail(p) \in Seq(S) /\ Len(Tail(p)) = Len(p) - 1 /\ Len(p) \in Nat \ {0}
  OBVIOUS
<1>2. \A i \in 2..Len(p) : Tail(p)[i - 1] = p[i]
  OBVIOUS
<1>3. Splice(p, <<>>, Tail(p))
  BY <1>1, <1>2 DEF Splice
<1>4. ASSUME NEW x \in Seq(S)
      PROVE  x \o Tail(p) \in Seq(S) /\ Splice(p, x, x \o Tail(p))
  BY <1>1, <1>2 DEF Splice
<1> QED BY <1>1, <1>3, <1>4

\* The places of such a plan.
LEMMA SplicePlaces ==
  ASSUME NEW p, NEW x, NEW q, Splice(p, x, q)
  PROVE  /\ Len(x) \in Nat /\ Len(p) \in Nat \ {0} /\ Len(q) = Len(x) + Len(p) - 1
         /\ \A i \in 1..Len(x) : i \in 1..Len(q) /\ q[i] = x[i]
         /\ \A i \in 2..Len(p) : Len(x) + i - 1 \in (Len(x) + 1)..Len(q) /\ q[Len(x) + i - 1] = p[i]
         /\ \A i \in 1..Len(q) : \/ i \in 1..Len(x)
                                 \/ i - Len(x) + 1 \in 2..Len(p) /\ q[i] = p[i - Len(x) + 1]
<1>1. ASSUME NEW i \in 1..Len(q), i \notin 1..Len(x)
      PROVE  i - Len(x) + 1 \in 2..Len(p) /\ q[i] = p[i - Len(x) + 1]
  <2>1. i - Len(x) + 1 \in 2..Len(p)
    BY <1>1 DEF Splice
  <2>2. Len(x) + (i - Len(x) + 1) - 1 = i
    BY <1>1 DEF Splice
  <2> QED BY <2>1, <2>2 DEF Splice
<1> QED BY <1>1 DEF Splice

\* What every operation of a plan may be survives the replacement of the first one.
LEMMA ShapeSpliced ==
  ASSUME NEW p, NEW x, NEW q, Splice(p, x, q), NEW t, NEW ph,
         \A i \in 2..Len(p) : ShapeAt(p, t, ph, i),
         \A i \in 1..Len(x) : ShapeAt(x, t, ph, i) /\ x[i][1] \notin {"ok", "close"}
  PROVE  Shape(q, t, ph)
<1> SUFFICES ASSUME NEW i \in 1..Len(q) PROVE ShapeAt(q, t, ph, i)
  BY DEF Shape
<1>1. CASE i \in 1..Len(x)
  <2>1. q[i] = x[i] /\ x[i][1] \notin {"ok", "close"} /\ ShapeAt(x, t, ph, i)
    BY <1>1, SplicePlaces
  <2> QED BY <2>1 DEF ShapeAt
<1>2. CASE i \notin 1..Len(x)
  <2> DEFINE k == i - Len(x) + 1
  <2>1. k \in 2..Len(p) /\ q[i] = p[k] /\ Len(x) \in Nat /\ Len(p) \in Nat /\ Len(q) = Len(x) + Len(p) - 1
    BY <1>2, SplicePlaces
  <2>2. ShapeAt(p, t, ph, k)
    BY <2>1
  <2>3. k = Len(p) => i = Len(q)
    BY <2>1
  <2>4. ASSUME NEW j \in (i + 1)..Len(q)
        PROVE  j - Len(x) + 1 \in (k + 1)..Len(p) /\ q[j] = p[j - Len(x) + 1]
    <3>1. i \in Nat /\ Len(x) < i /\ Len(x) \in Nat /\ Len(p) \in Nat /\ Len(q) = Len(x) + Len(p) - 1
      BY <1>2, <2>1
    <3>2. j \in 1..Len(q) /\ j \notin 1..Len(x)
      BY <2>4, <3>1
    <3>3. j - Len(x) + 1 \in (k + 1)..Len(p)
      BY <2>4, <3>1
    <3> QED BY <3>2, <3>3, SplicePlaces
  <2> HIDE DEF k
  <2>5. ASSUME q[i][1] = "close", NEW j \in (i + 1)..Len(q) PROVE q[j][1] = "ok" /\ q[j][3] = "err"
    <3>1. PICK m \in (k + 1)..Len(p) : q[j] = p[m]
      BY <2>4
    <3>2. \A l \in (k + 1)..Len(p) : p[l][1] = "ok" /\ p[l][3] = "err"
      BY <2>1, <2>2, <2>5 DEF ShapeAt
    <3> QED BY <3>1, <3>2
  <2>6. q[i][1] = "ok" => i = Len(q)
    BY <2>1, <2>2, <2>3 DEF ShapeAt
  <2>7. /\ q[i][1] \in OfCleaned => q[i][2] \in Cleaned
        /\ q[i][1] \in ToTarget => q[i][2] = t
        /\ q[i][3] \in ToTarget => t \in Cleaned
        /\ q[i][3] = "last_copy" => q[i][2] = Twin(t)
        /\ q[i][3] \in {"last_copy", "put_back"} => q[i][1] \in {"unlink", "dsync"}
        /\ ph = "pass" => q[i][1] \notin OwnerWorks \cup {"rewrite", "end"} /\ q[i][3] \in PassElses
    BY <2>1, <2>2 DEF ShapeAt
  <2> QED BY <2>5, <2>6, <2>7 DEF ShapeAt
<1> QED BY <1>1, <1>2

\* So does the order of marker, helper and removal.
LEMMA NamedSpliced ==
  ASSUME NEW p, NEW x, NEW q, Splice(p, x, q), NEW d, NEW d2, NEW h, NEW h2, Named(p, d, h),
         \A i \in 1..Len(x) : ~Drops(x[i]) /\ x[i][3] # "discard" /\ x[i][1] # "spawn",
         p[1][1] \in {"kill", "reap"} => h2 # "running",
         h2 = "running" => h = "running" \/ p[1][1] = "spawn",
         h = "none" => h2 = "none" \/ p[1][1] = "spawn",
         p[1][1] = "prepare_marker" /\ p[1][2] = "active" => Len(x) = 0 /\ Present(d2, "active")
  PROVE  Named(q, d2, h2)
<1> SUFFICES ASSUME NEW i \in 1..Len(q) PROVE NamedAt(q, d2, h2, i)
  BY DEF Named
<1>1. CASE i \in 1..Len(x)
  <2>1. q[i] = x[i] BY <1>1, SplicePlaces
  <2> QED BY <1>1, <2>1 DEF NamedAt
<1>2. CASE i \notin 1..Len(x)
  <2> DEFINE k == i - Len(x) + 1
  <2>1. k \in 2..Len(p) /\ q[i] = p[k] /\ Len(x) \in Nat /\ Len(p) \in Nat /\ Len(q) = Len(x) + Len(p) - 1
    <3>1. /\ Len(x) \in Nat /\ Len(p) \in Nat \ {0} /\ Len(q) = Len(x) + Len(p) - 1
          /\ i \in 1..Len(x) \/ (i - Len(x) + 1 \in 2..Len(p) /\ q[i] = p[i - Len(x) + 1])
      BY SplicePlaces
    <3> QED BY <1>2, <3>1
  <2>2. k \in 1..Len(p) /\ 1 \in 1..Len(p) /\ NamedAt(p, d, h, k) /\ NamedAt(p, d, h, 1)
    <3>1. k \in 1..Len(p) /\ 1 \in 1..Len(p)
      BY <2>1
    <3>2. \A m \in 1..Len(p) : NamedAt(p, d, h, m)
      BY DEF Named
    <3> QED BY <3>1, <3>2
  <2>3. ASSUME Drops(q[i])
        PROVE  /\ \A j \in 1..Len(q) : q[j][1] # "spawn"
               /\ h2 # "running" \/ \E j \in 1..(i - 1) : q[j][1] \in {"kill", "reap"}
    <3>1. /\ \A j \in 1..Len(p) : p[j][1] # "spawn"
          /\ h # "running" \/ \E j \in 1..(k - 1) : p[j][1] \in {"kill", "reap"}
      BY <2>1, <2>2, <2>3 DEF NamedAt
    <3>2. ASSUME NEW j \in 1..Len(q) PROVE q[j][1] # "spawn"
      <4>1. CASE j \in 1..Len(x) BY <4>1, SplicePlaces
      <4>2. CASE j \notin 1..Len(x)
        <5>1. j - Len(x) + 1 \in 2..Len(p) /\ q[j] = p[j - Len(x) + 1] BY <4>2, SplicePlaces
        <5>2. j - Len(x) + 1 \in 1..Len(p) BY <2>1, <5>1
        <5> QED BY <3>1, <5>1, <5>2
      <4> QED BY <4>1, <4>2
    <3>3. CASE h # "running"
      BY <2>1, <2>2, <3>1, <3>2, <3>3
    <3>4. ASSUME NEW j \in 1..(k - 1), p[j][1] \in {"kill", "reap"}
          PROVE  h2 # "running" \/ \E m \in 1..(i - 1) : q[m][1] \in {"kill", "reap"}
      <4>1. CASE j = 1 BY <3>4, <4>1
      <4>2. CASE j # 1
        <5>1. j \in 2..Len(p) /\ Len(x) + j - 1 \in 1..(i - 1)
          BY <2>1, <4>2
        <5>2. q[Len(x) + j - 1] = p[j] BY <5>1, SplicePlaces
        <5> QED BY <3>4, <5>1, <5>2
      <4> QED BY <4>1, <4>2
    <3> QED BY <3>1, <3>2, <3>3, <3>4
  <2>4. ASSUME q[i][1] = "spawn" \/ q[i][3] = "discard"
        PROVE  /\ h2 = "none" /\ (i = 1 => Present(d2, "active"))
               /\ \A j \in 1..(i - 1) : q[j][1] = "prepare_marker" /\ q[j][2] = "active"
    <3>1. h = "none" /\ \A j \in 1..(k - 1) : p[j][1] = "prepare_marker" /\ p[j][2] = "active"
      BY <2>1, <2>2, <2>4 DEF NamedAt
    <3>2. p[1][1] = "prepare_marker" /\ p[1][2] = "active"
      BY <2>1, <3>1
    <3>3. Len(x) = 0 /\ Present(d2, "active") /\ h2 = "none"
      BY <3>1, <3>2
    <3>4. ASSUME NEW j \in 1..(i - 1) PROVE q[j][1] = "prepare_marker" /\ q[j][2] = "active"
      <4>0. PICK m \in Nat : m = j + 1
        OBVIOUS
      <4>1. m \in 2..Len(p) /\ m \in 1..(k - 1) /\ Len(x) + m - 1 = j
        BY <2>1, <3>3, <4>0
      <4>2. q[Len(x) + m - 1] = p[m]
        BY <4>1, SplicePlaces
      <4> QED BY <3>1, <4>1, <4>2
    <3> QED BY <3>3, <3>4
  <2> QED BY <2>3, <2>4 DEF NamedAt
<1> QED BY <1>1, <1>2

\* A transaction that is to fail still is.
LEMMA DoomSpliced ==
  ASSUME NEW p, NEW x, NEW q, Splice(p, x, q)
  PROVE  /\ Doomed(x) => Doomed(q)
         /\ Doomed(p) /\ p[1][1] \notin Doom => Doomed(q)
<1>1. ASSUME NEW i \in 1..Len(x), x[i][1] \in Doom PROVE Doomed(q)
  <2>1. i \in 1..Len(q) /\ q[i] = x[i] BY SplicePlaces
  <2> QED BY <1>1, <2>1 DEF Doomed
<1>2. ASSUME NEW i \in 1..Len(p), p[i][1] \in Doom, p[1][1] \notin Doom PROVE Doomed(q)
  <2>1. i \in 2..Len(p) BY <1>2
  <2>2. Len(x) + i - 1 \in (Len(x) + 1)..Len(q) /\ q[Len(x) + i - 1] = p[i] /\ Len(x) \in Nat BY <2>1, SplicePlaces
  <2>3. Len(x) + i - 1 \in 1..Len(q) BY <2>2
  <2> QED BY <1>2, <2>2, <2>3 DEF Doomed
<1> QED BY <1>1, <1>2 DEF Doomed

\* And one that leaves nothing still leaves nothing, if the replacement clears what
\* the first operation would have cleared and what it brings itself.
LEMMA EmptiesSpliced ==
  ASSUME NEW p, NEW x, NEW q, Splice(p, x, q), NEW d, NEW d2, NEW s, NEW t, Empties(p, d, s, t),
         p[1][1] # "ok", \A i \in 1..Len(x) : x[i][1] # "ok",
         \A n \in Names : Present(d2, n) => Present(d, n) \/ Brings(p[1], n),
         \A n \in Names : Clears(p[1], n) /\ Present(d2, n) => \E j \in 1..Len(x) : Clears(x[j], n),
         \A i \in 1..Len(x) : \A n \in Names :
           Brings(x[i], n) => Brings(p[1], n) \/ \E j \in (i + 1)..Len(x) : Clears(x[j], n)
  PROVE  Empties(q, d2, s, t)
<1>1. /\ Len(x) \in Nat /\ Len(p) \in Nat \ {0} /\ Len(q) = Len(x) + Len(p) - 1
      /\ \A i \in 1..Len(x) : i \in 1..Len(q) /\ q[i] = x[i]
      /\ \A i \in 2..Len(p) : Len(x) + i - 1 \in (Len(x) + 1)..Len(q) /\ q[Len(x) + i - 1] = p[i]
      /\ \A i \in 1..Len(q) : \/ i \in 1..Len(x)
                              \/ i - Len(x) + 1 \in 2..Len(p) /\ q[i] = p[i - Len(x) + 1]
  BY SplicePlaces
<1>2. ASSUME NEW n, NEW i \in 1..Len(q), Excuses(q[i], n)
      PROVE  \E k \in 1..Len(p) : Excuses(p[k], n)
  <2>1. i \notin 1..Len(x)
    BY <1>1, <1>2 DEF Excuses
  <2>2. i - Len(x) + 1 \in 2..Len(p) /\ q[i] = p[i - Len(x) + 1]
    BY <1>1, <2>1
  <2>3. i - Len(x) + 1 \in 1..Len(p)
    BY <1>1, <2>2
  <2> QED BY <1>2, <2>2, <2>3
<1>3. ASSUME NEW n, NEW k \in 1..Len(p), Excuses(p[k], n)
      PROVE  \E i \in 1..Len(q) : Excuses(q[i], n)
  <2>1. k \in 2..Len(p)
    BY <1>1, <1>3 DEF Excuses
  <2>2. Len(x) + k - 1 \in 1..Len(q) /\ q[Len(x) + k - 1] = p[k]
    BY <1>1, <2>1
  <2> QED BY <1>3, <2>2
<1>4. ASSUME NEW n, NEW k \in 2..Len(p), Clears(p[k], n)
      PROVE  Len(x) + k - 1 \in (Len(x) + 1)..Len(q) /\ Len(x) + k - 1 \in 1..Len(q) /\ Clears(q[Len(x) + k - 1], n)
  BY <1>1, <1>4
<1>5. AllCleared(q, d2, t)
  <2> SUFFICES ASSUME NEW n \in Names, Present(d2, n), n \notin t \/ \E i \in 1..Len(q) : Excuses(q[i], n)
               PROVE  \E j \in 1..Len(q) : Clears(q[j], n)
    BY DEF AllCleared
  <2>1. CASE Brings(p[1], n)
    <3>1. 1 \in 1..Len(p) /\ NothingAdded(p) BY <1>1 DEF Empties
    <3>2. PICK j \in 2..Len(p) : Clears(p[j], n) BY <2>1, <3>1 DEF NothingAdded
    <3> QED BY <1>4, <3>2
  <2>2. CASE Present(d, n)
    <3>1. n \notin t \/ \E i \in 1..Len(p) : Excuses(p[i], n) BY <1>2
    <3>2. PICK j \in 1..Len(p) : Clears(p[j], n) BY <2>2, <3>1 DEF Empties, AllCleared
    <3>3. CASE j = 1
      <4>1. PICK m \in 1..Len(x) : Clears(x[m], n) BY <3>2, <3>3
      <4> QED BY <1>1, <4>1
    <3>4. CASE j # 1
      <4>1. j \in 2..Len(p) BY <1>1, <3>4
      <4> QED BY <1>4, <3>2, <4>1
    <3> QED BY <3>3, <3>4
  <2> QED BY <2>1, <2>2
<1>6. NothingAdded(q)
  <2> SUFFICES ASSUME NEW i \in 1..Len(q), NEW n \in Names, Brings(q[i], n)
               PROVE  \E j \in (i + 1)..Len(q) : Clears(q[j], n)
    BY DEF NothingAdded
  <2>1. NothingAdded(p) /\ 1 \in 1..Len(p) BY <1>1 DEF Empties
  <2>2. CASE i \in 1..Len(x)
    <3>1. Brings(x[i], n) BY <1>1, <2>2
    <3>2. CASE Brings(p[1], n)
      <4>1. PICK j \in 2..Len(p) : Clears(p[j], n) BY <2>1, <3>2 DEF NothingAdded
      <4>2. Len(x) + j - 1 \in (Len(x) + 1)..Len(q) /\ Clears(q[Len(x) + j - 1], n) BY <1>4, <4>1
      <4>3. Len(x) + j - 1 \in (i + 1)..Len(q) BY <1>1, <2>2, <4>2
      <4> QED BY <4>2, <4>3
    <3>3. ASSUME NEW j \in (i + 1)..Len(x), Clears(x[j], n) PROVE \E m \in (i + 1)..Len(q) : Clears(q[m], n)
      <4>1. j \in 1..Len(x) /\ j \in (i + 1)..Len(q) BY <1>1, <2>2
      <4> QED BY <1>1, <3>3, <4>1
    <3> QED BY <2>2, <3>1, <3>2, <3>3
  <2>3. CASE i \notin 1..Len(x)
    <3> DEFINE k == i - Len(x) + 1
    <3>1. k \in 2..Len(p) /\ k \in 1..Len(p) /\ q[i] = p[k] BY <1>1, <2>3
    <3>2. PICK j \in (k + 1)..Len(p) : Clears(p[j], n) BY <2>1, <3>1 DEF NothingAdded
    <3>3. j \in 2..Len(p) /\ Len(x) + j - 1 >= i + 1 BY <1>1, <3>1, <3>2
    <3>4. Len(x) + j - 1 \in (Len(x) + 1)..Len(q) /\ Clears(q[Len(x) + j - 1], n) BY <1>4, <3>2, <3>3
    <3>5. Len(x) + j - 1 \in (i + 1)..Len(q) BY <1>1, <3>3, <3>4
    <3> QED BY <3>4, <3>5
  <2> QED BY <2>2, <2>3
<1>7. TwinsTogether(q, s, t)
  <2> SUFFICES ASSUME NEW n \in Cleaned, n \in t, Whole(s, Twin(n)),
                      Twin(n) \notin t \/ \E i \in 1..Len(q) : Excuses(q[i], Twin(n))
               PROVE  \E i \in 1..Len(q) : Excuses(q[i], n)
    BY DEF TwinsTogether
  <2>1. Twin(n) \notin t \/ \E i \in 1..Len(p) : Excuses(p[i], Twin(n))
    BY <1>2
  <2>2. \E i \in 1..Len(p) : Excuses(p[i], n)
    BY <2>1 DEF Empties, TwinsTogether
  <2> QED BY <1>3, <2>2
<1> QED BY <1>5, <1>6, <1>7 DEF Empties

\* A whole image lasts until an operation takes it.
LEMMA WholeLasts ==
  ASSUME NEW q, NEW d, NEW n, NEW m \in Nat \ {0}, NEW i \in Nat, m <= i, WholeAt(q, d, n, m),
         \A j \in m..(i - 1) : ~Takes(q[j], n)
  PROVE  WholeAt(q, d, n, i)
<1>1. CASE Whole(d, n) /\ \A j \in 1..(m - 1) : ~Takes(q[j], n)
  <2>1. \A j \in 1..(i - 1) : j \in 1..(m - 1) \/ j \in m..(i - 1)
    OBVIOUS
  <2> QED BY <1>1, <2>1 DEF WholeAt
<1>2. ASSUME NEW k \in 1..(m - 1), Makes(q[k], n), \A j \in (k + 1)..(m - 1) : ~Takes(q[j], n)
      PROVE  WholeAt(q, d, n, i)
  <2>1. k \in 1..(i - 1) /\ \A j \in (k + 1)..(i - 1) : j \in (k + 1)..(m - 1) \/ j \in m..(i - 1)
    OBVIOUS
  <2> QED BY <1>2, <2>1 DEF WholeAt
<1> QED BY <1>1, <1>2 DEF WholeAt

\* A plan with the same beginning has the same images there.
LEMMA WholeInBoth ==
  ASSUME NEW x, NEW q, NEW d, NEW n, NEW i \in Nat, \A j \in 1..(i - 1) : q[j] = x[j], WholeAt(x, d, n, i)
  PROVE  WholeAt(q, d, n, i)
<1>1. CASE Whole(d, n) /\ \A j \in 1..(i - 1) : ~Takes(x[j], n)
  BY <1>1 DEF WholeAt
<1>2. ASSUME NEW k \in 1..(i - 1), Makes(x[k], n), \A j \in (k + 1)..(i - 1) : ~Takes(x[j], n)
      PROVE  WholeAt(q, d, n, i)
  <2>1. \A j \in (k + 1)..(i - 1) : j \in 1..(i - 1)
    OBVIOUS
  <2>2. Makes(q[k], n) /\ \A j \in (k + 1)..(i - 1) : ~Takes(q[j], n)
    BY <1>2, <2>1
  <2> QED BY <2>2 DEF WholeAt
<1> QED BY <1>1, <1>2 DEF WholeAt

\* The images that a plan counts on are still there, if the replacement leaves whole
\* what the first operation would have left or made whole.
LEMMA KeptSpliced ==
  ASSUME NEW p, NEW x, NEW q, Splice(p, x, q), NEW d, NEW d2, Kept(p, d), Kept(x, d2), p[1][1] \notin Doom,
         \A i \in 1..Len(p) : p[i][2] \in Names /\ (p[i][1] = "last_copy" => Twin(p[i][2]) \in Names),
         \A n \in Names : Whole(d, n) /\ ~Takes(p[1], n) => Doomed(x) \/ WholeAt(x, d2, n, Len(x) + 1),
         \A n \in Names : Makes(p[1], n) => Doomed(x) \/ WholeAt(x, d2, n, Len(x) + 1),
         p[1][1] = "unlink" => Len(x) = 0 /\ ~Present(d2, p[1][2])
  PROVE  Kept(q, d2)
<1>1. /\ Len(x) \in Nat /\ Len(p) \in Nat \ {0} /\ Len(q) = Len(x) + Len(p) - 1
      /\ \A i \in 1..Len(x) : i \in 1..Len(q) /\ q[i] = x[i]
      /\ \A i \in 2..Len(p) : Len(x) + i - 1 \in (Len(x) + 1)..Len(q) /\ q[Len(x) + i - 1] = p[i]
      /\ \A i \in 1..Len(q) : \/ i \in 1..Len(x)
                              \/ i - Len(x) + 1 \in 2..Len(p) /\ q[i] = p[i - Len(x) + 1]
  BY SplicePlaces
<1>2. ASSUME NEW i \in 2..Len(p), NEW n \in Names, WholeAt(p, d, n, i), ~Doomed(x)
      PROVE  WholeAt(q, d2, n, Len(x) + i - 1)
  <2> DEFINE e == Len(x) + i - 1
  <2>0. e \in Nat /\ Len(x) + 1 <= e /\ Len(x) + 1 \in Nat \ {0}
    BY <1>1
  <2>1. ASSUME NEW j \in (Len(x) + 1)..(e - 1)
        PROVE  j - Len(x) + 1 \in 2..(i - 1) /\ q[j] = p[j - Len(x) + 1]
    <3>1. j \in 1..Len(q) /\ j \notin 1..Len(x) /\ j - Len(x) + 1 \in 2..(i - 1)
      BY <1>1
    <3> QED BY <1>1, <3>1
  <2>2. ASSUME WholeAt(x, d2, n, Len(x) + 1), \A j \in 2..(i - 1) : ~Takes(p[j], n)
        PROVE  WholeAt(q, d2, n, e)
    <3>1. \A j \in 1..(Len(x) + 1 - 1) : q[j] = x[j]
      BY <1>1
    <3>2. WholeAt(q, d2, n, Len(x) + 1)
      BY <2>0, <2>2, <3>1, WholeInBoth
    <3>3. \A j \in (Len(x) + 1)..(e - 1) : ~Takes(q[j], n)
      BY <2>1, <2>2
    <3> HIDE DEF e
    <3> QED BY <2>0, <3>2, <3>3, WholeLasts
  <2>3. CASE Whole(d, n) /\ \A j \in 1..(i - 1) : ~Takes(p[j], n)
    <3>1. 1 \in 1..(i - 1) /\ \A j \in 2..(i - 1) : j \in 1..(i - 1)
      BY <1>1
    <3> QED BY <1>2, <2>2, <2>3, <3>1
  <2>4. ASSUME NEW k \in 1..(i - 1), Makes(p[k], n), \A j \in (k + 1)..(i - 1) : ~Takes(p[j], n)
        PROVE  WholeAt(q, d2, n, e)
    <3>1. CASE k = 1
      BY <1>2, <2>2, <2>4, <3>1
    <3>2. CASE k # 1
      <4> DEFINE f == Len(x) + k - 1
      <4>1. k \in 2..Len(p) /\ f \in 1..(e - 1)
        BY <1>1, <3>2
      <4>2. q[f] = p[k]
        BY <1>1, <4>1
      <4>3. ASSUME NEW j \in (f + 1)..(e - 1) PROVE ~Takes(q[j], n)
        <5>1. j \in (Len(x) + 1)..(e - 1) /\ j - Len(x) + 1 \in (k + 1)..(i - 1)
          BY <1>1, <4>1
        <5> QED BY <2>1, <2>4, <5>1
      <4> HIDE DEF e, f
      <4> QED BY <2>4, <4>1, <4>2, <4>3 DEF WholeAt
    <3> QED BY <3>1, <3>2
  <2> QED BY <1>2, <2>3, <2>4 DEF WholeAt
<1>3. ASSUME NEW i \in 2..Len(p), NEW n \in Names, FirmAt(p, d, n, i), ~Doomed(x)
      PROVE  FirmAt(q, d2, n, Len(x) + i - 1)
  <2>1. CASE WholeAt(p, d, n, i)
    BY <1>2, <1>3, <2>1 DEF FirmAt
  <2>2. CASE p[i - 1][1] = "unlink" /\ p[i - 1][2] = n
    <3>1. CASE i = 2
      <4>1. Len(x) + i - 1 = 1 /\ ~Present(d2, n)
        BY <2>2, <3>1
      <4> QED BY <4>1 DEF FirmAt, GoneAt
    <3>2. CASE i # 2
      <4>1. i - 1 \in 2..Len(p) /\ Len(x) + (i - 1) - 1 = (Len(x) + i - 1) - 1 /\ Len(x) + i - 1 # 1
        BY <1>1, <3>2
      <4>2. q[Len(x) + (i - 1) - 1] = p[i - 1]
        BY <1>1, <4>1
      <4> QED BY <2>2, <4>1, <4>2 DEF FirmAt, GoneAt
    <3> QED BY <3>1, <3>2
  <2> QED BY <1>3, <2>1, <2>2 DEF FirmAt, GoneAt
<1> SUFFICES ASSUME NEW i \in 1..Len(q) PROVE Halted(q, i) \/ KeptAt(q, d2, i)
  BY DEF Kept
<1>4. CASE i \in 1..Len(x)
  <2>1. Halted(x, i) \/ KeptAt(x, d2, i)
    BY <1>4 DEF Kept
  <2>2. q[i] = x[i] /\ \A j \in 1..(i - 1) : q[j] = x[j]
    BY <1>1, <1>4
  <2>3. Halted(x, i) => Halted(q, i)
    BY <2>2 DEF Halted
  <2>4. \A n : WholeAt(x, d2, n, i) => WholeAt(q, d2, n, i)
    BY <2>2, WholeInBoth
  <2>5. \A n : FirmAt(x, d2, n, i) => FirmAt(q, d2, n, i)
    <3>1. i # 1 => i - 1 \in 1..(i - 1)
      OBVIOUS
    <3> QED BY <2>2, <2>4, <3>1 DEF FirmAt, GoneAt
  <2>6. Lit(x, d2, i) => Lit(q, d2, i)
    BY <2>2, <2>4 DEF Lit
  <2>7. KeptAt(x, d2, i) => KeptAt(q, d2, i)
    BY <2>2, <2>4, <2>5, <2>6 DEF KeptAt
  <2> QED BY <2>1, <2>3, <2>7
<1>5. CASE i \notin 1..Len(x)
  <2> DEFINE k == i - Len(x) + 1
  <2>1. k \in 2..Len(p) /\ k \in 1..Len(p) /\ q[i] = p[k] /\ Len(x) + k - 1 = i
    BY <1>1, <1>5
  <2>2. CASE Doomed(x)
    <3>1. PICK j \in 1..Len(x) : x[j][1] \in Doom
      BY <2>2 DEF Doomed
    <3>2. j \in 1..(i - 1) /\ q[j] = x[j]
      BY <1>1, <1>5
    <3> QED BY <3>1, <3>2 DEF Halted
  <2>3. CASE Halted(p, k)
    <3>1. PICK j \in 1..(k - 1) : p[j][1] \in Doom
      BY <2>3 DEF Halted
    <3>2. j \in 2..Len(p)
      BY <2>1, <3>1
    <3>3. Len(x) + j - 1 \in 1..(i - 1) /\ q[Len(x) + j - 1] = p[j]
      BY <1>1, <2>1, <3>1, <3>2
    <3> QED BY <3>1, <3>3 DEF Halted
  <2>4. CASE ~Doomed(x) /\ KeptAt(p, d, k)
    <3>1. \A n \in Names : WholeAt(p, d, n, k) => WholeAt(q, d2, n, i)
      BY <1>2, <2>1, <2>4
    <3>2. \A n \in Names : FirmAt(p, d, n, k) => FirmAt(q, d2, n, i)
      BY <1>3, <2>1, <2>4
    <3>3. Lit(p, d, k) => Lit(q, d2, i)
      BY <2>1, <3>1 DEF Lit
    <3>4. p[k][2] \in Names /\ (p[k][1] = "last_copy" => Twin(p[k][2]) \in Names) /\ "active" \in Names
      BY <2>1 DEF Names
    <3> HIDE DEF k
    <3> QED BY <2>1, <2>4, <3>1, <3>2, <3>3, <3>4 DEF KeptAt
  <2> QED BY <2>1, <2>2, <2>3, <2>4 DEF Kept
<1> QED BY <1>4, <1>5
-----------------------------------------------------------------------------
\* Names and their twins.
LEMMA Twins ==
  /\ Cleaned \subseteq Names /\ Aliases \subseteq Names /\ "active" \in Names /\ "pending" \in Names
  /\ \A n \in Cleaned : Twin(n) \in Cleaned /\ Twin(n) # n /\ Twin(Twin(n)) = n /\ n # "pending" /\ n # "active"
  /\ \A n \in Aliases : Twin(n) \in Aliases /\ Twin(n) # n /\ n # "pending" /\ n # "active"
  BY DEF Names, Cleaned, Aliases, Twin

\* A transaction keeps an image when it never takes the one it is about.
LEMMA KeeperKeeps ==
  ASSUME NEW x, NEW d, NEW t \in Names, Len(x) \in Nat, Whole(d, t),
         \A j \in 1..Len(x) : Takes(x[j], t) => x[j][1] = "close" /\ \A i \in (j + 1)..Len(x) : x[i][1] = "ok",
         \A i \in 1..Len(x) :
           /\ x[i][3] \notin {"put_back", "last_copy"} /\ x[i][1] \notin {"put_back", "last_copy", "tombstone"}
           /\ x[i][1] = "ok" => x[i][3] = "err"
           /\ x[i][1] \in {"backup", "publish", "close_pending"} => x[i][2] = t /\ t \in Cleaned
  PROVE  Kept(x, d)
<1> SUFFICES ASSUME NEW i \in 1..Len(x) PROVE Halted(x, i) \/ KeptAt(x, d, i)
  BY DEF Kept
<1>1. CASE x[i][1] = "ok"
  BY <1>1 DEF KeptAt, Needs, Ends
<1>2. CASE x[i][1] # "ok"
  <2>1. ASSUME NEW j \in 1..(i - 1) PROVE ~Takes(x[j], t)
    <3>1. j \in 1..Len(x) /\ i \in (j + 1)..Len(x)
      OBVIOUS
    <3> QED BY <1>2, <3>1
  <2>2. WholeAt(x, d, t, i)
    BY <2>1 DEF WholeAt
  <2>3. Takes(x[i], t) => x[i][1] \in Expands
    BY DEF Expands
  <2>4. Lit(x, d, i)
    BY <2>2, <2>3 DEF Lit
  <2> QED BY <2>2, <2>4 DEF KeptAt
<1> QED BY <1>1, <1>2

-----------------------------------------------------------------------------
\* What the operations x may do in the place of operation op, in directory d.
PartFits(x, op, d, t, ph) ==
  /\ x \in Seq(Ops)
  /\ \A i \in 1..Len(x) : ShapeAt(x, t, ph, i) /\ x[i][1] \notin {"ok", "close"}
  /\ \A i \in 1..Len(x) : ~Drops(x[i]) /\ x[i][3] # "discard" /\ x[i][1] # "spawn"
PartClears(x, op, d) ==
  /\ \A n \in Names : Clears(op, n) /\ Present(d, n) => \E j \in 1..Len(x) : Clears(x[j], n)
  /\ \A i \in 1..Len(x) : \A n \in Names :
       Brings(x[i], n) => Brings(op, n) \/ \E j \in (i + 1)..Len(x) : Clears(x[j], n)
PartKeeps(x, op, d) ==
  /\ Kept(x, d)
  /\ \A n \in Names : (Whole(d, n) /\ ~Takes(op, n)) \/ Makes(op, n) => Doomed(x) \/ WholeAt(x, d, n, Len(x) + 1)

\* CloseEvidence.
LEMMA ClosePart ==
  ASSUME NEW t \in Cleaned, NEW op, op[1] = "close", op[2] = t, NEW ph
  PROVE  LET x == CloseEvidence(t) IN
         /\ PartFits(x, op, dir, t, ph) /\ PartClears(x, op, dir)
         /\ Whole(dir, t) => PartKeeps(x, op, dir)
<1> DEFINE u == Twin(t)
<1>0. u \in Cleaned /\ u # t /\ Twin(u) = t /\ t \in Names /\ u \in Names /\ t # "pending" /\ u # "pending" /\ u # "active" /\ t # "active"
  BY Twins
<1>1. PICK x : x = CloseEvidence(t)
  OBVIOUS
<1>2. /\ Len(x) = 5 /\ x[1] = <<"backup", t, "err">> /\ x[2] = <<"unlink", t, "restore">>
      /\ x[3] = <<"dsync", t, "restore">> /\ x[4] = <<"unlink", u, "last_copy">> /\ x[5] = <<"dsync", u, "last_copy">>
  BY <1>1 DEF CloseEvidence, Unlink, Op
<1>3. x \in Seq(Ops)
  BY <1>0, <1>1 DEF CloseEvidence, Unlink, Op, Ops, OpNames, Works, PassWorks, Expands, Elses,
     PassElses
<1> HIDE DEF u
<1>4. PartFits(x, op, dir, t, ph)
  <2>1. \A i \in 1..Len(x) : ShapeAt(x, t, ph, i)
    <3> SUFFICES ASSUME NEW i \in 1..Len(x) PROVE ShapeAt(x, t, ph, i)
      OBVIOUS
    <3> QED BY <1>0, <1>2 DEF ShapeAt, OfCleaned, ToTarget, OwnerWorks, PassElses, u
  <2>2. \A i \in 1..Len(x) : x[i][1] \notin {"ok", "close"} /\ x[i][3] # "discard" /\ x[i][1] # "spawn"
    BY <1>2
  <2>3. \A i \in 1..Len(x) : ~Drops(x[i])
    BY <1>0, <1>2 DEF Drops
  <2> QED BY <1>3, <2>1, <2>2, <2>3 DEF PartFits
<1>5. PartClears(x, op, dir)
  <2>1. \A n \in Names : Clears(op, n) => n = t \/ n = u
    BY <1>0 DEF Clears, Cleaned, Twin, u
  <2>2. Clears(x[2], t) /\ Clears(x[4], u)
    BY <1>2 DEF Clears
  <2>3. \A i \in 1..Len(x) : \A n \in Names : Brings(x[i], n) => i = 1 /\ n = u
    BY <1>2 DEF Brings, u
  <2>4. \A i \in 1..Len(x) : \A n \in Names : Brings(x[i], n) => \E j \in (i + 1)..Len(x) : Clears(x[j], n)
    BY <1>2, <2>2, <2>3
  <2>5. \A n \in Names : Clears(op, n) => \E j \in 1..Len(x) : Clears(x[j], n)
    BY <1>2, <2>1, <2>2
  <2> QED BY <2>4, <2>5 DEF PartClears
<1>6. ASSUME Whole(dir, t) PROVE PartKeeps(x, op, dir)
  <2>1. Makes(x[1], u) /\ ~Takes(x[2], u) /\ ~Takes(x[3], u) /\ Takes(x[4], u)
    BY <1>0, <1>2 DEF Makes, Takes, u
  <2>2. WholeAt(x, dir, t, 1)
    BY <1>6 DEF WholeAt
  <2>3. WholeAt(x, dir, u, 2) /\ WholeAt(x, dir, u, 3) /\ WholeAt(x, dir, u, 4)
    BY <2>1 DEF WholeAt
  <2>4. Lit(x, dir, 1)
    BY <1>0, <1>2, <2>2 DEF Lit, Expands
  <2>5. Lit(x, dir, 2) /\ Lit(x, dir, 3)
    BY <1>0, <2>1, <2>3 DEF Lit
  <2>6. GoneAt(x, dir, u, 5)
    BY <1>2 DEF GoneAt
  <2>7. KeptAt(x, dir, 1)
    BY <1>2, <2>2, <2>4 DEF KeptAt
  <2>8. KeptAt(x, dir, 2) /\ KeptAt(x, dir, 3)
    BY <1>2, <2>5 DEF KeptAt
  <2>9. KeptAt(x, dir, 4) /\ KeptAt(x, dir, 5)
    BY <1>2, <2>3, <2>6 DEF KeptAt, FirmAt, Needs
  <2>10. Kept(x, dir)
    BY <1>2, <2>7, <2>8, <2>9 DEF Kept
  <2>11. \A n : Takes(op, n) /\ ~Makes(op, n)
    BY DEF Takes, Makes
  <2> QED BY <2>10, <2>11 DEF PartKeeps
<1> QED BY <1>1, <1>4, <1>5, <1>6

\* A part that keeps t and takes none of what its operation leaves alone.
LEMMA PartWithKeeper ==
  ASSUME NEW x, NEW op, NEW t \in Names, Len(x) \in Nat, Whole(dir, t), Kept(x, dir),
         \A n \in Names : Whole(dir, n) /\ ~Takes(op, n) => \A j \in 1..Len(x) : ~Takes(x[j], n),
         \A n \in Names : Makes(op, n) => Doomed(x) \/ WholeAt(x, dir, n, Len(x) + 1)
  PROVE  PartKeeps(x, op, dir)
<1>1. ASSUME NEW n \in Names, Whole(dir, n), ~Takes(op, n) PROVE WholeAt(x, dir, n, Len(x) + 1)
  BY <1>1 DEF WholeAt
<1> QED BY <1>1 DEF PartKeeps

\* PublishBackup.
LEMMA PublishPart ==
  ASSUME NEW t \in Cleaned, NEW op, op[1] = "publish", op[2] = t, NEW ph, NEW r
  PROVE  LET x == PublishBackup(t) IN
         /\ PartFits(x, op, dir, r, ph) /\ (Doomed(x) \/ PartClears(x, op, dir))
         /\ Whole(dir, t) => PartKeeps(x, op, dir)
<1> DEFINE u == Twin(t)
<1>0. u \in Cleaned /\ u # t /\ t \in Names /\ u \in Names /\ u # "pending" /\ u # "active" /\ "active" \in Names
  BY Twins
<1>a. PICK x : x = PublishBackup(t)
  OBVIOUS
<1>b. \A n : ~Clears(op, n) /\ (Brings(op, n) <=> n = u) /\ (Makes(op, n) <=> n = u) /\ ~Takes(op, n)
  BY DEF Clears, Brings, Makes, Takes, u
<1>1. CASE Present(dir, u) /\ Whole(dir, u)
  <2>1. x = Sync("err")
    BY <1>1, <1>a DEF PublishBackup, ResumeBackup, u
  <2>2. Len(x) = 1 /\ x[1] = <<"dsync", "active", "err">>
    BY <2>1 DEF Sync, Op
  <2>3. x \in Seq(Ops)
    BY <1>0, <2>1 DEF Sync, Op, Ops, OpNames, Works, PassWorks, Elses, PassElses
  <2> HIDE DEF u
  <2>4. PartFits(x, op, dir, r, ph)
    BY <2>2, <2>3 DEF PartFits, ShapeAt, OfCleaned, ToTarget, OwnerWorks, PassElses, Drops
  <2>5. PartClears(x, op, dir)
    BY <1>b, <2>2 DEF PartClears, Brings
  <2>6. \A n : ~Takes(x[1], n)
    BY <2>2 DEF Takes
  <2>7. ASSUME Whole(dir, t) PROVE PartKeeps(x, op, dir)
    <3>1. Kept(x, dir)
      BY <1>0, <2>2, <2>6, <2>7, KeeperKeeps
    <3>2. WholeAt(x, dir, u, 2)
      BY <1>1, <2>6 DEF WholeAt
    <3>3. \A n \in Names : Whole(dir, n) /\ ~Takes(op, n) => \A j \in 1..Len(x) : ~Takes(x[j], n)
      BY <2>2, <2>6
    <3>4. \A n \in Names : Makes(op, n) => Doomed(x) \/ WholeAt(x, dir, n, Len(x) + 1)
      BY <1>b, <2>2, <3>2
    <3>5. Len(x) \in Nat
      BY <2>2
    <3> QED BY <1>0, <2>7, <3>1, <3>3, <3>4, <3>5, PartWithKeeper
  <2> QED BY <1>a, <2>4, <2>5, <2>7
<1>2. CASE Present(dir, u) /\ ~Whole(dir, u)
  <2>1. x = <<Op("fail", u, "err")>>
    BY <1>2, <1>a DEF PublishBackup, ResumeBackup, u
  <2>2. Len(x) = 1 /\ x[1] = <<"fail", u, "err">>
    BY <2>1 DEF Op
  <2>3. x \in Seq(Ops)
    BY <1>0, <2>1 DEF Op, Ops, OpNames, Ends, Elses, PassElses
  <2> HIDE DEF u
  <2>4. PartFits(x, op, dir, r, ph)
    BY <2>2, <2>3 DEF PartFits, ShapeAt, OfCleaned, ToTarget, OwnerWorks, PassElses, Drops
  <2>5. Doomed(x)
    BY <2>2 DEF Doomed, Doom, Ends
  <2>6. \A n : ~Takes(x[1], n)
    BY <2>2 DEF Takes
  <2>7. ASSUME Whole(dir, t) PROVE PartKeeps(x, op, dir)
    <3>1. Kept(x, dir)
      BY <1>0, <2>2, <2>6, <2>7, KeeperKeeps
    <3> QED BY <2>5, <3>1 DEF PartKeeps
  <2> QED BY <1>a, <2>4, <2>5, <2>7
<1>3. CASE ~Present(dir, u)
  <2>1. x = WriteNew(u, "err") \o Sync("err")
    BY <1>3, <1>a DEF PublishBackup, NewBackup, u
  <2>2. /\ Len(x) = 4 /\ x[1] = <<"create", u, "err">> /\ x[2] = <<"write", u, "err">>
        /\ x[3] = <<"fsync", u, "err">> /\ x[4] = <<"dsync", "active", "err">>
    BY <2>1 DEF WriteNew, Sync, Op
  <2>3. x \in Seq(Ops)
    BY <1>0, <2>1 DEF WriteNew, Sync, Op, Ops, OpNames, Works, PassWorks, Elses, PassElses
  <2> HIDE DEF u
  <2>4. PartFits(x, op, dir, r, ph)
    BY <2>2, <2>3 DEF PartFits, ShapeAt, OfCleaned, ToTarget, OwnerWorks, PassElses, Drops
  <2>5. PartClears(x, op, dir)
    BY <1>b, <2>2 DEF PartClears, Brings
  <2>6. \A n : n # u => \A j \in 1..Len(x) : ~Takes(x[j], n)
    BY <2>2 DEF Takes
  <2>7. ASSUME Whole(dir, t) PROVE PartKeeps(x, op, dir)
    <3>1. Kept(x, dir)
      BY <1>0, <2>2, <2>6, <2>7, KeeperKeeps
    <3>2. WholeAt(x, dir, u, 5)
      <4>1. Makes(x[3], u) /\ ~Takes(x[4], u)
        BY <2>2 DEF Makes, Takes
      <4> QED BY <4>1 DEF WholeAt
    <3>3. ~Whole(dir, u)
      BY <1>3 DEF Present, Whole
    <3>4. \A n \in Names : Whole(dir, n) /\ ~Takes(op, n) => \A j \in 1..Len(x) : ~Takes(x[j], n)
      BY <2>6, <3>3
    <3>5. \A n \in Names : Makes(op, n) => Doomed(x) \/ WholeAt(x, dir, n, Len(x) + 1)
      BY <1>b, <2>2, <3>2
    <3>6. Len(x) \in Nat
      BY <2>2
    <3> QED BY <1>0, <2>7, <3>1, <3>4, <3>5, <3>6, PartWithKeeper
  <2> QED BY <1>a, <2>4, <2>5, <2>7
<1> QED BY <1>1, <1>2, <1>3

\* ClosePending.
LEMMA ClosePendingPart ==
  ASSUME NEW t \in Cleaned, NEW op, op[1] = "close_pending", NEW ph, NEW r
  PROVE  LET x == ClosePending IN
         /\ PartFits(x, op, dir, r, ph) /\ (Doomed(x) \/ PartClears(x, op, dir))
         /\ Whole(dir, t) => PartKeeps(x, op, dir)
<1>0. t \in Names /\ t # "pending" /\ "pending" \in Names /\ "active" # "pending"
  BY Twins
<1>a. PICK x : x = ClosePending
  OBVIOUS
<1>b. \A n : (Clears(op, n) <=> n = "pending") /\ ~Brings(op, n) /\ ~Makes(op, n) /\ (Takes(op, n) <=> n = "pending")
  BY DEF Clears, Brings, Makes, Takes
<1>1. CASE ~Present(dir, "pending")
  <2>1. x = <<>> /\ Len(x) = 0 /\ x \in Seq(Ops)
    BY <1>1, <1>a DEF ClosePending
  <2>2. PartFits(x, op, dir, r, ph) /\ PartClears(x, op, dir)
    BY <1>1, <1>b, <2>1 DEF PartFits, PartClears
  <2>3. Kept(x, dir)
    BY <2>1 DEF Kept
  <2>4. Whole(dir, t) => PartKeeps(x, op, dir)
    BY <1>0, <1>b, <2>1, <2>3, PartWithKeeper
  <2> QED BY <1>a, <2>2, <2>4
<1>2. CASE Present(dir, "pending") /\ Whole(dir, "pending")
  <2>1. x = Unlink("pending", "err")
    BY <1>2, <1>a DEF ClosePending
  <2>2. Len(x) = 2 /\ x[1] = <<"unlink", "pending", "err">> /\ x[2] = <<"dsync", "pending", "err">>
    BY <2>1 DEF Unlink, Op
  <2>3. x \in Seq(Ops)
    BY <1>0, <2>1 DEF Unlink, Op, Ops, OpNames, Works, PassWorks, Elses, PassElses
  <2>4. PartFits(x, op, dir, r, ph)
    BY <2>2, <2>3 DEF PartFits, ShapeAt, OfCleaned, ToTarget, OwnerWorks, PassElses, Drops
  <2>5. Clears(x[1], "pending") /\ \A i \in 1..Len(x) : \A n : ~Brings(x[i], n)
    BY <2>2 DEF Clears, Brings
  <2>6. PartClears(x, op, dir)
    BY <1>b, <2>2, <2>5 DEF PartClears
  <2>7. \A n : n # "pending" => \A j \in 1..Len(x) : ~Takes(x[j], n)
    BY <2>2 DEF Takes
  <2>8. ASSUME Whole(dir, t) PROVE PartKeeps(x, op, dir)
    <3>1. Kept(x, dir)
      BY <1>0, <2>2, <2>7, <2>8, KeeperKeeps
    <3> QED BY <1>0, <1>b, <2>2, <2>7, <2>8, <3>1, PartWithKeeper
  <2> QED BY <1>a, <2>4, <2>6, <2>8
<1>3. CASE Present(dir, "pending") /\ ~Whole(dir, "pending")
  <2>1. x = <<Op("fail", "pending", "err")>>
    BY <1>3, <1>a DEF ClosePending
  <2>2. Len(x) = 1 /\ x[1] = <<"fail", "pending", "err">>
    BY <2>1 DEF Op
  <2>3. x \in Seq(Ops)
    BY <1>0, <2>1 DEF Op, Ops, OpNames, Ends, Elses, PassElses
  <2>4. PartFits(x, op, dir, r, ph)
    BY <2>2, <2>3 DEF PartFits, ShapeAt, OfCleaned, ToTarget, OwnerWorks, PassElses, Drops
  <2>5. Doomed(x)
    BY <2>2 DEF Doomed, Doom, Ends
  <2>6. \A n : ~Takes(x[1], n)
    BY <2>2 DEF Takes
  <2>7. ASSUME Whole(dir, t) PROVE PartKeeps(x, op, dir)
    <3>1. Kept(x, dir)
      BY <1>0, <2>2, <2>6, <2>7, KeeperKeeps
    <3> QED BY <2>5, <3>1 DEF PartKeeps
  <2> QED BY <1>a, <2>4, <2>5, <2>7
<1> QED BY <1>1, <1>2, <1>3

\* PrepareBackup, whose first operations stage the image.
LEMMA BackupPart ==
  ASSUME NEW t \in Cleaned, NEW op, op[1] = "backup", op[2] = t, NEW ph, NEW r
  PROVE  LET x == PrepareBackup(t) IN
         /\ PartFits(x, op, dir, r, ph) /\ (Doomed(x) \/ PartClears(x, op, dir))
         /\ Whole(dir, t) => PartKeeps(x, op, dir)
<1> DEFINE u == Twin(t)
<1>0. u \in Cleaned /\ u # t /\ t \in Names /\ u \in Names /\ u # "pending" /\ t # "pending" /\ "pending" \in Names /\ u # "active" /\ t # "active"
  BY Twins
<1>a. PICK x : x = PrepareBackup(t)
  OBVIOUS
<1>b. \A n : /\ Clears(op, n) <=> n = "pending"
             /\ Brings(op, n) <=> n = u
             /\ Makes(op, n) <=> n = u
             /\ Takes(op, n) <=> n = "pending"
  BY DEF Clears, Brings, Makes, Takes, u

\* Whatever is staged, the rest is the same.
<1>c. ASSUME NEW k \in Nat, Len(x) = k + 2, x[k + 1] = <<"publish", t, "err">>, x[k + 2] = <<"close_pending", t, "err">>,
             x \in Seq(Ops),
             \A i \in 1..k : /\ x[i][1] \in {"create", "write", "fsync", "fail"}
                             /\ x[i][2] = "pending" /\ x[i][3] = "err"
      PROVE  /\ PartFits(x, op, dir, r, ph) /\ PartClears(x, op, dir)
             /\ Whole(dir, t) => PartKeeps(x, op, dir)
  <2> HIDE DEF u
  <2>0. \A i \in 1..Len(x) : i \in 1..k \/ i = k + 1 \/ i = k + 2
    BY <1>c
  <2>1. PartFits(x, op, dir, r, ph)
    <3>1. ASSUME NEW i \in 1..Len(x) PROVE ShapeAt(x, r, ph, i) /\ x[i][1] \notin {"ok", "close"}
      <4>1. /\ x[i][1] \in {"create", "write", "fsync", "fail", "publish", "close_pending"} /\ x[i][3] = "err"
            /\ x[i][1] = "publish" => x[i][2] \in Cleaned
        BY <1>c, <2>0
      <4> QED BY <4>1 DEF ShapeAt, OfCleaned, ToTarget, OwnerWorks, PassElses
    <3>2. ASSUME NEW i \in 1..Len(x) PROVE ~Drops(x[i]) /\ x[i][3] # "discard" /\ x[i][1] # "spawn"
      BY <1>c, <2>0 DEF Drops
    <3> QED BY <1>c, <3>1, <3>2 DEF PartFits
  <2>2. k + 2 \in 1..Len(x) /\ Clears(x[k + 2], "pending") /\ \A i \in 1..k : k + 2 \in (i + 1)..Len(x)
    BY <1>c DEF Clears
  <2>3. \A i \in 1..Len(x) : \A n : Brings(x[i], n) => n = u \/ (n = "pending" /\ i \in 1..k)
    BY <1>c, <2>0 DEF Brings, u
  <2>4. PartClears(x, op, dir)
    BY <1>b, <2>2, <2>3 DEF PartClears
  <2>5. \A n : n # "pending" => \A j \in 1..Len(x) : ~Takes(x[j], n)
    <3>1. ASSUME NEW j \in 1..Len(x)
          PROVE  \/ x[j][1] \in {"create", "write", "fsync", "fail"} /\ x[j][2] = "pending"
                 \/ x[j][1] \in {"publish", "close_pending"}
      BY <1>c, <2>0
    <3> QED BY <3>1 DEF Takes
  <2>6. ASSUME Whole(dir, t) PROVE PartKeeps(x, op, dir)
    <3>1. Kept(x, dir)
      <4>1. \A i \in 1..Len(x) :
              /\ x[i][3] \notin {"put_back", "last_copy"} /\ x[i][1] \notin {"put_back", "last_copy", "tombstone"}
              /\ x[i][1] = "ok" => x[i][3] = "err"
              /\ x[i][1] \in {"backup", "publish", "close_pending"} => x[i][2] = t /\ t \in Cleaned
        BY <1>c, <2>0
      <4>2. Len(x) \in Nat /\ \A j \in 1..Len(x) : ~Takes(x[j], t)
        BY <1>0, <1>c, <2>5
      <4> QED BY <1>0, <2>6, <4>1, <4>2, KeeperKeeps
    <3>2. WholeAt(x, dir, u, Len(x) + 1)
      <4>1. Makes(x[k + 1], u)
        BY <1>c DEF Makes, u
      <4>2. \A j \in (k + 1 + 1)..(Len(x) + 1 - 1) : ~Takes(x[j], u)
        BY <1>0, <1>c, <2>5
      <4>3. k + 1 \in 1..(Len(x) + 1 - 1)
        BY <1>c
      <4> QED BY <4>1, <4>2, <4>3 DEF WholeAt
    <3>3. \A n \in Names : Whole(dir, n) /\ ~Takes(op, n) => \A j \in 1..Len(x) : ~Takes(x[j], n)
      BY <1>b, <2>5
    <3>4. \A n \in Names : Makes(op, n) => Doomed(x) \/ WholeAt(x, dir, n, Len(x) + 1)
      BY <1>b, <3>2
    <3>5. Len(x) \in Nat
      BY <1>c
    <3> QED BY <1>0, <2>6, <3>1, <3>3, <3>4, <3>5, PartWithKeeper
  <2> QED BY <2>1, <2>4, <2>6
<1> USE DEF Op, Ops, OpNames, Works, PassWorks, Expands, Ends, Elses, PassElses, FinishBackup, WriteNew
<1>1. CASE Present(dir, u)
  <2>1. x = <<>> \o FinishBackup(t)
    BY <1>1, <1>a DEF PrepareBackup, u
  <2>2. /\ Len(x) = 0 + 2 /\ x[0 + 1] = <<"publish", t, "err">> /\ x[0 + 2] = <<"close_pending", t, "err">>
        /\ x \in Seq(Ops)
    BY <1>0, <2>1
  <2> QED BY <1>a, <1>c, <2>2
<1>2. CASE ~Present(dir, u) /\ ~Present(dir, "pending")
  <2>1. x = WriteNew("pending", "err") \o FinishBackup(t)
    BY <1>2, <1>a DEF PrepareBackup, StageBackup, u
  <2>2. /\ Len(x) = 3 + 2 /\ x[3 + 1] = <<"publish", t, "err">> /\ x[3 + 2] = <<"close_pending", t, "err">>
        /\ x[1] = <<"create", "pending", "err">> /\ x[2] = <<"write", "pending", "err">> /\ x[3] = <<"fsync", "pending", "err">>
        /\ x \in Seq(Ops)
    BY <1>0, <2>1
  <2>3. \A i \in 1..3 : x[i][1] \in {"create", "write", "fsync", "fail"} /\ x[i][2] = "pending" /\ x[i][3] = "err"
    BY <2>2
  <2> QED BY <1>a, <1>c, <2>2, <2>3
<1>3. ASSUME NEW o \in {"fsync", "fail"}, x = <<Op(o, "pending", "err")>> \o FinishBackup(t)
      PROVE  /\ PartFits(x, op, dir, r, ph) /\ PartClears(x, op, dir)
             /\ Whole(dir, t) => PartKeeps(x, op, dir)
  <2>1. /\ Len(x) = 1 + 2 /\ x[1 + 1] = <<"publish", t, "err">> /\ x[1 + 2] = <<"close_pending", t, "err">>
        /\ x[1] = <<o, "pending", "err">> /\ x \in Seq(Ops)
    BY <1>0, <1>3
  <2>2. \A i \in 1..1 : x[i][1] \in {"create", "write", "fsync", "fail"} /\ x[i][2] = "pending" /\ x[i][3] = "err"
    BY <2>1
  <2> QED BY <1>c, <2>1, <2>2
<1>4. CASE ~Present(dir, u) /\ Present(dir, "pending")
  <2>1. \/ x = <<Op("fsync", "pending", "err")>> \o FinishBackup(t)
        \/ x = <<Op("fail", "pending", "err")>> \o FinishBackup(t)
    BY <1>4, <1>a DEF PrepareBackup, StageBackup, u
  <2> QED BY <1>a, <1>3, <2>1
<1> QED BY <1>1, <1>2, <1>4
-----------------------------------------------------------------------------
\* Plans that take the place of a plan, in a pass that has failed.
FreshPlan(p, t, ph) ==
  /\ p \in Seq(Ops) /\ Shape(p, t, ph)
  /\ \A i \in 1..Len(p) : ~Drops(p[i]) /\ p[i][3] # "discard" /\ p[i][1] # "spawn"
FailsWell(p, t, ph) == FreshPlan(p, t, ph) /\ Doomed(p) /\ Kept(p, dir)

\* A plan keeps an image when nothing depends on one before it has synced its own.
LEMMA MakerKeeps ==
  ASSUME NEW x, NEW d, NEW m \in Names, Len(x) \in Nat, NEW k \in 1..Len(x), x[k][1] = "fsync", x[k][2] = m,
         \A j \in (k + 1)..Len(x) : ~Takes(x[j], m),
         \A j \in 1..k : ~Needs(x[j]),
         \A i \in 1..Len(x) :
           /\ x[i][3] \notin {"put_back", "last_copy"}
           /\ x[i][1] \notin {"put_back", "last_copy", "tombstone", "backup", "publish", "close_pending"}
  PROVE  Kept(x, d)
<1> SUFFICES ASSUME NEW i \in 1..Len(x), Needs(x[i]) PROVE Lit(x, d, i)
  BY DEF Kept, KeptAt
<1>1. i \notin 1..k
  OBVIOUS
<1>2. k \in 1..(i - 1) /\ i \in (k + 1)..Len(x) /\ \A j \in (k + 1)..(i - 1) : j \in (k + 1)..Len(x)
  BY <1>1
<1>3. Makes(x[k], m)
  BY DEF Makes
<1>4. WholeAt(x, d, m, i) /\ ~Takes(x[i], m)
  BY <1>2, <1>3 DEF WholeAt
<1> QED BY <1>4 DEF Lit

\* A plan of one operation.
LEMMA SinglePlan ==
  ASSUME NEW p, NEW o \in OpNames, NEW n \in Names, NEW e \in PassElses, p = <<Op(o, n, e)>>
  PROVE  p \in Seq(Ops) /\ Len(p) = 1 /\ p[1] = <<o, n, e>> /\ \A i \in 1..Len(p) : i = 1
  BY DEF Op, Ops, Elses

\* Restore.
LEMMA RestorePlan ==
  ASSUME NEW t \in Cleaned, NEW ph
  PROVE  FailsWell(Restore(t), t, ph)
<1>0. t \in Names /\ "active" \in Names /\ t # "active"
  BY Twins
<1>a. PICK x : x = Restore(t)
  OBVIOUS
<1>1. CASE Present(dir, t) /\ ~Whole(dir, t)
  <2>1. x = <<Op("restore_twin", t, "abort")>>
    BY <1>1, <1>a DEF Restore
  <2>2. x \in Seq(Ops) /\ Len(x) = 1 /\ x[1] = <<"restore_twin", t, "abort">> /\ \A i \in 1..Len(x) : i = 1
    BY <1>0, <2>1, SinglePlan DEF OpNames, Expands, PassElses
  <2>3. FreshPlan(x, t, ph)
    BY <1>0, <2>2 DEF FreshPlan, Shape, ShapeAt, OfCleaned, ToTarget, OwnerWorks, PassElses, Drops
  <2>4. Doomed(x)
    BY <2>2 DEF Doomed, Doom
  <2>5. Kept(x, dir)
    BY <2>2 DEF Kept, KeptAt, Needs
  <2> QED BY <1>a, <2>3, <2>4, <2>5 DEF FailsWell
<1>2. CASE Present(dir, t) /\ Whole(dir, t)
  <2>1. x = (<<Op("fsync", t, "restore_twin")>> \o Sync("restore_twin")) \o Sync("abort") \o <<Op("fail", t, "err")>>
    BY <1>2, <1>a DEF Restore, RestoreInto, FinalizeRestore
  <2>2. /\ Len(x) = 4 /\ x[1] = <<"fsync", t, "restore_twin">> /\ x[2] = <<"dsync", "active", "restore_twin">>
        /\ x[3] = <<"dsync", "active", "abort">> /\ x[4] = <<"fail", t, "err">>
    BY <2>1 DEF Sync, Op
  <2>3. x \in Seq(Ops)
    BY <1>0, <2>1 DEF Sync, Op, Ops, OpNames, Works, PassWorks, Ends, Elses, PassElses
  <2>4. FreshPlan(x, t, ph)
    BY <1>0, <2>2, <2>3 DEF FreshPlan, Shape, ShapeAt, OfCleaned, ToTarget, OwnerWorks,
       PassElses, Drops
  <2>5. Doomed(x)
    BY <2>2 DEF Doomed, Doom, Ends
  <2>6. \A j \in 2..Len(x) : ~Takes(x[j], t)
    BY <2>2 DEF Takes
  <2>7. ~Needs(x[1])
    BY <2>2 DEF Needs
  <2>8. Kept(x, dir)
    BY <1>0, <2>2, <2>6, <2>7, MakerKeeps
  <2> QED BY <1>a, <2>4, <2>5, <2>8 DEF FailsWell
<1>3. CASE ~Present(dir, t)
  <2>1. x = (WriteNew(t, "restore_twin") \o Sync("restore_twin")) \o Sync("abort") \o <<Op("fail", t, "err")>>
    BY <1>3, <1>a DEF Restore, RestoreInto, FinalizeRestore
  <2>2. /\ Len(x) = 6 /\ x[1] = <<"create", t, "restore_twin">> /\ x[2] = <<"write", t, "restore_twin">>
        /\ x[3] = <<"fsync", t, "restore_twin">> /\ x[4] = <<"dsync", "active", "restore_twin">>
        /\ x[5] = <<"dsync", "active", "abort">> /\ x[6] = <<"fail", t, "err">>
    BY <2>1 DEF WriteNew, Sync, Op
  <2>3. x \in Seq(Ops)
    BY <1>0, <2>1 DEF WriteNew, Sync, Op, Ops, OpNames, Works, PassWorks, Ends, Elses, PassElses
  <2>4. FreshPlan(x, t, ph)
    BY <1>0, <2>2, <2>3 DEF FreshPlan, Shape, ShapeAt, OfCleaned, ToTarget, OwnerWorks,
       PassElses, Drops
  <2>5. Doomed(x)
    BY <2>2 DEF Doomed, Doom, Ends
  <2>6. PICK k \in Nat : k = 3
    OBVIOUS
  <2>7. Len(x) \in Nat /\ k \in 1..Len(x) /\ x[k][1] = "fsync" /\ x[k][2] = t
    BY <2>2, <2>6
  <2>8. \A j \in (k + 1)..Len(x) : ~Takes(x[j], t)
    BY <2>2, <2>6 DEF Takes
  <2>9. \A j \in 1..k : ~Needs(x[j])
    BY <2>2, <2>6 DEF Needs
  <2>10. \A i \in 1..Len(x) : /\ x[i][3] \in {"restore_twin", "abort", "err"}
                              /\ x[i][1] \in {"create", "write", "fsync", "dsync", "fail"}
    BY <2>2
  <2>11. Kept(x, dir)
    BY <1>0, <2>7, <2>8, <2>9, <2>10, MakerKeeps
  <2> QED BY <1>a, <2>4, <2>5, <2>11 DEF FailsWell
<1> QED BY <1>1, <1>2, <1>3

\* PutBack.
LEMMA PutBackPlan ==
  ASSUME NEW n \in Names, NEW t, NEW ph
  PROVE  /\ FreshPlan(PutBack(n), t, ph) /\ Doomed(PutBack(n))
         /\ Whole(dir, n) \/ ~Present(dir, n) => Kept(PutBack(n), dir)
<1>0. "active" \in Names
  BY Twins
<1>a. PICK x : x = PutBack(n)
  OBVIOUS
<1>1. CASE Present(dir, n)
  <2>1. x = Sync("abort") \o <<Op("fail", n, "err")>>
    BY <1>1, <1>a DEF PutBack
  <2>2. Len(x) = 2 /\ x[1] = <<"dsync", "active", "abort">> /\ x[2] = <<"fail", n, "err">>
    BY <2>1 DEF Sync, Op
  <2>3. x \in Seq(Ops)
    BY <1>0, <2>1 DEF Sync, Op, Ops, OpNames, Works, PassWorks, Ends, Elses, PassElses
  <2>4. FreshPlan(x, t, ph)
    BY <2>2, <2>3 DEF FreshPlan, Shape, ShapeAt, OfCleaned, ToTarget, OwnerWorks, PassElses, Drops
  <2>5. Doomed(x)
    BY <2>2 DEF Doomed, Doom, Ends
  <2>6. \A j \in 1..Len(x) : ~Takes(x[j], n)
    BY <2>2 DEF Takes
  <2>7. ASSUME Whole(dir, n) PROVE Kept(x, dir)
    BY <2>2, <2>6, <2>7, KeeperKeeps
  <2> QED BY <1>1, <1>a, <2>4, <2>5, <2>7
<1>2. CASE ~Present(dir, n)
  <2>1. x = WriteNew(n, "abort") \o Sync("abort") \o <<Op("fail", n, "err")>>
    BY <1>2, <1>a DEF PutBack
  <2>2. /\ Len(x) = 5 /\ x[1] = <<"create", n, "abort">> /\ x[2] = <<"write", n, "abort">>
        /\ x[3] = <<"fsync", n, "abort">> /\ x[4] = <<"dsync", "active", "abort">> /\ x[5] = <<"fail", n, "err">>
    BY <2>1 DEF WriteNew, Sync, Op
  <2>3. x \in Seq(Ops)
    BY <1>0, <2>1 DEF WriteNew, Sync, Op, Ops, OpNames, Works, PassWorks, Ends, Elses, PassElses
  <2>4. FreshPlan(x, t, ph)
    BY <2>2, <2>3 DEF FreshPlan, Shape, ShapeAt, OfCleaned, ToTarget, OwnerWorks, PassElses, Drops
  <2>5. Doomed(x)
    BY <2>2 DEF Doomed, Doom, Ends
  <2>6. PICK k \in Nat : k = 3
    OBVIOUS
  <2>7. Len(x) \in Nat /\ k \in 1..Len(x) /\ x[k][1] = "fsync" /\ x[k][2] = n
    BY <2>2, <2>6
  <2>8. \A j \in (k + 1)..Len(x) : ~Takes(x[j], n)
    BY <2>2, <2>6 DEF Takes
  <2>9. \A j \in 1..k : ~Needs(x[j])
    BY <2>2, <2>6 DEF Needs
  <2>10. \A i \in 1..Len(x) : x[i][3] \in {"abort", "err"} /\ x[i][1] \in {"create", "write", "fsync", "dsync", "fail"}
    BY <2>2
  <2>11. Kept(x, dir)
    BY <2>7, <2>8, <2>9, <2>10, MakerKeeps
  <2> QED BY <1>a, <2>4, <2>5, <2>11
<1> QED BY <1>1, <1>2

\* RestoreTwin.
LEMMA RestoreTwinPlan ==
  ASSUME NEW t \in Cleaned, NEW ph
  PROVE  FailsWell(RestoreTwin(t), t, ph)
<1> DEFINE u == Twin(t)
<1>0. t \in Names /\ u \in Names /\ u # t /\ "active" \in Names /\ t # "active"
  BY Twins
<1>a. PICK x : x = RestoreTwin(t)
  OBVIOUS
<1>1. CASE Present(dir, u) /\ ~Whole(dir, u)
  <2>1. x = <<Op("abort", t, "abort")>>
    BY <1>1, <1>a DEF RestoreTwin, u
  <2>2. x \in Seq(Ops) /\ Len(x) = 1 /\ x[1] = <<"abort", t, "abort">> /\ \A i \in 1..Len(x) : i = 1
    <3>1. "abort" \in OpNames /\ "abort" \in PassElses /\ t \in Names
      BY <1>0 DEF OpNames, Ends, PassElses
    <3> QED BY <2>1, <3>1, SinglePlan
  <2>3. FreshPlan(x, t, ph)
    BY <2>2 DEF FreshPlan, Shape, ShapeAt, OfCleaned, ToTarget, OwnerWorks, PassElses, Drops
  <2>4. Doomed(x)
    BY <2>2 DEF Doomed, Doom, Ends
  <2>5. Kept(x, dir)
    BY <2>2 DEF Kept, KeptAt, Needs
  <2> QED BY <1>a, <2>3, <2>4, <2>5 DEF FailsWell
<1>c. ASSUME x \in Seq(Ops), NEW k \in 1..Len(x), x[k] = <<"fsync", u, "abort">>, Len(x) # k, x[Len(x)] = <<"fail", t, "err">>,
             \A i \in 1..k : x[i][1] \in {"create", "write", "fsync"} /\ x[i][3] = "abort",
             \A i \in (k + 1)..Len(x) : x[i] \in {<<"dsync", "active", "abort">>, <<"unlink", t, "err">>,
                                                  <<"dsync", t, "err">>, <<"fail", t, "err">>}
      PROVE  FailsWell(x, t, ph)
  <2> HIDE DEF u
  <2>0. Len(x) \in Nat /\ Len(x) \in 1..Len(x) /\ \A i \in 1..Len(x) : i \in 1..k \/ i \in (k + 1)..Len(x)
    BY <1>c
  <2>1. ASSUME NEW i \in 1..Len(x)
        PROVE  /\ x[i][1] \in {"create", "write", "fsync", "dsync", "unlink", "fail"} /\ x[i][3] \in {"abort", "err"}
               /\ x[i][1] = "unlink" => x[i][2] = t
    BY <1>c, <2>0
  <2>2. FreshPlan(x, t, ph)
    <3>1. \A i \in 1..Len(x) : ShapeAt(x, t, ph, i)
      BY <2>1 DEF ShapeAt, OfCleaned, ToTarget, OwnerWorks, PassElses
    <3>2. \A i \in 1..Len(x) : ~Drops(x[i]) /\ x[i][3] # "discard" /\ x[i][1] # "spawn"
      BY <1>0, <2>1 DEF Drops
    <3> QED BY <1>c, <3>1, <3>2 DEF FreshPlan, Shape
  <2>3. Doomed(x)
    BY <1>c, <2>0 DEF Doomed, Doom, Ends
  <2>4. \A j \in (k + 1)..Len(x) : ~Takes(x[j], u)
    BY <1>0, <1>c DEF Takes
  <2>5. \A j \in 1..k : ~Needs(x[j])
    BY <1>c DEF Needs
  <2>6. \A i \in 1..Len(x) :
          /\ x[i][3] \notin {"put_back", "last_copy"}
          /\ x[i][1] \notin {"put_back", "last_copy", "tombstone", "backup", "publish", "close_pending"}
    BY <2>1
  <2>7. Kept(x, dir)
    BY <1>0, <1>c, <2>0, <2>4, <2>5, <2>6, MakerKeeps
  <2> QED BY <2>2, <2>3, <2>7 DEF FailsWell
<1> USE DEF Sync, Op, Ops, OpNames, Works, PassWorks, Ends, Elses, PassElses, WriteNew, Unlink
<1>2. CASE Present(dir, u) /\ Whole(dir, u)
  <2>1. x = (<<Op("fsync", u, "abort")>> \o Sync("abort")) \o Sync("abort") \o RemoveCandidate(t) \o <<Op("fail", t, "err")>>
    BY <1>2, <1>a DEF RestoreTwin, RestoreInto, FinalizeRestore, u
  <2>2. CASE Present(dir, t)
    <3>1. x = (<<Op("fsync", u, "abort")>> \o Sync("abort")) \o Sync("abort") \o Unlink(t, "err") \o <<Op("fail", t, "err")>>
      BY <2>1, <2>2 DEF RemoveCandidate
    <3>2. /\ Len(x) = 6 /\ x[1] = <<"fsync", u, "abort">> /\ x[2] = <<"dsync", "active", "abort">>
          /\ x[3] = <<"dsync", "active", "abort">> /\ x[4] = <<"unlink", t, "err">> /\ x[5] = <<"dsync", t, "err">>
          /\ x[6] = <<"fail", t, "err">> /\ x \in Seq(Ops)
      BY <1>0, <3>1
    <3> QED BY <1>a, <1>c, <3>2
  <2>3. CASE ~Present(dir, t)
    <3>1. x = (<<Op("fsync", u, "abort")>> \o Sync("abort")) \o Sync("abort") \o <<>> \o <<Op("fail", t, "err")>>
      BY <2>1, <2>3 DEF RemoveCandidate
    <3>2. /\ Len(x) = 4 /\ x[1] = <<"fsync", u, "abort">> /\ x[2] = <<"dsync", "active", "abort">>
          /\ x[3] = <<"dsync", "active", "abort">> /\ x[4] = <<"fail", t, "err">> /\ x \in Seq(Ops)
      BY <1>0, <3>1
    <3> QED BY <1>a, <1>c, <3>2
  <2> QED BY <2>2, <2>3
<1>3. CASE ~Present(dir, u)
  <2>1. x = (WriteNew(u, "abort") \o Sync("abort")) \o Sync("abort") \o RemoveCandidate(t) \o <<Op("fail", t, "err")>>
    BY <1>3, <1>a DEF RestoreTwin, RestoreInto, FinalizeRestore, u
  <2>2. CASE Present(dir, t)
    <3>1. x = (WriteNew(u, "abort") \o Sync("abort")) \o Sync("abort") \o Unlink(t, "err") \o <<Op("fail", t, "err")>>
      BY <2>1, <2>2 DEF RemoveCandidate
    <3>2. /\ Len(x) = 8 /\ x[1] = <<"create", u, "abort">> /\ x[2] = <<"write", u, "abort">>
          /\ x[3] = <<"fsync", u, "abort">> /\ x[4] = <<"dsync", "active", "abort">>
          /\ x[5] = <<"dsync", "active", "abort">> /\ x[6] = <<"unlink", t, "err">> /\ x[7] = <<"dsync", t, "err">>
          /\ x[8] = <<"fail", t, "err">>
      BY <1>0, <3>1
    <3>7. x \in Seq(Ops)
      BY <1>0, <3>1
    <3> HIDE DEF Sync, Op, Ops, OpNames, Works, PassWorks, Ends, Elses, PassElses, WriteNew, Unlink, u
    <3>3. PICK k \in Nat : k = 3
      OBVIOUS
    <3>4. k \in 1..Len(x) /\ x[k] = <<"fsync", u, "abort">> /\ Len(x) # k /\ x[Len(x)] = <<"fail", t, "err">>
      BY <3>2, <3>3
    <3>6. \A i \in 1..k : x[i][1] \in {"create", "write", "fsync"} /\ x[i][3] = "abort"
      <4>1. \A i \in 1..k : i = 1 \/ i = 2 \/ i = 3
        BY <3>3
      <4> QED BY <3>2, <4>1
    <3>5. \A i \in (k + 1)..Len(x) : x[i] \in {<<"dsync", "active", "abort">>, <<"unlink", t, "err">>,
                                               <<"dsync", t, "err">>, <<"fail", t, "err">>}
      BY <3>2, <3>3
    <3> QED BY <1>a, <1>c, <3>4, <3>5, <3>6, <3>7
  <2>3. CASE ~Present(dir, t)
    <3>1. x = (WriteNew(u, "abort") \o Sync("abort")) \o Sync("abort") \o <<>> \o <<Op("fail", t, "err")>>
      BY <2>1, <2>3 DEF RemoveCandidate
    <3>2. /\ Len(x) = 6 /\ x[1] = <<"create", u, "abort">> /\ x[2] = <<"write", u, "abort">>
          /\ x[3] = <<"fsync", u, "abort">> /\ x[4] = <<"dsync", "active", "abort">>
          /\ x[5] = <<"dsync", "active", "abort">> /\ x[6] = <<"fail", t, "err">>
      BY <1>0, <3>1
    <3>7. x \in Seq(Ops)
      BY <1>0, <3>1
    <3> HIDE DEF Sync, Op, Ops, OpNames, Works, PassWorks, Ends, Elses, PassElses, WriteNew, Unlink, u
    <3>3. PICK k \in Nat : k = 3
      OBVIOUS
    <3>4. k \in 1..Len(x) /\ x[k] = <<"fsync", u, "abort">> /\ Len(x) # k /\ x[Len(x)] = <<"fail", t, "err">>
      BY <3>2, <3>3
    <3>6. \A i \in 1..k : x[i][1] \in {"create", "write", "fsync"} /\ x[i][3] = "abort"
      <4>1. \A i \in 1..k : i = 1 \/ i = 2 \/ i = 3
        BY <3>3
      <4> QED BY <3>2, <4>1
    <3>5. \A i \in (k + 1)..Len(x) : x[i] \in {<<"dsync", "active", "abort">>, <<"unlink", t, "err">>,
                                               <<"dsync", t, "err">>, <<"fail", t, "err">>}
      BY <3>2, <3>3
    <3> QED BY <1>a, <1>c, <3>4, <3>5, <3>6, <3>7
  <2> QED BY <2>2, <2>3
<1> QED BY <1>1, <1>2, <1>3

-----------------------------------------------------------------------------
\* A transaction that begins on name n leaves nothing if it clears n, clears what it
\* brings or takes off the list, and takes a tombstone's twin off the list.
LEMMA EmptiesBegins ==
  ASSUME NEW p, NEW n \in Names, todo \subseteq Names, Empties(<<>>, dir, seen, todo),
         \E j \in 1..Len(p) : Clears(p[j], n),
         \A i \in 1..Len(p) : \A m \in Names : Excuses(p[i], m) => \E j \in 1..Len(p) : Clears(p[j], m),
         NothingAdded(p),
         n \in Cleaned => \E i \in 1..Len(p) : Excuses(p[i], Twin(n)),
         \A i \in 1..Len(p) : \A m \in Cleaned : Excuses(p[i], m) => n \in Cleaned /\ m = Twin(n)
  PROVE  Empties(p, dir, seen, todo \ {n})
<1>1. \A i \in 1..Len(<<>>) : FALSE
  OBVIOUS
<1>2. AllCleared(<<>>, dir, todo) /\ TwinsTogether(<<>>, seen, todo)
  BY DEF Empties
<1>3. \A m \in Names : Present(dir, m) => m \in todo
  BY <1>1, <1>2 DEF AllCleared
<1>4. \A m \in Cleaned : m \in todo /\ Whole(seen, Twin(m)) => Twin(m) \in todo
  BY <1>1, <1>2 DEF TwinsTogether
<1>5. AllCleared(p, dir, todo \ {n})
  BY <1>3 DEF AllCleared
<1>6. TwinsTogether(p, seen, todo \ {n})
  <2> SUFFICES ASSUME NEW m \in Cleaned, m \in todo \ {n}, Whole(seen, Twin(m)),
                      Twin(m) \notin todo \ {n} \/ \E i \in 1..Len(p) : Excuses(p[i], Twin(m))
               PROVE  \E i \in 1..Len(p) : Excuses(p[i], m)
    BY DEF TwinsTogether
  <2>0. Twin(m) \in Cleaned /\ Twin(Twin(m)) = m /\ (n \in Cleaned => Twin(Twin(n)) = n)
    BY Twins
  <2>3. ~ \E i \in 1..Len(p) : Excuses(p[i], Twin(m))
    <3> SUFFICES ASSUME NEW i \in 1..Len(p), Excuses(p[i], Twin(m)) PROVE FALSE
      OBVIOUS
    <3>1. n \in Cleaned /\ Twin(m) = Twin(n)
      BY <2>0
    <3> QED BY <2>0, <3>1
  <2>1. Twin(m) = n /\ Twin(m) \in Cleaned /\ Twin(Twin(m)) = m
    BY <1>4, <2>0, <2>3
  <2>2. Twin(n) = m /\ n \in Cleaned
    BY <2>1
  <2> QED BY <2>2
<1> QED BY <1>5, <1>6 DEF Empties

\* A transaction of a pass on name n, before its first operation.
BeginsWell(p, n) ==
  /\ p \in Seq(Ops) /\ Shape(p, n, "pass") /\ Named(p, dir, helperProc)
  /\ Empties(<<>>, dir, seen, todo) => Doomed(p) \/ Empties(p, dir, seen, todo \ {n})
  /\ Kept(p, dir) \/ (p[1][1] = "fail" /\ ~Whole(seen, n))

\* One that refuses at once.
LEMMA RefusingPlan ==
  ASSUME NEW n \in Names, NEW p, p = <<Op("fail", n, "err")>>, Whole(dir, n) \/ ~Whole(seen, n)
  PROVE  BeginsWell(p, n)
<1>1. p \in Seq(Ops) /\ Len(p) = 1 /\ p[1] = <<"fail", n, "err">> /\ \A i \in 1..Len(p) : i = 1
  BY SinglePlan DEF OpNames, Ends, PassElses
<1>2. Shape(p, n, "pass")
  BY <1>1 DEF Shape, ShapeAt, OfCleaned, ToTarget, OwnerWorks, PassElses
<1>3. Named(p, dir, helperProc)
  BY <1>1 DEF Named, NamedAt, Drops
<1>4. Doomed(p)
  BY <1>1 DEF Doomed, Doom, Ends
<1>5. ASSUME Whole(dir, n) PROVE Kept(p, dir)
  <2>1. \A j \in 1..Len(p) : ~Takes(p[j], n)
    BY <1>1 DEF Takes
  <2> QED BY <1>1, <1>5, <2>1, KeeperKeeps
<1> QED BY <1>1, <1>2, <1>3, <1>4, <1>5 DEF BeginsWell

\* The transaction of an entry whose inode is not the scanned one.
LEMMA StalePlan ==
  ASSUME NEW n \in Names, NEW p, p = <<Op("stale", n, "err")>>
  PROVE  BeginsWell(p, n)
<1>1. p \in Seq(Ops) /\ Len(p) = 1 /\ p[1] = <<"stale", n, "err">> /\ \A i \in 1..Len(p) : i = 1
  BY SinglePlan DEF OpNames, Ends, PassElses
<1>2. Shape(p, n, "pass")
  BY <1>1 DEF Shape, ShapeAt, OfCleaned, ToTarget, OwnerWorks, PassElses
<1>3. Named(p, dir, helperProc)
  BY <1>1 DEF Named, NamedAt, Drops
<1>4. Doomed(p)
  BY <1>1 DEF Doomed, Doom, Ends
<1>5. Kept(p, dir)
  BY <1>1 DEF Kept, KeptAt, Needs, Ends
<1> QED BY <1>1, <1>2, <1>3, <1>4, <1>5 DEF BeginsWell

\* ActiveRemoval: the tombstone outlives the marker, the second image the tombstone.
LEMMA ActivePlan ==
  ASSUME Whole(dir, "active"), todo \subseteq Names
  PROVE  BeginsWell(ActiveRemoval, "active")
<1>0. "active" \in Names /\ "cleaned" \in Names /\ "recovery" \in Names /\ "recovery" \in Cleaned /\ "active" \notin Cleaned
  BY DEF Names, Cleaned
<1>1. PICK x : x = ActiveRemoval
  OBVIOUS
<1>2. /\ Len(x) = 10 /\ x[1] = <<"kill", "active", "err">> /\ x[2] = <<"tombstone", "active", "err">>
      /\ x[3] = <<"dsync", "active", "err">> /\ x[4] = <<"create", "recovery", "err">>
      /\ x[5] = <<"write", "recovery", "err">> /\ x[6] = <<"fsync", "recovery", "err">>
      /\ x[7] = <<"dsync", "active", "err">> /\ x[8] = <<"unlink", "cleaned", "err">>
      /\ x[9] = <<"dsync", "cleaned", "err">> /\ x[10] = <<"close", "recovery", "err">>
  BY <1>1 DEF ActiveRemoval, EndHelper, Tombstone, SecondImage, Sync, WriteNew, Unlink, Op
<1>3. x \in Seq(Ops)
  BY <1>0, <1>1 DEF ActiveRemoval, EndHelper, Tombstone, SecondImage, Sync, WriteNew, Unlink, Op,
                    Ops, OpNames, Works, PassWorks, Expands, Elses, PassElses
<1>4. Shape(x, "active", "pass")
  <2> SUFFICES ASSUME NEW i \in 1..Len(x) PROVE ShapeAt(x, "active", "pass", i)
    BY DEF Shape
  <2>1. /\ x[i][1] \in PassWorks \cup {"close"} /\ x[i][3] = "err" /\ (x[i][1] = "close" => i = 10 /\ x[i][2] \in Cleaned)
    BY <1>0, <1>2 DEF PassWorks
  <2> QED BY <1>2, <2>1 DEF ShapeAt, OfCleaned, ToTarget, OwnerWorks, PassElses, PassWorks
<1>5. Named(x, dir, helperProc)
  <2>1. \A i \in 1..Len(x) : x[i][1] # "spawn" /\ x[i][3] # "discard" /\ (Drops(x[i]) => i = 2)
    BY <1>2 DEF Drops
  <2>2. 1 \in 1..(2 - 1) /\ x[1][1] = "kill"
    BY <1>2
  <2> QED BY <2>1, <2>2 DEF Named, NamedAt
<1>6. ASSUME Empties(<<>>, dir, seen, todo) PROVE Empties(x, dir, seen, todo \ {"active"})
  <2>1. Clears(x[2], "active") /\ Clears(x[8], "cleaned") /\ Clears(x[10], "recovery")
    BY <1>0, <1>2 DEF Clears
  <2>2. \A i \in 1..Len(x) : \A m : Brings(x[i], m) => (i = 2 /\ m = "cleaned") \/ (i \in {4, 5} /\ m = "recovery")
    BY <1>2 DEF Brings
  <2>3. NothingAdded(x)
    BY <1>2, <2>1, <2>2 DEF NothingAdded
  <2>4. \A i \in 1..Len(x) : \A m : ~Excuses(x[i], m)
    BY <1>2 DEF Excuses
  <2>5. \E j \in 1..Len(x) : Clears(x[j], "active")
    BY <1>2, <2>1
  <2> QED BY <1>0, <1>6, <2>3, <2>4, <2>5, EmptiesBegins
<1>7. Kept(x, dir)
  <2>1. /\ ~Takes(x[1], "active") /\ Makes(x[2], "cleaned") /\ \A j \in 3..7 : ~Takes(x[j], "cleaned")
        /\ Makes(x[6], "recovery") /\ \A j \in 7..9 : ~Takes(x[j], "recovery")
    BY <1>2 DEF Takes, Makes
  <2>2. WholeAt(x, dir, "active", 1) /\ WholeAt(x, dir, "active", 2)
    BY <2>1 DEF WholeAt
  <2>3. ASSUME NEW i \in 3..7 PROVE WholeAt(x, dir, "cleaned", i)
    <3>1. 2 \in 1..(i - 1) /\ \A j \in (2 + 1)..(i - 1) : j \in 3..7
      OBVIOUS
    <3> QED BY <2>1, <3>1 DEF WholeAt
  <2>4. ASSUME NEW i \in 8..10 PROVE WholeAt(x, dir, "recovery", i)
    <3>1. 6 \in 1..(i - 1) /\ \A j \in (6 + 1)..(i - 1) : j \in 7..9
      OBVIOUS
    <3> QED BY <2>1, <3>1 DEF WholeAt
  <2>5. Lit(x, dir, 1) /\ Lit(x, dir, 2)
    BY <1>0, <1>2, <2>1, <2>2 DEF Lit
  <2>6. \A i \in 3..7 : Lit(x, dir, i)
    BY <1>0, <2>1, <2>3 DEF Lit
  <2>7. \A i \in 8..9 : Lit(x, dir, i)
    BY <1>0, <2>1, <2>4 DEF Lit
  <2>8. Lit(x, dir, 10)
    BY <1>0, <1>2, <2>4 DEF Lit, Expands
  <2> SUFFICES ASSUME NEW i \in 1..Len(x) PROVE KeptAt(x, dir, i)
    BY DEF Kept
  <2>9. Lit(x, dir, i)
    BY <1>2, <2>5, <2>6, <2>7, <2>8
  <2>10. /\ x[i][3] = "err" /\ x[i][1] \in PassWorks \cup {"close"}
         /\ x[i][1] = "tombstone" => i = 2 /\ x[i][2] = "active"
    BY <1>2 DEF PassWorks
  <2> QED BY <2>2, <2>9, <2>10 DEF KeptAt, PassWorks
<1> QED BY <1>1, <1>3, <1>4, <1>5, <1>6, <1>7 DEF BeginsWell

\* CleanedRemoval.
LEMMA CleanedPlan ==
  ASSUME NEW n \in Cleaned, Whole(dir, n), todo \subseteq Names
  PROVE  BeginsWell(CleanedRemoval(n), n)
<1> DEFINE u == Twin(n)
<1>0. n \in Names /\ u \in Names /\ u \in Cleaned /\ u # n /\ "active" \in Names /\ u # "active" /\ n # "active"
  BY Twins
<1>a. PICK x : x = CleanedRemoval(n)
  OBVIOUS
<1>c. ASSUME x \in Seq(Ops), NEW k \in Nat, Len(x) = k + 3,
             x[k + 1] = <<"kill", n, "err">>, x[k + 2] = <<"close", n, "err">>,
             x[k + 3] = <<"ok", u, "err">>,
             \A i \in 1..k : x[i] \in {<<"fsync", n, "err">>, <<"dsync", "active", "err">>, <<"isolate", u, "err">>}
      PROVE  BeginsWell(x, n)
  <2> HIDE DEF u
  <2>0. \A i \in 1..Len(x) : i \in 1..k \/ i = k + 1 \/ i = k + 2 \/ i = k + 3
    BY <1>c
  <2>1. ASSUME NEW i \in 1..Len(x)
        PROVE  /\ x[i][1] \in {"fsync", "dsync", "isolate", "kill", "close", "ok"} /\ x[i][3] = "err"
               /\ x[i][1] = "isolate" => x[i][2] = u
               /\ x[i][1] = "close" => i = k + 2 /\ x[i][2] = n
               /\ x[i][1] = "ok" => i = k + 3 /\ x[i][2] = u
    BY <1>c, <2>0
  <2>2. Shape(x, n, "pass")
    <3> SUFFICES ASSUME NEW i \in 1..Len(x) PROVE ShapeAt(x, n, "pass", i)
      BY DEF Shape
    <3>1. x[i][1] = "ok" => i = Len(x)
      BY <1>c, <2>1
    <3>2. x[i][1] = "close" => \A j \in (i + 1)..Len(x) : x[j][1] = "ok" /\ x[j][3] = "err"
      <4>1. x[i][1] = "close" => \A j \in (i + 1)..Len(x) : j = k + 3
        BY <1>c, <2>1
      <4> QED BY <1>c, <4>1
    <3> QED BY <2>1, <3>1, <3>2 DEF ShapeAt, OfCleaned, ToTarget, OwnerWorks, PassElses
  <2>3. Named(x, dir, helperProc)
    BY <1>0, <2>1 DEF Named, NamedAt, Drops
  <2>4. ASSUME Empties(<<>>, dir, seen, todo) PROVE Empties(x, dir, seen, todo \ {n})
    <3>1. k + 2 \in 1..Len(x) /\ Clears(x[k + 2], n) /\ Clears(x[k + 2], u)
      BY <1>0, <1>c DEF Clears
    <3>2. k + 3 \in 1..Len(x) /\ Excuses(x[k + 3], u)
      BY <1>c DEF Excuses
    <3>3. \A i \in 1..Len(x) : \A m : ~Brings(x[i], m) /\ (Excuses(x[i], m) => m = u)
      BY <2>1 DEF Brings, Excuses
    <3>4. NothingAdded(x)
      BY <3>3 DEF NothingAdded
    <3>5. u = Twin(n) /\ n \in Cleaned /\ \E i \in 1..Len(x) : Excuses(x[i], Twin(n))
      BY <3>2 DEF u
    <3> QED BY <1>0, <2>4, <3>1, <3>3, <3>4, <3>5, EmptiesBegins
  <2>5. Kept(x, dir)
    <3>1. ASSUME NEW j \in 1..Len(x), Takes(x[j], n) PROVE x[j][1] = "close" /\ \A i \in (j + 1)..Len(x) : x[i][1] = "ok"
      <4>1. x[j][1] = "close"
        BY <1>0, <2>1, <3>1 DEF Takes
      <4>2. \A i \in (j + 1)..Len(x) : i = k + 3
        BY <1>c, <2>1, <4>1
      <4> QED BY <1>c, <4>1, <4>2
    <3>2. Len(x) \in Nat
      BY <1>c
    <3> QED BY <1>0, <2>1, <3>1, <3>2, KeeperKeeps
  <2> QED BY <1>c, <2>2, <2>3, <2>4, <2>5 DEF BeginsWell
<1> USE DEF Sync, Op, Ops, OpNames, Works, PassWorks, Ends, Expands, Elses, PassElses
<1>1. CASE Present(seen, u) /\ ~Whole(seen, u)
  <2>1. x = (<<Op("fsync", n, "err")>> \o Sync("err") \o <<Op("isolate", u, "err")>> \o Sync("err"))
              \o <<Op("kill", n, "err")>> \o <<Op("close", n, "err"), Op("ok", u, "err")>>
    BY <1>1, <1>a DEF CleanedRemoval, Isolate, EndHelper, u
  <2>2. /\ Len(x) = 4 + 3 /\ x[1] = <<"fsync", n, "err">> /\ x[2] = <<"dsync", "active", "err">>
        /\ x[3] = <<"isolate", u, "err">> /\ x[4] = <<"dsync", "active", "err">> /\ x[4 + 1] = <<"kill", n, "err">>
        /\ x[4 + 2] = <<"close", n, "err">> /\ x[4 + 3] = <<"ok", u, "err">> /\ x \in Seq(Ops)
    BY <1>0, <2>1
  <2>3. \A i \in 1..4 : x[i] \in {<<"fsync", n, "err">>, <<"dsync", "active", "err">>, <<"isolate", u, "err">>}
    BY <2>2
  <2> QED BY <1>a, <1>c, <2>2, <2>3
<1>2. CASE ~(Present(seen, u) /\ ~Whole(seen, u))
  <2>1. x = <<>> \o <<Op("kill", n, "err")>> \o <<Op("close", n, "err"), Op("ok", u, "err")>>
    BY <1>2, <1>a DEF CleanedRemoval, Isolate, EndHelper, u
  <2>2. /\ Len(x) = 0 + 3 /\ x[0 + 1] = <<"kill", n, "err">>
        /\ x[0 + 2] = <<"close", n, "err">> /\ x[0 + 3] = <<"ok", u, "err">> /\ x \in Seq(Ops)
    BY <1>0, <2>1
  <2> QED BY <1>a, <1>c, <2>2
<1> QED BY <1>1, <1>2

\* RemovePair: the sibling is synced before the entry goes, and goes last.
LEMMA PairPlan ==
  ASSUME NEW n \in {"pending"} \cup Aliases, NEW m \in {"pending"} \cup Aliases, n # m, Whole(dir, n), ~Clash(m),
         todo \subseteq Names
  PROVE  BeginsWell(RemovePair(n, m), n)
<1>0. n \in Names /\ m \in Names /\ "active" \in Names /\ n # "active" /\ m # "active" /\ n \notin Cleaned /\ m \notin Cleaned
  BY DEF Names, Aliases, Cleaned
<1>a. PICK x : x = RemovePair(n, m)
  OBVIOUS
<1>c. ASSUME x \in Seq(Ops), NEW k \in Nat \ {0}, Len(x) = k + 5,
             x[k + 1] = <<"unlink", n, "err">>, x[k + 2] = <<"dsync", n, "err">>,
             x[k + 3] = <<"unlink", m, "put_back">>, x[k + 4] = <<"dsync", m, "put_back">>,
             x[k + 5] = <<"ok", m, "err">>,
             \A i \in 1..k : x[i][1] \in {"create", "write", "fsync", "dsync"} /\ x[i][2] # n /\ x[i][3] = "err",
             \A i \in 1..k : x[i][1] \in {"create", "write"} => x[i][2] = m,
             WholeAt(x, dir, m, k + 1)
      PROVE  BeginsWell(x, n)
  <2>0. /\ Len(x) \in Nat /\ \A i \in 1..Len(x) : i \in 1..k \/ i = k + 1 \/ i = k + 2 \/ i = k + 3 \/ i = k + 4 \/ i = k + 5
        /\ k + 1 \in 1..Len(x) /\ k + 3 \in 1..Len(x) /\ k + 5 \in 1..Len(x)
    BY <1>c
  <2>1. ASSUME NEW i \in 1..Len(x)
        PROVE  /\ x[i][1] \in {"create", "write", "fsync", "dsync", "unlink", "ok"} /\ x[i][3] \in {"err", "put_back"}
               /\ x[i][1] \in {"create", "write"} => i \in 1..k /\ x[i][2] = m
               /\ x[i][1] = "ok" => i = k + 5 /\ x[i][2] = m
               /\ x[i][1] = "unlink" => x[i][2] \in {n, m}
               /\ x[i][3] = "put_back" => i \in {k + 3, k + 4} /\ x[i][1] \in {"unlink", "dsync"} /\ x[i][2] = m
    BY <1>c, <2>0
  <2>2. Shape(x, n, "pass")
    <3> SUFFICES ASSUME NEW i \in 1..Len(x) PROVE ShapeAt(x, n, "pass", i)
      BY DEF Shape
    <3>1. x[i][1] = "ok" => i = Len(x)
      BY <1>c, <2>1
    <3> QED BY <2>1, <3>1 DEF ShapeAt, OfCleaned, ToTarget, OwnerWorks, PassElses
  <2>3. Named(x, dir, helperProc)
    BY <1>0, <2>1 DEF Named, NamedAt, Drops
  <2>4. ASSUME Empties(<<>>, dir, seen, todo) PROVE Empties(x, dir, seen, todo \ {n})
    <3>1. Clears(x[k + 1], n) /\ Clears(x[k + 3], m)
      BY <1>c DEF Clears
    <3>2. \A i \in 1..Len(x) : \A e : /\ Brings(x[i], e) => i \in 1..k /\ e = m
                                      /\ Excuses(x[i], e) => e = m
      BY <2>1 DEF Brings, Excuses
    <3>5. m \notin Cleaned
      BY DEF Cleaned, Aliases
    <3>3. \A i \in 1..k : k + 3 \in (i + 1)..Len(x)
      BY <1>c
    <3>4. NothingAdded(x)
      BY <3>1, <3>2, <3>3 DEF NothingAdded
    <3> QED BY <1>0, <2>0, <2>4, <3>1, <3>2, <3>4, <3>5, EmptiesBegins
  <2>5. Kept(x, dir)
    <3> SUFFICES ASSUME NEW i \in 1..Len(x) PROVE KeptAt(x, dir, i)
      BY DEF Kept
    <3>1. CASE i \in 1..k
      <4>1. \A j \in 1..k : ~Takes(x[j], n)
        BY <1>c DEF Takes
      <4>2. \A j \in 1..(i - 1) : j \in 1..k
        BY <3>1
      <4>3. WholeAt(x, dir, n, i) /\ ~Takes(x[i], n)
        BY <3>1, <4>1, <4>2 DEF WholeAt
      <4>4. Lit(x, dir, i)
        BY <1>0, <4>3 DEF Lit
      <4>5. x[i][3] = "err" /\ x[i][1] \in {"create", "write", "fsync", "dsync"}
        BY <1>c, <3>1
      <4> QED BY <4>4, <4>5 DEF KeptAt
    <3>2. ~Takes(x[k + 1], m) /\ ~Takes(x[k + 2], m)
      BY <1>c DEF Takes
    <3>3. WholeAt(x, dir, m, k + 2)
      <4>1. \A j \in (k + 1)..(k + 2 - 1) : j = k + 1
        OBVIOUS
      <4>2. k + 1 \in Nat \ {0} /\ k + 2 \in Nat /\ k + 1 <= k + 2 /\ WholeAt(x, dir, m, k + 1)
        BY <1>c
      <4> QED BY <3>2, <4>1, <4>2, WholeLasts
    <3>4. WholeAt(x, dir, m, k + 3)
      <4>1. \A j \in (k + 2)..(k + 3 - 1) : j = k + 2
        OBVIOUS
      <4> QED BY <3>2, <3>3, <4>1, WholeLasts
    <3>5. CASE i \in {k + 1, k + 2}
      <4>1. WholeAt(x, dir, m, i) /\ ~Takes(x[i], m)
        BY <1>c, <3>2, <3>3, <3>5
      <4>2. Lit(x, dir, i)
        BY <1>0, <4>1 DEF Lit
      <4>3. x[i][3] = "err" /\ x[i][1] \in {"unlink", "dsync"}
        BY <1>c, <3>5
      <4> QED BY <4>2, <4>3 DEF KeptAt
    <3>6. CASE i = k + 3
      BY <1>c, <3>4, <3>6 DEF KeptAt, FirmAt, Needs
    <3>7. CASE i = k + 4
      <4>1. i # 1 /\ i - 1 = k + 3
        BY <3>7
      <4>2. GoneAt(x, dir, m, i)
        BY <1>c, <4>1 DEF GoneAt
      <4> QED BY <1>c, <3>7, <4>2 DEF KeptAt, FirmAt, Needs
    <3>8. CASE i = k + 5
      BY <1>c, <3>8 DEF KeptAt, Needs, Ends
    <3> QED BY <2>0, <3>1, <3>5, <3>6, <3>7, <3>8
  <2> QED BY <1>c, <2>2, <2>3, <2>4, <2>5 DEF BeginsWell
<1> USE DEF Sync, Op, Ops, OpNames, Works, PassWorks, Ends, Elses, PassElses, WriteNew, Unlink
<1>1. CASE Present(dir, m)
  <2>1. x = <<Op("fsync", m, "err")>> \o Unlink(n, "err") \o Unlink(m, "put_back") \o <<Op("ok", m, "err")>>
    BY <1>1, <1>a DEF RemovePair, EnsureAlias
  <2>2. /\ Len(x) = 1 + 5 /\ x[1] = <<"fsync", m, "err">> /\ x[1 + 1] = <<"unlink", n, "err">> /\ x[1 + 2] = <<"dsync", n, "err">>
        /\ x[1 + 3] = <<"unlink", m, "put_back">> /\ x[1 + 4] = <<"dsync", m, "put_back">> /\ x[1 + 5] = <<"ok", m, "err">>
        /\ x \in Seq(Ops)
    BY <1>0, <2>1
  <2>3. WholeAt(x, dir, m, 1 + 1)
    <3>1. Makes(x[1], m)
      BY <2>2 DEF Makes
    <3> QED BY <3>1 DEF WholeAt
  <2>4. PICK k \in Nat \ {0} : k = 1
    OBVIOUS
  <2>5. /\ Len(x) = k + 5 /\ x[k + 1] = <<"unlink", n, "err">> /\ x[k + 2] = <<"dsync", n, "err">>
        /\ x[k + 3] = <<"unlink", m, "put_back">> /\ x[k + 4] = <<"dsync", m, "put_back">> /\ x[k + 5] = <<"ok", m, "err">>
        /\ WholeAt(x, dir, m, k + 1)
    BY <2>2, <2>3, <2>4
  <2>6. \A i \in 1..k : /\ x[i][1] \in {"create", "write", "fsync", "dsync"} /\ x[i][2] # n /\ x[i][3] = "err"
                        /\ x[i][1] \in {"create", "write"} => x[i][2] = m
    BY <2>2, <2>4
  <2> QED BY <1>a, <1>c, <2>2, <2>5, <2>6
<1>2. CASE ~Present(dir, m)
  <2>1. x = (WriteNew(m, "err") \o Sync("err")) \o Unlink(n, "err") \o Unlink(m, "put_back") \o <<Op("ok", m, "err")>>
    BY <1>2, <1>a DEF RemovePair, EnsureAlias
  <2>2. /\ Len(x) = 4 + 5 /\ x[1] = <<"create", m, "err">> /\ x[2] = <<"write", m, "err">> /\ x[3] = <<"fsync", m, "err">>
        /\ x[4] = <<"dsync", "active", "err">> /\ x[4 + 1] = <<"unlink", n, "err">> /\ x[4 + 2] = <<"dsync", n, "err">>
        /\ x[4 + 3] = <<"unlink", m, "put_back">> /\ x[4 + 4] = <<"dsync", m, "put_back">> /\ x[4 + 5] = <<"ok", m, "err">>
        /\ x \in Seq(Ops)
    BY <1>0, <2>1
  <2>3. WholeAt(x, dir, m, 4 + 1)
    <3>1. Makes(x[3], m) /\ ~Takes(x[4], m)
      BY <2>2 DEF Makes, Takes
    <3> QED BY <3>1 DEF WholeAt
  <2>4. \A i \in 1..4 : /\ x[i][1] \in {"create", "write", "fsync", "dsync"} /\ x[i][2] # n /\ x[i][3] = "err"
                        /\ x[i][1] \in {"create", "write"} => x[i][2] = m
    BY <1>0, <2>2
  <2>5. PICK k \in Nat \ {0} : k = 4
    OBVIOUS
  <2>6. /\ Len(x) = k + 5 /\ x[k + 1] = <<"unlink", n, "err">> /\ x[k + 2] = <<"dsync", n, "err">>
        /\ x[k + 3] = <<"unlink", m, "put_back">> /\ x[k + 4] = <<"dsync", m, "put_back">> /\ x[k + 5] = <<"ok", m, "err">>
        /\ WholeAt(x, dir, m, k + 1)
    BY <2>2, <2>3, <2>5
  <2>7. \A i \in 1..k : /\ x[i][1] \in {"create", "write", "fsync", "dsync"} /\ x[i][2] # n /\ x[i][3] = "err"
                        /\ x[i][1] \in {"create", "write"} => x[i][2] = m
    BY <2>4, <2>5
  <2> QED BY <1>a, <1>c, <2>2, <2>6, <2>7
<1> QED BY <1>1, <1>2

\* PendingRemoval.
LEMMA PendingPlan ==
  ASSUME NEW n \in {"pending"} \cup Aliases, dir[n] = seen[n], todo \subseteq Names
  PROVE  BeginsWell(PendingRemoval(n), n)
<1>0. n \in Names /\ (n # "pending" => n \in Aliases /\ Twin(n) \in Aliases /\ Twin(n) # n) /\ n # "active" /\ n \notin Cleaned
  BY Twins DEF Names, Aliases, Cleaned
<1>a. PICK x : x = PendingRemoval(n)
  OBVIOUS
<1>1. CASE ~Whole(dir, n)
  <2>1. x = <<Op("fail", n, "err")>> /\ ~Whole(seen, n)
    BY <1>1, <1>a DEF PendingRemoval, Whole
  <2> QED BY <1>0, <1>a, <2>1, RefusingPlan
<1>2. CASE Whole(dir, n) /\ x = <<Op("fail", n, "err")>>
  BY <1>0, <1>a, <1>2, RefusingPlan
<1>3. CASE Whole(dir, n) /\ n = "pending" /\ x # <<Op("fail", n, "err")>>
  <2>1. PICK m \in Aliases : x = RemovePair("pending", m) /\ ~Clash(m)
    BY <1>3, <1>a DEF PendingRemoval, RemoveStaging, Aliases
  <2>2. m # "pending"
    BY DEF Aliases
  <2> QED BY <1>a, <1>3, <2>1, <2>2, PairPlan
<1>4. CASE Whole(dir, n) /\ n # "pending" /\ x # <<Op("fail", n, "err")>> /\ ~Present(dir, "pending")
  <2>1. x = RemovePair(n, Twin(n)) /\ ~Clash(Twin(n))
    BY <1>4, <1>a DEF PendingRemoval, RemoveAlias
  <2> QED BY <1>0, <1>a, <1>4, <2>1, PairPlan
<1>5. CASE Whole(dir, n) /\ n # "pending" /\ x # <<Op("fail", n, "err")>> /\ Present(dir, "pending")
  <2>1. x = Unlink(n, "err") /\ Whole(dir, "pending")
    BY <1>5, <1>a DEF PendingRemoval, RemoveAlias, Clash
  <2>2. Len(x) = 2 /\ x[1] = <<"unlink", n, "err">> /\ x[2] = <<"dsync", n, "err">>
    BY <2>1 DEF Unlink, Op
  <2>3. x \in Seq(Ops)
    BY <1>0, <2>1 DEF Unlink, Op, Ops, OpNames, Works, PassWorks, Elses, PassElses
  <2>4. Shape(x, n, "pass")
    BY <2>2 DEF Shape, ShapeAt, OfCleaned, ToTarget, OwnerWorks, PassElses
  <2>5. Named(x, dir, helperProc)
    BY <1>0, <2>2 DEF Named, NamedAt, Drops
  <2>6. ASSUME Empties(<<>>, dir, seen, todo) PROVE Empties(x, dir, seen, todo \ {n})
    <3>1. Clears(x[1], n) /\ \A i \in 1..Len(x) : \A m : ~Brings(x[i], m) /\ ~Excuses(x[i], m)
      BY <2>2 DEF Clears, Brings, Excuses
    <3>2. NothingAdded(x)
      BY <3>1 DEF NothingAdded
    <3>3. \E j \in 1..Len(x) : Clears(x[j], n)
      BY <2>2, <3>1
    <3> QED BY <1>0, <2>6, <3>1, <3>2, <3>3, EmptiesBegins
  <2>7. Kept(x, dir)
    <3>1. \A j \in 1..Len(x) : ~Takes(x[j], "pending")
      BY <1>5, <2>2 DEF Takes
    <3>2. "pending" \in Names
      BY Twins
    <3> QED BY <2>1, <2>2, <3>1, <3>2, KeeperKeeps
  <2> QED BY <1>a, <2>3, <2>4, <2>5, <2>6, <2>7 DEF BeginsWell
<1> QED BY <1>1, <1>2, <1>3, <1>4, <1>5
-----------------------------------------------------------------------------
\* What an operation does to the directory.
LEMMA EffectFacts ==
  ASSUME dir \in Dirs, NEW op \in Ops, op[1] \in Works, ~Refused(op[1], op[2]), NEW d2, d2 = Effect(op[1], op[2])
  PROVE  /\ d2 \in Dirs
         /\ Present(dir, "active") /\ ~Drops(op) => Present(d2, "active")
         /\ op[1] = "prepare_marker" /\ op[2] = "active" => Present(d2, "active")
         /\ op[1] \in {"dsync", "kill", "spawn", "reap"} => d2 = dir
<1>1. PICK o \in OpNames, n \in Names : o = op[1] /\ n = op[2]
  BY DEF Ops
<1>2. d2 = Effect(o, n) /\ ~Refused(o, n) /\ o \in Works
  BY <1>1
<1>3. "active" \in Names /\ "cleaned" \in Names
  BY DEF Names, Cleaned
<1>6. d2 \in Dirs
  <2>1. /\ \A c \in Contents : [dir EXCEPT ![n] = c] \in Dirs
        /\ \A e \in Names : [dir EXCEPT ![e] = dir[n], ![n] = "absent"] \in Dirs
    BY DEF Dirs, Contents
  <2>2. {"part", "prepared", "soft", "full", "absent"} \subseteq Contents
    BY DEF Contents
  <2> QED BY <1>2, <1>3, <2>1, <2>2 DEF Effect
<1>4. /\ d2 \in Dirs
      /\ o = "prepare_marker" /\ n = "active" => d2["active"] # "absent"
      /\ o \in {"dsync", "kill", "spawn", "reap"} => d2 = dir
  <2>1. o = "prepare_marker" /\ n = "active" => d2["active"] # "absent"
    BY <1>2, <1>3 DEF Effect, Dirs
  <2>2. o \in {"dsync", "kill", "spawn", "reap"} => d2 = dir
    BY <1>2 DEF Effect
  <2> QED BY <1>6, <2>1, <2>2
<1>5. dir["active"] # "absent" /\ ~(o \in {"unlink", "isolate", "tombstone"} /\ n = "active") => d2["active"] # "absent"
  BY <1>2, <1>3 DEF Effect, Dirs, Refused, Present
<1> QED BY <1>1, <1>4, <1>5 DEF Present, Drops

\* And what one of a pass leaves, makes, removes and brings.
LEMMA PassEffect ==
  ASSUME dir \in Dirs, NEW op \in Ops, op[1] \in PassWorks, ~Refused(op[1], op[2]), NEW d2, d2 = Effect(op[1], op[2]),
         NEW m \in Names
  PROVE  /\ Whole(dir, m) /\ ~Takes(op, m) => Whole(d2, m)
         /\ Makes(op, m) /\ (op[1] = "tombstone" => op[2] = "active" /\ Whole(dir, "active")) => Whole(d2, m)
         /\ Clears(op, m) => ~Present(d2, m)
         /\ Present(d2, m) => Present(dir, m) \/ Brings(op, m)
<1>1. PICK o \in OpNames, n \in Names : o = op[1] /\ n = op[2]
  BY DEF Ops
<1>2. d2 = Effect(o, n) /\ ~Refused(o, n) /\ o \in PassWorks
  BY <1>1
<1>3. "active" \in Names /\ "cleaned" \in Names
  BY DEF Names, Cleaned
<1>4. /\ o \in {"create"} => d2 = [dir EXCEPT ![n] = "part"]
      /\ o = "write" => d2 = [dir EXCEPT ![n] = "soft"]
      /\ o = "fsync" => d2 = [dir EXCEPT ![n] = "full"] /\ dir[n] # "absent"
      /\ o \in {"unlink", "isolate"} => d2 = [dir EXCEPT ![n] = "absent"]
      /\ o = "tombstone" => d2 = [dir EXCEPT !["cleaned"] = dir[n], ![n] = "absent"] /\ dir[n] # "absent"
      /\ o \in {"dsync", "kill"} => d2 = dir
  BY <1>2 DEF Effect, Refused, Present
<1>5. o \in {"create", "write", "fsync", "unlink", "isolate", "tombstone", "dsync", "kill"}
  BY <1>2 DEF PassWorks
<1>6. Whole(dir, m) /\ ~Takes(op, m) => Whole(d2, m)
  BY <1>1, <1>3, <1>4, <1>5 DEF Takes, Whole, Dirs
<1>7. Makes(op, m) /\ (o = "tombstone" => n = "active" /\ Whole(dir, "active")) => Whole(d2, m)
  <2>1. CASE o = "fsync"
    BY <1>1, <1>4, <2>1 DEF Makes, Whole, Dirs
  <2>2. CASE o = "tombstone"
    <3>1. Makes(op, m) => m = "cleaned"
      BY <1>1, <2>2 DEF Makes
    <3>2. n = "active" => d2["cleaned"] = dir["active"]
      BY <1>3, <1>4, <2>2 DEF Dirs
    <3> QED BY <2>2, <3>1, <3>2 DEF Whole
  <2>3. CASE o \notin {"fsync", "tombstone"}
    BY <1>1, <1>5, <2>3 DEF Makes
  <2> QED BY <2>1, <2>2, <2>3
<1>8. Clears(op, m) => ~Present(d2, m)
  BY <1>1, <1>3, <1>4, <1>5 DEF Clears, Present, Dirs
<1>9. Present(d2, m) => Present(dir, m) \/ Brings(op, m)
  BY <1>1, <1>3, <1>4, <1>5 DEF Brings, Present, Dirs
<1> QED BY <1>1, <1>6, <1>7, <1>8, <1>9

\* The disk stays a set of directories with the present one among them.
LEMMA DiskType ==
  ASSUME markerDisk \subseteq Dirs, dir \in Dirs, NEW o, NEW n \in Names, NEW d2 \in Dirs, o = "dsync" => d2 = dir
  PROVE  OnDisk(o, n, d2) \subseteq Dirs /\ d2 \in OnDisk(o, n, d2)
<1>1. \A d \in Dirs : [d EXCEPT ![n] = IF @ = "absent" THEN @ ELSE "full"] \in Dirs
  BY DEF Dirs, Contents
<1> QED BY <1>1 DEF OnDisk

\* The plan that follows a failed operation.
LEMMA HandlerPlan ==
  ASSUME NEW e \in Elses, NEW n \in Names, target \in Names, NEW d, NEW h, NEW ph,
         e \in ToTarget => target \in Cleaned, ph = "pass" => e \in PassElses, e = "discard" => h # "running"
  PROVE  LET p == Handler(e, n) IN
         /\ p \in Seq(Ops) /\ Shape(p, target, ph) /\ Named(p, d, h)
         /\ e \in PassElses => Doomed(p)
         /\ /\ e \in PassElses
            /\ e \in {"err", "restore"} => \E m \in Names : Whole(d, m)
            /\ e = "put_back" => Whole(d, n) \/ ~Present(d, n)
            /\ e = "last_copy" => Whole(d, Twin(target)) \/ ~Present(d, Twin(target))
            => Kept(p, d)
<1>a. PICK p : p = Handler(e, n)
  OBVIOUS
<1>0. "active" \in Names
  BY Twins
<1>1. CASE e = "discard"
  <2>1. p = Unlink("active", "end")
    BY <1>1, <1>a DEF Handler
  <2>2. Len(p) = 2 /\ p[1] = <<"unlink", "active", "end">> /\ p[2] = <<"dsync", "active", "end">>
    BY <2>1 DEF Unlink, Op
  <2>3. p \in Seq(Ops)
    BY <1>0, <2>1 DEF Unlink, Op, Ops, OpNames, Works, PassWorks, Elses
  <2>4. Shape(p, target, ph)
    BY <1>1, <2>2 DEF Shape, ShapeAt, OfCleaned, ToTarget, OwnerWorks, PassElses
  <2>5. Named(p, d, h)
    BY <1>1, <2>2 DEF Named, NamedAt, Drops
  <2> QED BY <1>1, <1>a, <2>3, <2>4, <2>5 DEF PassElses
<1>2. CASE e # "discard"
  <2>1. PICK o, m, f : /\ p = <<Op(o, m, f)>> /\ m \in Names /\ f \in {"end", "err", "abort"}
                       /\ o \in {"end", "rewrite", "fail", "restore", "restore_twin", "last_copy", "put_back", "abort"}
                       /\ o \in ToTarget => m = target /\ e = o
                       /\ o = "put_back" => m = n /\ e = o
                       /\ o = "fail" <=> e = "err"
                       /\ o = "abort" <=> e = "abort"
                       /\ o \in {"end", "rewrite"} \/ f = "end" => e \notin PassElses
    <3>1. e \in PassElses \/ e \in {"end", "rewrite", "rewrite_marker"}
      BY <1>2 DEF Elses
    <3>2. CASE e = "err"
      BY <1>a, <3>2 DEF Handler, ToTarget
    <3>3. CASE e = "restore"
      BY <1>a, <3>3 DEF Handler, ToTarget, PassElses
    <3>4. CASE e = "restore_twin"
      BY <1>a, <3>4 DEF Handler, ToTarget, PassElses
    <3>5. CASE e = "last_copy"
      BY <1>a, <3>5 DEF Handler, ToTarget, PassElses
    <3>6. CASE e = "put_back"
      BY <1>a, <3>6 DEF Handler, ToTarget, PassElses
    <3>7. CASE e = "abort"
      BY <1>a, <3>7 DEF Handler, ToTarget, PassElses
    <3>8. CASE e = "end"
      BY <1>a, <3>8 DEF Handler, ToTarget, PassElses
    <3>9. CASE e \in {"rewrite", "rewrite_marker"}
      BY <1>a, <3>9 DEF Handler, ToTarget, PassElses
    <3> QED BY <3>1, <3>2, <3>3, <3>4, <3>5, <3>6, <3>7, <3>8, <3>9 DEF PassElses
  <2>2. Len(p) = 1 /\ p[1] = <<o, m, f>> /\ \A i \in 1..Len(p) : i = 1
    BY <2>1 DEF Op
  <2>3. p \in Seq(Ops)
    BY <2>1 DEF Op, Ops, OpNames, Ends, Expands, Recoveries, Elses, PassElses
  <2>4. Shape(p, target, ph)
    <3>1. p[1][1] = o /\ p[1][2] = m /\ p[1][3] = f
      BY <2>2
    <3>2. ShapeAt(p, target, ph, 1)
      BY <2>1, <3>1 DEF ShapeAt, OfCleaned, ToTarget, OwnerWorks, PassElses
    <3> QED BY <2>2, <3>2 DEF Shape
  <2>5. Named(p, d, h)
    BY <2>1, <2>2 DEF Named, NamedAt, Drops
  <2>6. e \in PassElses => Doomed(p)
    BY <2>1, <2>2 DEF Doomed, Doom, Ends, Recoveries
  <2>7. ASSUME e \in PassElses,
               e \in {"err", "restore"} => \E w \in Names : Whole(d, w),
               e = "put_back" => Whole(d, n) \/ ~Present(d, n),
               e = "last_copy" => Whole(d, Twin(target)) \/ ~Present(d, Twin(target))
        PROVE  Kept(p, d)
    <3>1. p[1][1] = o /\ p[1][2] = m /\ p[1][3] = f
      BY <2>2
    <3>2. \A w : Whole(d, w) => WholeAt(p, d, w, 1)
      BY DEF WholeAt
    <3>3. \A w : ~Present(d, w) => GoneAt(p, d, w, 1)
      BY DEF GoneAt
    <3>4. o \notin {"end", "rewrite"} /\ f \in {"err", "abort"}
      BY <2>1, <2>7
    <3>5. ASSUME Needs(p[1]) PROVE Lit(p, d, 1)
      <4>1. o \in {"fail", "restore", "restore_twin", "last_copy", "put_back"}
        BY <2>1, <3>1, <3>4, <3>5 DEF Needs, Ends
      <4>2. e \in {"err", "restore"}
        <5>1. CASE o = "fail" BY <2>1, <5>1
        <5>2. CASE o = "restore" BY <2>1, <5>2 DEF ToTarget
        <5>3. CASE o \in {"restore_twin", "last_copy", "put_back"}
          <6>1. f = "err" BY <3>1, <3>4, <3>5, <5>3 DEF Needs
          <6> QED BY <1>a, <2>1, <2>2, <5>3, <6>1 DEF Handler, ToTarget, Op
        <5> QED BY <4>1, <5>1, <5>2, <5>3
      <4>3. PICK w \in Names : Whole(d, w)
        BY <2>7, <4>2
      <4>4. ~Takes(p[1], w)
        BY <2>1, <3>1 DEF Takes
      <4> QED BY <3>2, <4>3, <4>4 DEF Lit
    <3>6. o = "put_back" => FirmAt(p, d, m, 1)
      BY <2>1, <2>7, <3>2, <3>3 DEF FirmAt
    <3>7. o = "last_copy" => FirmAt(p, d, Twin(m), 1)
      BY <2>1, <2>7, <3>2, <3>3 DEF FirmAt, ToTarget
    <3>8. KeptAt(p, d, 1)
      BY <2>1, <3>1, <3>5, <3>6, <3>7 DEF KeptAt
    <3> QED BY <2>2, <3>8 DEF Kept
  <2> QED BY <1>a, <2>3, <2>4, <2>5, <2>6, <2>7
<1> QED BY <1>1, <1>2
-----------------------------------------------------------------------------
(* The invariant, action by action.                                        *)

\* The operation that is next.
LEMMA NextOp ==
  ASSUME MarkersTypes, PlanShape, HelperNamed, Running
  PROVE  /\ plan # <<>> /\ plan \in Seq(Ops) /\ Len(plan) \in Nat \ {0} /\ 1 \in 1..Len(plan)
         /\ PassAt = plan[1] /\ plan[1] \in Ops
         /\ plan[1][1] \in OpNames /\ plan[1][2] \in Names /\ plan[1][3] \in Elses
         /\ ShapeAt(plan, target, phase, 1) /\ NamedAt(plan, dir, helperProc, 1) /\ phase \in {"owner", "pass"}
         /\ \A i \in 1..Len(plan) : plan[i][2] \in Names /\ (plan[i][1] = "last_copy" => Twin(plan[i][2]) \in Names)
<1>1. plan # <<>> /\ plan \in Seq(Ops)
  BY DEF MarkersTypes, Running
<1>2. Len(plan) \in Nat \ {0} /\ 1 \in 1..Len(plan) /\ Head(plan) = plan[1] /\ plan[1] \in Ops
  BY <1>1
<1>3. ASSUME NEW i \in 1..Len(plan)
      PROVE  plan[i][1] \in OpNames /\ plan[i][2] \in Names /\ plan[i][3] \in Elses
  <2>1. plan[i] \in Ops
    BY <1>1
  <2> QED BY <2>1 DEF Ops
<1>4. ASSUME NEW i \in 1..Len(plan), plan[i][1] = "last_copy" PROVE Twin(plan[i][2]) \in Names
  <2>1. ShapeAt(plan, target, phase, i)
    BY DEF PlanShape, Shape
  <2>2. plan[i][2] \in Cleaned
    BY <1>4, <2>1 DEF ShapeAt, OfCleaned
  <2> QED BY <2>2, Twins
<1>5. phase \in {"owner", "pass"}
  BY <1>1 DEF MarkersTypes, PlanShape
<1> QED BY <1>1, <1>2, <1>3, <1>4, <1>5 DEF PassAt, PlanShape, Shape, HelperNamed, Named

\* A pass is at an operation that keeps an image.
LEMMA KeptNow ==
  ASSUME ImageStays, phase = "pass", Len(plan) \in Nat \ {0}, plan[1][1] # "fail" \/ Whole(seen, target)
  PROVE  Kept(plan, dir) /\ KeptAt(plan, dir, 1)
<1>1. Kept(plan, dir)
  BY DEF ImageStays
<1>2. ~Halted(plan, 1) /\ 1 \in 1..Len(plan)
  BY DEF Halted
<1> QED BY <1>1, <1>2 DEF Kept

\* At the first place, what is whole or gone is so in the directory.
LEMMA FirstPlace ==
  ASSUME NEW p, NEW d, NEW n
  PROVE  (WholeAt(p, d, n, 1) <=> Whole(d, n)) /\ (GoneAt(p, d, n, 1) <=> ~Present(d, n))
  BY DEF WholeAt, GoneAt

\* What stands in the plan behind its first operation.
LEMMA RestOfPlan ==
  ASSUME PlanShape, Len(plan) \in Nat \ {0}
  PROVE  \A i \in 2..Len(plan) : ShapeAt(plan, target, phase, i)
<1>1. \A i \in 2..Len(plan) : i \in 1..Len(plan)
  OBVIOUS
<1> QED BY <1>1 DEF PlanShape, Shape

\* One operation succeeds.
LEMMA StepKeeps == ASSUME MarkersInv, Step PROVE MarkersInv'
<1>0. MarkersTypes /\ PlanShape /\ HelperNamed /\ Scanned /\ LeavesNothing /\ OkIsEmpty /\ ImageStays
  BY DEF MarkersInv
<1> DEFINE op == plan[1]
<1>1. /\ Running /\ op[1] \notin Expands \cup Recoveries \cup Ends /\ ~Refused(op[1], op[2])
      /\ dir' = Effect(op[1], op[2]) /\ markerDisk' = OnDisk(op[1], op[2], dir')
      /\ fresh' = fresh \cup {m \in Names : dir'[m] # dir[m]}
      /\ helperProc' = CASE op[1] = "spawn" -> "running"
                         [] op[1] \in {"kill", "reap"} /\ helperProc = "running" -> "gone"
                         [] OTHER -> helperProc
      /\ plan' = Tail(plan)
      /\ UNCHANGED <<phase, seen, todo, target, troubled, result, faults>>
  BY <1>0, NextOp DEF Step
<1>2. /\ plan # <<>> /\ plan \in Seq(Ops) /\ Len(plan) \in Nat \ {0} /\ op \in Ops
      /\ op[1] \in OpNames /\ op[2] \in Names /\ op[3] \in Elses
      /\ ShapeAt(plan, target, phase, 1) /\ NamedAt(plan, dir, helperProc, 1) /\ phase \in {"owner", "pass"}
      /\ \A i \in 1..Len(plan) : plan[i][2] \in Names /\ (plan[i][1] = "last_copy" => Twin(plan[i][2]) \in Names)
  BY <1>0, <1>1, NextOp
<1>3. op[1] \in Works /\ op[1] \notin Doom /\ op[1] # "ok" /\ op[1] # "fail"
  BY <1>1, <1>2 DEF OpNames, Doom, Expands, Ends
<1>4. Tail(plan) \in Seq(Ops) /\ Splice(plan, <<>>, Tail(plan))
  BY <1>2, Spliced
<1>5. /\ dir' \in Dirs
      /\ Present(dir, "active") /\ ~Drops(op) => Present(dir', "active")
      /\ op[1] = "prepare_marker" /\ op[2] = "active" => Present(dir', "active")
      /\ op[1] \in {"dsync", "kill", "spawn", "reap"} => dir' = dir
  BY <1>0, <1>1, <1>2, <1>3, EffectFacts DEF MarkersTypes
<1>6. Len(<<>>) = 0 /\ \A i \in 1..Len(<<>>) : FALSE
  OBVIOUS
<1> HIDE DEF op
<1>7. MarkersTypes'
  <2>1. markerDisk' \subseteq Dirs /\ dir' \in markerDisk'
    BY <1>0, <1>1, <1>2, <1>5, DiskType DEF MarkersTypes
  <2>2. helperProc' \in {"none", "running", "gone"}
    BY <1>0, <1>1 DEF MarkersTypes
  <2> QED BY <1>0, <1>1, <1>4, <1>5, <2>1, <2>2 DEF MarkersTypes
<1>8. PlanShape'
  <2>1. \A i \in 2..Len(plan) : ShapeAt(plan, target, phase, i)
    BY <1>0, <1>2, RestOfPlan
  <2>2. Shape(Tail(plan), target, phase)
    BY <1>4, <1>6, <2>1, ShapeSpliced
  <2> QED BY <1>1, <1>2, <2>2 DEF PlanShape
<1>9. HelperNamed'
  <2>1. /\ op[1] \in {"kill", "reap"} => helperProc' # "running"
        /\ helperProc' = "running" => helperProc = "running" \/ op[1] = "spawn"
        /\ helperProc = "none" => helperProc' = "none" \/ op[1] = "spawn"
    BY <1>1
  <2>2. Named(plan, dir, helperProc)
    BY <1>0 DEF HelperNamed
  <2>3. Named(Tail(plan), dir', helperProc')
    BY <1>4, <1>5, <1>6, <2>1, <2>2, NamedSpliced DEF op
  <2>4. ASSUME helperProc' = "running" PROVE Present(dir', "active")
    <3>1. Present(dir, "active")
      BY <1>0, <1>2, <2>1, <2>4 DEF HelperNamed, NamedAt, op
    <3>2. CASE op[1] = "spawn"
      BY <1>5, <3>1, <3>2
    <3>3. CASE helperProc = "running"
      <4>1. ~Drops(op)
        BY <1>2, <3>3 DEF NamedAt, op
      <4> QED BY <1>5, <3>1, <4>1
    <3> QED BY <2>1, <2>4, <3>2, <3>3
  <2> QED BY <1>1, <2>3, <2>4 DEF HelperNamed
<1>10. Scanned'
  <2>1. \A m \in Names : m \notin fresh' => m \notin fresh /\ dir'[m] = dir[m]
    BY <1>1
  <2> QED BY <1>0, <1>1, <2>1 DEF Scanned
<1>11. OkIsEmpty'
  BY <1>0, <1>1, <1>2 DEF OkIsEmpty
<1>12. ASSUME phase = "pass"
       PROVE  /\ op[1] \in PassWorks
              /\ op[1] = "tombstone" => op[2] = "active" /\ Whole(dir, "active")
              /\ Kept(plan, dir)
  <2>1. op[1] \in PassWorks
    BY <1>2, <1>3, <1>12 DEF ShapeAt, Works, op
  <2>2. Kept(plan, dir) /\ KeptAt(plan, dir, 1)
    BY <1>0, <1>2, <1>3, <1>12, KeptNow DEF op
  <2>3. op[1] = "tombstone" => op[2] = "active" /\ Whole(dir, "active")
    BY <2>2, FirstPlace DEF KeptAt, op
  <2> QED BY <2>1, <2>2, <2>3
<1>13. ASSUME phase = "pass"
       PROVE  \A m \in Names :
                /\ Whole(dir, m) /\ ~Takes(op, m) => Whole(dir', m)
                /\ Makes(op, m) => Whole(dir', m)
                /\ Clears(op, m) => ~Present(dir', m)
                /\ Present(dir', m) => Present(dir, m) \/ Brings(op, m)
  BY <1>0, <1>1, <1>2, <1>12, <1>13, PassEffect DEF MarkersTypes
<1>14. LeavesNothing'
  <2> SUFFICES ASSUME phase = "pass", ~troubled
               PROVE  Doomed(Tail(plan)) \/ Empties(Tail(plan), dir', seen, todo)
    BY <1>1 DEF LeavesNothing
  <2>1. CASE Doomed(plan)
    BY <1>3, <1>4, <2>1, DoomSpliced DEF op
  <2>2. CASE Empties(plan, dir, seen, todo)
    BY <1>3, <1>4, <1>6, <1>13, <2>2, EmptiesSpliced DEF op
  <2> QED BY <1>0, <2>1, <2>2 DEF LeavesNothing
<1>15. ImageStays'
  <2> SUFFICES ASSUME phase = "pass" PROVE Kept(Tail(plan), dir')
    BY <1>1 DEF ImageStays
  <2>1. Kept(<<>>, dir')
    BY <1>6 DEF Kept
  <2>2. \A m \in Names : Whole(dir', m) => WholeAt(<<>>, dir', m, Len(<<>>) + 1)
    BY <1>6, FirstPlace
  <2>3. op[1] = "unlink" => ~Present(dir', op[2])
    BY <1>2, <1>13 DEF Clears
  <2>4. /\ \A n \in Names : Whole(dir, n) /\ ~Takes(op, n) => Doomed(<<>>) \/ WholeAt(<<>>, dir', n, Len(<<>>) + 1)
        /\ \A n \in Names : Makes(op, n) => Doomed(<<>>) \/ WholeAt(<<>>, dir', n, Len(<<>>) + 1)
    BY <1>13, <2>2
  <2> QED BY <1>2, <1>3, <1>4, <1>6, <1>12, <2>1, <2>3, <2>4, KeptSpliced DEF op
<1> QED BY <1>7, <1>8, <1>9, <1>10, <1>11, <1>14, <1>15 DEF MarkersInv

\* A step that changes nothing but the plan and its target.
LEMMA PlanChanges ==
  ASSUME MarkersInv, phase # "idle",
         UNCHANGED <<dir, markerDisk, helperProc, phase, seen, fresh, troubled, result, faults>>,
         todo' \subseteq todo, target' \in Names, plan' \in Seq(Ops),
         Shape(plan', target', phase), Named(plan', dir, helperProc),
         phase = "pass" /\ ~troubled => Doomed(plan') \/ Empties(plan', dir, seen, todo'),
         phase = "pass" => Kept(plan', dir) \/ (plan'[1][1] = "fail" /\ ~Whole(seen, target'))
  PROVE  MarkersInv'
<1>0. MarkersTypes /\ PlanShape /\ HelperNamed /\ Scanned /\ LeavesNothing /\ OkIsEmpty /\ ImageStays
  BY DEF MarkersInv
<1>1. MarkersTypes' /\ PlanShape'
  BY <1>0 DEF MarkersTypes, PlanShape
<1>2. HelperNamed'
  BY <1>0 DEF HelperNamed
<1>3. Scanned' /\ OkIsEmpty'
  BY <1>0 DEF Scanned, OkIsEmpty
<1>4. LeavesNothing'
  BY DEF LeavesNothing
<1>5. ImageStays'
  BY DEF ImageStays
<1> QED BY <1>1, <1>2, <1>3, <1>4, <1>5 DEF MarkersInv

\* A transaction goes into a part that fits where it stands.
LEMMA EnterPart ==
  ASSUME MarkersInv, Running, NEW x,
         plan[1][1] \in {"close", "backup", "publish", "close_pending"},
         UNCHANGED <<dir, markerDisk, helperProc, phase, seen, fresh, todo, troubled, result,
         faults>>,
         target' \in Names, plan' = x \o Tail(plan),
         \A i \in 2..Len(plan) : ShapeAt(plan, target', phase, i),
         PartFits(x, plan[1], dir, target', phase), Doomed(x) \/ PartClears(x, plan[1], dir),
         phase = "pass" => PartKeeps(x, plan[1], dir)
  PROVE  MarkersInv'
<1>0. MarkersTypes /\ PlanShape /\ HelperNamed /\ Scanned /\ LeavesNothing /\ OkIsEmpty /\ ImageStays
  BY DEF MarkersInv
<1> DEFINE op == plan[1]
<1>1. /\ plan # <<>> /\ plan \in Seq(Ops) /\ Len(plan) \in Nat \ {0} /\ op \in Ops /\ phase \in {"owner", "pass"}
      /\ \A i \in 1..Len(plan) : plan[i][2] \in Names /\ (plan[i][1] = "last_copy" => Twin(plan[i][2]) \in Names)
  BY <1>0, NextOp
<1>2. x \in Seq(Ops)
  BY DEF PartFits
<1> DEFINE q == x \o Tail(plan)
<1>3. q \in Seq(Ops) /\ Splice(plan, x, q)
  BY <1>1, <1>2, Spliced
<1>4. op[1] \notin Doom /\ op[1] \notin {"ok", "kill", "reap", "spawn", "prepare_marker", "unlink", "fail"}
  BY DEF Doom, Ends, Recoveries
<1>5. /\ \A i \in 1..Len(x) : ShapeAt(x, target', phase, i) /\ x[i][1] \notin {"ok", "close"}
      /\ \A i \in 1..Len(x) : ~Drops(x[i]) /\ x[i][3] # "discard" /\ x[i][1] # "spawn"
  BY DEF PartFits
<1>6. plan' = q
  OBVIOUS
<1> HIDE DEF op, q
<1>7. Shape(q, target', phase)
  BY <1>3, <1>5, ShapeSpliced
<1>8. Named(q, dir, helperProc)
  <2>1. Named(plan, dir, helperProc)
    BY <1>0 DEF HelperNamed
  <2>2. /\ op[1] \in {"kill", "reap"} => helperProc # "running"
        /\ helperProc = "running" => helperProc = "running" \/ op[1] = "spawn"
        /\ helperProc = "none" => helperProc = "none" \/ op[1] = "spawn"
        /\ op[1] = "prepare_marker" /\ op[2] = "active" => Len(x) = 0 /\ Present(dir, "active")
    BY <1>4
  <2> QED BY <1>3, <1>5, <2>1, <2>2, NamedSpliced DEF op
<1>9. ASSUME phase = "pass", ~troubled PROVE Doomed(q) \/ Empties(q, dir, seen, todo)
  <2>1. CASE Doomed(plan)
    BY <1>3, <1>4, <2>1, DoomSpliced DEF op
  <2>2. CASE Doomed(x)
    BY <1>3, <2>2, DoomSpliced
  <2>3. CASE Empties(plan, dir, seen, todo) /\ PartClears(x, op, dir)
    <3>1. /\ \A n \in Names : Clears(op, n) /\ Present(dir, n) => \E j \in 1..Len(x) : Clears(x[j], n)
          /\ \A i \in 1..Len(x) : \A n \in Names :
               Brings(x[i], n) => Brings(op, n) \/ \E j \in (i + 1)..Len(x) : Clears(x[j], n)
      BY <2>3 DEF PartClears
    <3>2. op[1] # "ok" /\ \A i \in 1..Len(x) : x[i][1] # "ok"
      BY <1>4, <1>5
    <3>3. \A n \in Names : Present(dir, n) => Present(dir, n) \/ Brings(op, n)
      OBVIOUS
    <3> QED BY <1>3, <2>3, <3>1, <3>2, <3>3, EmptiesSpliced DEF op
  <2> QED BY <1>0, <1>9, <2>1, <2>2, <2>3 DEF LeavesNothing, op
<1>10. ASSUME phase = "pass" PROVE Kept(q, dir)
  <2>1. Kept(plan, dir)
    BY <1>0, <1>1, <1>4, <1>10, KeptNow DEF op
  <2>2. Kept(x, dir) /\ \A n \in Names : (Whole(dir, n) /\ ~Takes(op, n)) \/ Makes(op, n) => Doomed(x) \/ WholeAt(x, dir, n, Len(x) + 1)
    BY <1>10 DEF PartKeeps, op
  <2>3. /\ \A n \in Names : Whole(dir, n) /\ ~Takes(op, n) => Doomed(x) \/ WholeAt(x, dir, n, Len(x) + 1)
        /\ \A n \in Names : Makes(op, n) => Doomed(x) \/ WholeAt(x, dir, n, Len(x) + 1)
    BY <2>2
  <2>4. op[1] = "unlink" => Len(x) = 0 /\ ~Present(dir, op[2])
    BY <1>4
  <2> QED BY <1>1, <1>3, <1>4, <2>1, <2>2, <2>3, <2>4, KeptSpliced DEF op
<1>11. todo' = todo /\ todo' \subseteq todo
  BY <1>0 DEF MarkersTypes
<1> QED BY <1>1, <1>3, <1>6, <1>7, <1>8, <1>9, <1>10, <1>11, PlanChanges

\* A plan that removes no marker and starts no helper.
LEMMA FreshIsNamed ==
  ASSUME NEW p, NEW t, NEW ph, FreshPlan(p, t, ph), NEW d, NEW h
  PROVE  p \in Seq(Ops) /\ Shape(p, t, ph) /\ Named(p, d, h)
  BY DEF FreshPlan, Named, NamedAt

\* A transaction goes into a part (unlink_cleaned_evidence and what it calls).
LEMMA EnterKeeps == ASSUME MarkersInv, Enter PROVE MarkersInv'
<1>0. MarkersTypes /\ PlanShape /\ HelperNamed /\ Scanned /\ LeavesNothing /\ OkIsEmpty /\ ImageStays
  BY DEF MarkersInv
<1> DEFINE op == plan[1]
<1>1. /\ Running /\ op[1] \in Expands /\ ~Refused(op[1], op[2])
      /\ plan' = Expansion(op[1], op[2]) \o (IF op[1] = "restore_twin" THEN <<>> ELSE Tail(plan))
      /\ target' = IF op[1] = "close" THEN op[2] ELSE target
      /\ UNCHANGED <<dir, markerDisk, helperProc, phase, seen, fresh, todo, troubled, result, faults>>
  BY <1>0, NextOp DEF Enter
<1>2. /\ Len(plan) \in Nat \ {0} /\ op[2] \in Names /\ ShapeAt(plan, target, phase, 1) /\ phase \in {"owner", "pass"}
      /\ target \in Names /\ todo \subseteq Names
  BY <1>0, <1>1, NextOp DEF MarkersTypes
<1>3. \A i \in 2..Len(plan) : ShapeAt(plan, target, phase, i)
  BY <1>0, <1>2, RestOfPlan
<1>4. ASSUME op[1] # "restore_twin", phase = "pass" PROVE KeptAt(plan, dir, 1)
  <2>1. op[1] # "fail"
    BY <1>1 DEF Expands
  <2> QED BY <1>0, <1>2, <1>4, <2>1, KeptNow
<1>5. ASSUME op[1] # "close" PROVE target' = target
  BY <1>1, <1>5
<1>6. op[1] \in OfCleaned => op[2] \in Cleaned
  BY <1>2 DEF ShapeAt
<1>7. "cleaned" \in Cleaned
  BY DEF Cleaned
<1>14. Running /\ UNCHANGED <<dir, markerDisk, helperProc, phase, seen, fresh, todo, troubled, result, faults>>
  BY <1>1
<1> HIDE DEF op
<1>8. CASE op[1] = "close"
  <2>1. op[2] \in Cleaned /\ Whole(dir, op[2]) /\ target' = op[2]
    BY <1>1, <1>6, <1>8 DEF OfCleaned, Refused
  <2>2. plan' = CloseEvidence(op[2]) \o Tail(plan)
    BY <1>1, <1>8 DEF Expansion
  <2>3. ASSUME NEW i \in 2..Len(plan) PROVE ShapeAt(plan, target', phase, i)
    <3>1. ShapeAt(plan, target, phase, i)
      BY <1>3
    <3>2. i \in (1 + 1)..Len(plan)
      OBVIOUS
    <3>3. plan[i][1] = "ok" /\ plan[i][3] = "err"
      BY <1>2, <1>8, <3>2 DEF ShapeAt, op
    <3> QED BY <3>1, <3>3 DEF ShapeAt, ToTarget, OfCleaned
  <2>4. /\ PartFits(CloseEvidence(op[2]), op, dir, op[2], phase) /\ PartClears(CloseEvidence(op[2]), op, dir)
        /\ PartKeeps(CloseEvidence(op[2]), op, dir)
    BY <1>8, <2>1, ClosePart
  <2>5. target' \in Names
    BY <1>2, <2>1
  <2>6. PICK x : x = CloseEvidence(op[2])
    OBVIOUS
  <2>7. /\ plan' = x \o Tail(plan) /\ PartFits(x, plan[1], dir, target', phase)
        /\ PartClears(x, plan[1], dir) /\ PartKeeps(x, plan[1], dir) /\ plan[1][1] = "close"
    BY <1>8, <2>1, <2>2, <2>4, <2>6 DEF op
  <2>8. /\ plan[1][1] \in {"close", "backup", "publish", "close_pending"}
        /\ Doomed(x) \/ PartClears(x, plan[1], dir)
        /\ phase = "pass" => PartKeeps(x, plan[1], dir)
        /\ \A i \in 2..Len(plan) : ShapeAt(plan, target', phase, i)
    BY <2>3, <2>7
  <2>9. plan' = x \o Tail(plan) /\ PartFits(x, plan[1], dir, target', phase)
    BY <2>7
  <2> QED BY <1>14, <2>5, <2>8, <2>9, EnterPart
<1>9. CASE op[1] = "backup"
  <2>1. op[2] \in Cleaned /\ target' = target
    BY <1>5, <1>6, <1>9 DEF OfCleaned
  <2>2. plan' = PrepareBackup(op[2]) \o Tail(plan)
    BY <1>1, <1>9 DEF Expansion
  <2>3. phase = "pass" => Whole(dir, op[2])
    BY <1>4, <1>9, FirstPlace DEF KeptAt, op
  <2>4. /\ PartFits(PrepareBackup(op[2]), op, dir, target, phase)
        /\ Doomed(PrepareBackup(op[2])) \/ PartClears(PrepareBackup(op[2]), op, dir)
        /\ phase = "pass" => PartKeeps(PrepareBackup(op[2]), op, dir)
    BY <1>9, <2>1, <2>3, BackupPart
  <2>6. PICK x : x = PrepareBackup(op[2])
    OBVIOUS
  <2>7. /\ plan' = x \o Tail(plan) /\ PartFits(x, plan[1], dir, target', phase)
        /\ Doomed(x) \/ PartClears(x, plan[1], dir)
        /\ phase = "pass" => PartKeeps(x, plan[1], dir)
        /\ plan[1][1] = "backup"
    BY <1>9, <2>1, <2>2, <2>4, <2>6 DEF op
  <2>8. target' \in Names /\ \A i \in 2..Len(plan) : ShapeAt(plan, target', phase, i)
    BY <1>2, <1>3, <2>1
  <2> QED BY <1>14, <2>7, <2>8, EnterPart
<1>10. CASE op[1] = "publish"
  <2>1. op[2] \in Cleaned /\ target' = target
    BY <1>5, <1>6, <1>10 DEF OfCleaned
  <2>2. plan' = PublishBackup(op[2]) \o Tail(plan)
    BY <1>1, <1>10 DEF Expansion
  <2>3. phase = "pass" => Whole(dir, op[2])
    BY <1>4, <1>10, FirstPlace DEF KeptAt, op
  <2>4. /\ PartFits(PublishBackup(op[2]), op, dir, target, phase)
        /\ Doomed(PublishBackup(op[2])) \/ PartClears(PublishBackup(op[2]), op, dir)
        /\ phase = "pass" => PartKeeps(PublishBackup(op[2]), op, dir)
    BY <1>10, <2>1, <2>3, PublishPart
  <2>6. PICK x : x = PublishBackup(op[2])
    OBVIOUS
  <2>7. /\ plan' = x \o Tail(plan) /\ PartFits(x, plan[1], dir, target', phase)
        /\ Doomed(x) \/ PartClears(x, plan[1], dir)
        /\ phase = "pass" => PartKeeps(x, plan[1], dir)
        /\ plan[1][1] = "publish"
    BY <1>10, <2>1, <2>2, <2>4, <2>6 DEF op
  <2>8. target' \in Names /\ \A i \in 2..Len(plan) : ShapeAt(plan, target', phase, i)
    BY <1>2, <1>3, <2>1
  <2> QED BY <1>14, <2>7, <2>8, EnterPart
<1>11. CASE op[1] = "close_pending"
  <2>1. target' = target
    BY <1>5, <1>11
  <2>2. plan' = ClosePending \o Tail(plan)
    BY <1>1, <1>11 DEF Expansion
  <2>3. phase = "pass" => Whole(dir, op[2]) /\ op[2] \in Cleaned
    BY <1>4, <1>11, FirstPlace DEF KeptAt, op
  <2>4. /\ PartFits(ClosePending, op, dir, target, phase)
        /\ Doomed(ClosePending) \/ PartClears(ClosePending, op, dir)
        /\ phase = "pass" => PartKeeps(ClosePending, op, dir)
    BY <1>7, <1>11, <2>3, ClosePendingPart
  <2>6. PICK x : x = ClosePending
    OBVIOUS
  <2>7. /\ plan' = x \o Tail(plan) /\ PartFits(x, plan[1], dir, target', phase)
        /\ Doomed(x) \/ PartClears(x, plan[1], dir)
        /\ phase = "pass" => PartKeeps(x, plan[1], dir)
        /\ plan[1][1] = "close_pending"
    BY <1>11, <2>1, <2>2, <2>4, <2>6 DEF op
  <2>8. target' \in Names /\ \A i \in 2..Len(plan) : ShapeAt(plan, target', phase, i)
    BY <1>2, <1>3, <2>1
  <2> QED BY <1>14, <2>7, <2>8, EnterPart
<1>12. CASE op[1] = "restore_twin"
  <2>1. op[2] \in Cleaned /\ op[2] = target /\ target' = target
    BY <1>2, <1>5, <1>12 DEF ShapeAt, OfCleaned, ToTarget, op
  <2>2. FailsWell(RestoreTwin(target), target, phase)
    BY <2>1, RestoreTwinPlan
  <2>3. /\ FreshPlan(RestoreTwin(target), target, phase) /\ Doomed(RestoreTwin(target))
        /\ Kept(RestoreTwin(target), dir) /\ RestoreTwin(target) \in Seq(Ops)
    BY <2>2 DEF FailsWell, FreshPlan
  <2>4. plan' = RestoreTwin(target) \o <<>>
    BY <1>1, <1>12, <2>1 DEF Expansion
  <2>5. plan' = RestoreTwin(target)
    BY <2>3, <2>4
  <2>6. Named(RestoreTwin(target), dir, helperProc) /\ Shape(RestoreTwin(target), target, phase)
    BY <2>3, FreshIsNamed
  <2> QED BY <1>1, <1>2, <2>1, <2>3, <2>5, <2>6, PlanChanges
<1> QED BY <1>1, <1>8, <1>9, <1>10, <1>11, <1>12 DEF Expands

\* Rewrite, which only the owner runs.
LEMMA RewritePlan ==
  ASSUME NEW t, NEW ph, ph # "pass"
  PROVE  FreshPlan(Rewrite, t, ph)
<1>1. PICK x : x = Rewrite
  OBVIOUS
<1>2. CASE Present(dir, "pending")
  <2>1. /\ Len(x) = 5 /\ x[1] = <<"unlink", "pending", "rewrite_marker">>
        /\ x[2] = <<"dsync", "pending", "rewrite_marker">> /\ x[3] = <<"truncate", "active", "end">>
        /\ x[4] = <<"write", "active", "end">> /\ x[5] = <<"fsync", "active", "end">>
    BY <1>1, <1>2 DEF Rewrite, Unlink, Op
  <2>2. x \in Seq(Ops)
    BY <1>1, <1>2 DEF Rewrite, Unlink, Op, Ops, OpNames, Works, PassWorks, OwnerWorks, Names,
       Elses
  <2>3. \A i \in 1..Len(x) : i = 1 \/ i = 2 \/ i = 3 \/ i = 4 \/ i = 5
    BY <2>1
  <2>4. \A i \in 1..Len(x) : /\ x[i][1] \in {"unlink", "dsync", "truncate", "write", "fsync"} /\ x[i][3] \in {"rewrite_marker", "end"}
                             /\ x[i][1] = "unlink" => x[i][2] = "pending"
    BY <2>1, <2>3
  <2>5. Shape(x, t, ph)
    BY <2>4 DEF Shape, ShapeAt, OfCleaned, ToTarget
  <2> QED BY <1>1, <2>2, <2>4, <2>5 DEF FreshPlan, Drops
<1>3. CASE ~Present(dir, "pending")
  <2>1. /\ Len(x) = 3 /\ x[1] = <<"truncate", "active", "end">>
        /\ x[2] = <<"write", "active", "end">> /\ x[3] = <<"fsync", "active", "end">>
    BY <1>1, <1>3 DEF Rewrite, Op
  <2>2. x \in Seq(Ops)
    BY <1>1, <1>3 DEF Rewrite, Op, Ops, OpNames, Works, PassWorks, OwnerWorks, Names, Elses
  <2>3. \A i \in 1..Len(x) : i = 1 \/ i = 2 \/ i = 3
    BY <2>1
  <2>4. \A i \in 1..Len(x) : x[i][1] \in {"truncate", "write", "fsync"} /\ x[i][3] = "end"
    BY <2>1, <2>3
  <2>5. Shape(x, t, ph)
    BY <2>4 DEF Shape, ShapeAt, OfCleaned, ToTarget
  <2> QED BY <1>1, <2>2, <2>4, <2>5 DEF FreshPlan, Drops
<1> QED BY <1>2, <1>3

\* A transaction that stops here and reports its failure, with an image in place.
LEMMA StopsHere ==
  ASSUME NEW n \in Names, target \in Names, phase = "pass" => \E m \in Names : Whole(dir, m)
  PROVE  LET p == <<Op("fail", n, "err")>> IN
         /\ p \in Seq(Ops) /\ Shape(p, target, phase) /\ Named(p, dir, helperProc) /\ Doomed(p)
         /\ phase = "pass" => Kept(p, dir)
<1>1. Handler("err", n) = <<Op("fail", n, "err")>>
  BY DEF Handler
<1>2. "err" \in Elses /\ "err" \in PassElses /\ "err" \notin ToTarget
  BY DEF Elses, PassElses, ToTarget
<1> QED BY <1>1, <1>2, HandlerPlan

\* A handler looks at what is left.
LEMMA RecoverKeeps == ASSUME MarkersInv, Recover PROVE MarkersInv'
<1>0. MarkersTypes /\ PlanShape /\ HelperNamed /\ Scanned /\ LeavesNothing /\ OkIsEmpty /\ ImageStays
  BY DEF MarkersInv
<1> DEFINE op == plan[1]
<1>1. /\ Running /\ op[1] \in Recoveries /\ plan' = Recovery(op[1], op[2])
      /\ UNCHANGED <<dir, markerDisk, helperProc, phase, seen, fresh, todo, target, troubled, result, faults>>
  BY <1>0, NextOp DEF Recover
<1>2. /\ Len(plan) \in Nat \ {0} /\ op[2] \in Names /\ ShapeAt(plan, target, phase, 1) /\ phase \in {"owner", "pass"}
      /\ target \in Names /\ todo \subseteq Names
  BY <1>0, <1>1, NextOp DEF MarkersTypes
<1>3. ASSUME phase = "pass" PROVE KeptAt(plan, dir, 1)
  <2>1. op[1] # "fail"
    BY <1>1 DEF Recoveries
  <2> QED BY <1>0, <1>2, <1>3, <2>1, KeptNow
<1>4. /\ UNCHANGED <<dir, markerDisk, helperProc, phase, seen, fresh, troubled, result, faults>>
      /\ todo' \subseteq todo /\ target' \in Names /\ target' = target /\ phase # "idle"
  BY <1>1, <1>2
<1>5. ASSUME NEW p, p = plan', p \in Seq(Ops), Shape(p, target, phase), Named(p, dir, helperProc),
             phase = "pass" => Doomed(p) /\ Kept(p, dir)
      PROVE  MarkersInv'
  BY <1>4, <1>5, PlanChanges
<1>6. ASSUME NEW t \in Cleaned, plan' = Restore(t), t = target
      PROVE  MarkersInv'
  <2>1. FailsWell(Restore(t), target, phase)
    BY <1>6, RestorePlan
  <2>2. FreshPlan(Restore(t), target, phase) /\ Doomed(Restore(t)) /\ Kept(Restore(t), dir)
    BY <2>1 DEF FailsWell
  <2>3. Restore(t) \in Seq(Ops) /\ Shape(Restore(t), target, phase) /\ Named(Restore(t), dir, helperProc)
    BY <2>2, FreshIsNamed
  <2> QED BY <1>5, <1>6, <2>2, <2>3
<1>7. ASSUME plan' = <<Op("fail", op[2], "err")>>, phase = "pass" => \E m \in Names : Whole(dir, m)
      PROVE  MarkersInv'
  <2>1. PICK p : p = <<Op("fail", op[2], "err")>>
    OBVIOUS
  <2>2. /\ p \in Seq(Ops) /\ Shape(p, target, phase) /\ Named(p, dir, helperProc) /\ Doomed(p)
        /\ phase = "pass" => Kept(p, dir)
    BY <1>2, <1>7, <2>1, StopsHere
  <2> QED BY <1>5, <1>7, <2>1, <2>2
<1> HIDE DEF op
<1>8. CASE op[1] = "rewrite"
  <2>1. phase # "pass" /\ plan' = Rewrite
    BY <1>1, <1>2, <1>8 DEF ShapeAt, Recovery, op
  <2>2. FreshPlan(Rewrite, target, phase)
    BY <2>1, RewritePlan
  <2>3. Rewrite \in Seq(Ops) /\ Shape(Rewrite, target, phase) /\ Named(Rewrite, dir, helperProc)
    BY <2>2, FreshIsNamed
  <2> QED BY <1>5, <2>1, <2>3
<1>9. CASE op[1] = "restore"
  <2>1. op[2] \in Cleaned /\ op[2] = target
    BY <1>2, <1>9 DEF ShapeAt, OfCleaned, ToTarget, op
  <2>2. plan' = IF Present(dir, op[2]) THEN <<Op("fail", op[2], "err")>> ELSE Restore(op[2])
    BY <1>1, <1>9 DEF Recovery
  <2>3. ASSUME phase = "pass" PROVE \E m \in Names : Whole(dir, m)
    <3>1. Lit(plan, dir, 1)
      BY <1>3, <1>9, <2>3 DEF KeptAt, Needs, op
    <3> QED BY <3>1, FirstPlace DEF Lit
  <2> QED BY <1>6, <1>7, <2>1, <2>2, <2>3
<1>10. CASE op[1] = "last_copy"
  <2>1. op[2] \in Cleaned /\ op[2] = target /\ Twin(op[2]) \in Names
    BY <1>2, <1>10, Twins DEF ShapeAt, OfCleaned, ToTarget, op
  <2>2. plan' = IF Present(dir, Twin(op[2])) THEN <<Op("fail", op[2], "err")>> ELSE Restore(op[2])
    BY <1>1, <1>10 DEF Recovery
  <2>3. ASSUME phase = "pass", Present(dir, Twin(op[2])) PROVE \E m \in Names : Whole(dir, m)
    <3>1. FirmAt(plan, dir, Twin(op[2]), 1)
      BY <1>3, <1>10, <2>3 DEF KeptAt, op
    <3> QED BY <2>1, <2>3, <3>1, FirstPlace DEF FirmAt
  <2> QED BY <1>6, <1>7, <2>1, <2>2, <2>3
<1>11. CASE op[1] = "put_back"
  <2>1. plan' = PutBack(op[2])
    BY <1>1, <1>11 DEF Recovery
  <2>2. ASSUME phase = "pass" PROVE Whole(dir, op[2]) \/ ~Present(dir, op[2])
    <3>1. FirmAt(plan, dir, op[2], 1)
      BY <1>3, <1>11, <2>2 DEF KeptAt, op
    <3> QED BY <3>1, FirstPlace DEF FirmAt
  <2>3. /\ FreshPlan(PutBack(op[2]), target, phase) /\ Doomed(PutBack(op[2]))
        /\ phase = "pass" => Kept(PutBack(op[2]), dir)
    BY <1>2, <2>2, PutBackPlan
  <2>4. PutBack(op[2]) \in Seq(Ops) /\ Shape(PutBack(op[2]), target, phase) /\ Named(PutBack(op[2]), dir, helperProc)
    BY <2>3, FreshIsNamed
  <2> QED BY <1>5, <2>1, <2>3, <2>4
<1> QED BY <1>1, <1>8, <1>9, <1>10, <1>11 DEF Recoveries

\* The next operation leads to the handler of its failure, in directory d, when the
\* image that stands is still whole there.
LEMMA LeadsOn ==
  ASSUME MarkersInv, Running, NEW d, NEW h, NEW p, p = Handler(plan[1][3], plan[1][2]), plan[1][1] \notin Ends,
         h = "running" => helperProc = "running",
         \A n \in Names : phase = "pass" /\ Whole(dir, n)
                          /\ (Takes(plan[1], n) => plan[1][1] = "tombstone" \/ plan[1][1] \in Expands)
                          => \E m \in Names : Whole(d, m),
         phase = "pass" /\ plan[1][1] \in {"unlink", "dsync"}
           /\ (Whole(dir, plan[1][2]) \/ ~Present(dir, plan[1][2]))
           => Whole(d, plan[1][2]) \/ ~Present(d, plan[1][2])
  PROVE  /\ p \in Seq(Ops) /\ Shape(p, target, phase) /\ Named(p, d, h)
         /\ phase = "pass" => Doomed(p) /\ Kept(p, d)
<1>0. MarkersTypes /\ PlanShape /\ HelperNamed /\ ImageStays
  BY DEF MarkersInv
<1> DEFINE op == plan[1]
<1>1. /\ Len(plan) \in Nat \ {0} /\ op[2] \in Names /\ op[3] \in Elses /\ target \in Names
      /\ ShapeAt(plan, target, phase, 1) /\ NamedAt(plan, dir, helperProc, 1)
  BY <1>0, NextOp DEF MarkersTypes
<1>2. op[3] \in ToTarget => target \in Cleaned
  BY <1>1 DEF ShapeAt
<1>3. phase = "pass" => op[3] \in PassElses
  BY <1>1 DEF ShapeAt
<1>4. op[3] = "discard" => h # "running"
  BY <1>1 DEF NamedAt
<1>5. /\ p \in Seq(Ops) /\ Shape(p, target, phase) /\ Named(p, d, h)
      /\ op[3] \in PassElses => Doomed(p)
      /\ /\ op[3] \in PassElses
         /\ op[3] \in {"err", "restore"} => \E m \in Names : Whole(d, m)
         /\ op[3] = "put_back" => Whole(d, op[2]) \/ ~Present(d, op[2])
         /\ op[3] = "last_copy" => Whole(d, Twin(target)) \/ ~Present(d, Twin(target))
         => Kept(p, d)
  BY <1>1, <1>2, <1>3, <1>4, HandlerPlan
<1>6. ASSUME phase = "pass" PROVE Kept(p, d)
  <2>1. op[1] # "fail" /\ op[1] \notin Ends
    BY DEF Ends
  <2>2. KeptAt(plan, dir, 1)
    BY <1>0, <1>1, <1>6, <2>1, KeptNow
  <2>3. ASSUME op[3] \in {"err", "restore"} PROVE \E m \in Names : Whole(d, m)
    <3>1. Lit(plan, dir, 1)
      BY <2>1, <2>2, <2>3 DEF KeptAt, Needs
    <3>2. PICK n \in Names : WholeAt(plan, dir, n, 1) /\ (Takes(op, n) => op[1] = "tombstone" \/ op[1] \in Expands)
      BY <3>1 DEF Lit
    <3>3. Whole(dir, n)
      BY <3>2, FirstPlace
    <3> QED BY <1>6, <3>2, <3>3
  <2>4. ASSUME op[3] \in {"put_back", "last_copy"} PROVE Whole(d, op[2]) \/ ~Present(d, op[2])
    <3>1. FirmAt(plan, dir, op[2], 1)
      BY <2>2, <2>4 DEF KeptAt
    <3>2. Whole(dir, op[2]) \/ ~Present(dir, op[2])
      BY <3>1, FirstPlace DEF FirmAt
    <3>3. op[1] \in {"unlink", "dsync"}
      BY <1>1, <2>4 DEF ShapeAt
    <3> QED BY <1>6, <3>2, <3>3
  <2>5. op[3] = "last_copy" => op[2] = Twin(target)
    BY <1>1 DEF ShapeAt
  <2> QED BY <1>3, <1>5, <1>6, <2>3, <2>4, <2>5
<1> QED BY <1>3, <1>5, <1>6

\* A call is refused by what the directory holds.
LEMMA RefuseKeeps == ASSUME MarkersInv, Refuse PROVE MarkersInv'
<1>0. MarkersTypes /\ PlanShape /\ HelperNamed /\ Scanned /\ LeavesNothing /\ OkIsEmpty /\ ImageStays
  BY DEF MarkersInv
<1>1. /\ Running /\ Refused(plan[1][1], plan[1][2])
      /\ UNCHANGED <<dir, markerDisk, helperProc, phase, seen, fresh, todo, target, troubled, result, faults>>
  BY <1>0, NextOp DEF Refuse
<1>2. PICK p : p = Handler(plan[1][3], plan[1][2])
  OBVIOUS
<1>3. plan' = p
  BY <1>0, <1>1, <1>2, NextOp DEF Refuse
<1>4. plan[1][1] \notin Ends
  BY <1>1 DEF Refused, Ends
<1>5. /\ p \in Seq(Ops) /\ Shape(p, target, phase) /\ Named(p, dir, helperProc)
      /\ phase = "pass" => Doomed(p) /\ Kept(p, dir)
  BY <1>1, <1>2, <1>4, LeadsOn
<1>6. phase # "idle" /\ todo' \subseteq todo /\ target' \in Names /\ target' = target
  BY <1>0, <1>1, NextOp DEF MarkersTypes
<1> QED BY <1>1, <1>3, <1>5, <1>6, PlanChanges

\* What a failed operation may have done to the directory.
LEMMA HalfDoneFacts ==
  ASSUME dir \in Dirs, NEW op \in Ops, op[1] \in Works, ~Refused(op[1], op[2]), NEW d2,
         d2 = HalfDone(op[1], op[2])
  PROVE  /\ d2 \in Dirs /\ (op[1] = "dsync" => d2 = dir)
         /\ Present(dir, "active") /\ ~Drops(op) => Present(d2, "active")
         /\ op[1] \in PassWorks /\ (op[1] = "tombstone" => op[2] = "active" /\ Whole(dir, "active"))
              =>   /\ \A n \in Names : Whole(dir, n) /\ (Takes(op, n) => op[1] = "tombstone")
                                         => \E m \in Names : Whole(d2, m)
                   /\ op[1] \in {"unlink", "dsync"} /\ (Whole(dir, op[2]) \/ ~Present(dir, op[2]))
                        => Whole(d2, op[2]) \/ ~Present(d2, op[2])
<1>0. op[2] \in Names
  BY DEF Ops
<1>1. CASE op[1] \in {"write", "prepare_marker"}
  <2>1. d2 = [dir EXCEPT ![op[2]] = "part"]
    BY <1>1 DEF HalfDone
  <2>2. d2 \in Dirs
    BY <1>0, <2>1 DEF Dirs, Contents
  <2>3. Present(dir, "active") => Present(d2, "active")
    BY <1>0, <2>1, Twins DEF Dirs, Present
  <2>4. \A n \in Names : op[1] = "write" /\ Whole(dir, n) /\ ~Takes(op, n) => Whole(d2, n)
    BY <1>0, <2>1 DEF Dirs, Takes, Whole
  <2>5. op[1] \in PassWorks => op[1] = "write"
    BY <1>1 DEF PassWorks
  <2> QED BY <1>1, <2>2, <2>3, <2>4, <2>5
<1>2. CASE op[1] \notin {"write", "prepare_marker"}
  <2>1. d2 = Effect(op[1], op[2])
    BY <1>2 DEF HalfDone
  <2>2. /\ d2 \in Dirs /\ (op[1] = "dsync" => d2 = dir)
        /\ Present(dir, "active") /\ ~Drops(op) => Present(d2, "active")
    BY <2>1, EffectFacts
  <2>3. ASSUME op[1] \in PassWorks, op[1] = "tombstone" => op[2] = "active" /\ Whole(dir, "active")
        PROVE  /\ \A n \in Names : Whole(dir, n) /\ (Takes(op, n) => op[1] = "tombstone")
                                     => \E m \in Names : Whole(d2, m)
               /\ op[1] \in {"unlink", "dsync"} /\ (Whole(dir, op[2]) \/ ~Present(dir, op[2]))
                    => Whole(d2, op[2]) \/ ~Present(d2, op[2])
    <3>1. \A m \in Names : /\ Whole(dir, m) /\ ~Takes(op, m) => Whole(d2, m)
                           /\ Makes(op, m) => Whole(d2, m)
                           /\ Clears(op, m) => ~Present(d2, m)
      BY <2>1, <2>3, PassEffect
    <3>2. op[1] = "tombstone" => Makes(op, "cleaned") /\ "cleaned" \in Names
      BY DEF Makes, Names, Cleaned
    <3>3. op[1] = "unlink" => ~Present(d2, op[2])
      BY <1>0, <3>1 DEF Clears
    <3> QED BY <2>2, <3>1, <3>2, <3>3
  <2> QED BY <2>2, <2>3
<1> QED BY <1>1, <1>2

\* A call fails, before or after it did its work.
LEMMA FailKeeps == ASSUME MarkersInv, Fail PROVE MarkersInv'
<1>0. MarkersTypes /\ PlanShape /\ HelperNamed /\ Scanned /\ LeavesNothing /\ OkIsEmpty /\ ImageStays
  BY DEF MarkersInv
<1> DEFINE op == plan[1]
           half == HalfDone(op[1], op[2])
<1>1. /\ Running /\ op[1] \notin Expands \cup Recoveries \cup Ends /\ ~Refused(op[1], op[2])
      /\ faults < MaxFaults /\ faults' = faults + 1
      /\ \/ UNCHANGED <<dir, markerDisk, helperProc>>
         \/ dir' = half /\ markerDisk' = OnDisk(op[1], op[2], dir') /\ UNCHANGED helperProc
         \/ helperProc' = "gone" /\ UNCHANGED <<dir, markerDisk>>
      /\ fresh' = fresh \cup {m \in Names : dir'[m] # dir[m]}
      /\ UNCHANGED <<phase, seen, todo, target, troubled, result>>
  BY <1>0, NextOp DEF Fail
<1>2. PICK p : p = Handler(op[3], op[2])
  OBVIOUS
<1>3. plan' = p
  BY <1>0, <1>1, <1>2, NextOp DEF Fail
<1>4. /\ Len(plan) \in Nat \ {0} /\ op \in Ops /\ op[1] \in OpNames /\ op[2] \in Names
      /\ ShapeAt(plan, target, phase, 1) /\ NamedAt(plan, dir, helperProc, 1) /\ phase \in {"owner", "pass"}
  BY <1>0, <1>1, NextOp
<1>5. op[1] \in Works /\ op[1] \notin Ends /\ op[1] \notin Expands
  BY <1>1, <1>4 DEF OpNames
<1>6. PICK d2 : d2 = half
  OBVIOUS
<1>7. dir \in Dirs
  BY <1>0 DEF MarkersTypes
<1>8. /\ d2 \in Dirs /\ (op[1] = "dsync" => d2 = dir)
      /\ Present(dir, "active") /\ ~Drops(op) => Present(d2, "active")
  BY <1>1, <1>4, <1>5, <1>6, <1>7, HalfDoneFacts
<1>9. ASSUME phase = "pass"
      PROVE  /\ \A n \in Names : Whole(dir, n) /\ (Takes(op, n) => op[1] = "tombstone")
                                   => \E m \in Names : Whole(d2, m)
             /\ op[1] \in {"unlink", "dsync"} /\ (Whole(dir, op[2]) \/ ~Present(dir, op[2]))
                  => Whole(d2, op[2]) \/ ~Present(d2, op[2])
  <2>1. op[1] \in PassWorks
    BY <1>4, <1>5, <1>9 DEF ShapeAt, Works
  <2>2. op[1] # "fail"
    BY <1>5 DEF Ends
  <2>3. KeptAt(plan, dir, 1)
    BY <1>0, <1>4, <1>9, <2>2, KeptNow
  <2>4. op[1] = "tombstone" => op[2] = "active" /\ Whole(dir, "active")
    BY <2>3, FirstPlace DEF KeptAt
  <2> QED BY <1>1, <1>4, <1>5, <1>6, <1>7, <2>1, <2>4, HalfDoneFacts
<1>10. dir' = dir \/ dir' = d2
  BY <1>1, <1>6
<1>11. helperProc' = "running" => helperProc = "running"
  BY <1>1
<1> HIDE DEF op, half
<1>12. /\ p \in Seq(Ops) /\ Shape(p, target, phase) /\ Named(p, dir', helperProc')
       /\ phase = "pass" => Doomed(p) /\ Kept(p, dir')
  <2>1. ASSUME NEW n \in Names, phase = "pass", Whole(dir, n), Takes(op, n) => op[1] = "tombstone" \/ op[1] \in Expands
        PROVE  \E m \in Names : Whole(dir', m)
    BY <1>5, <1>9, <1>10, <2>1
  <2>2. phase = "pass" /\ op[1] \in {"unlink", "dsync"} /\ (Whole(dir, op[2]) \/ ~Present(dir, op[2]))
          => Whole(dir', op[2]) \/ ~Present(dir', op[2])
    BY <1>9, <1>10
  <2>3. PICK d : d = dir'
    OBVIOUS
  <2>4. PICK h : h = helperProc'
    OBVIOUS
  <2>5. /\ p \in Seq(Ops) /\ Shape(p, target, phase) /\ Named(p, d, h)
        /\ phase = "pass" => Doomed(p) /\ Kept(p, d)
    BY <1>1, <1>2, <1>5, <1>11, <2>1, <2>2, <2>3, <2>4, LeadsOn DEF op
  <2> QED BY <2>3, <2>4, <2>5
<1>13. MarkersTypes'
  <2>1. dir' \in Dirs /\ markerDisk' \subseteq Dirs /\ dir' \in markerDisk'
    <3>1. CASE UNCHANGED <<dir, markerDisk>>
      BY <1>0, <3>1 DEF MarkersTypes
    <3>2. CASE dir' = half /\ markerDisk' = OnDisk(op[1], op[2], dir')
      BY <1>0, <1>4, <1>6, <1>8, <3>2, DiskType DEF MarkersTypes
    <3> QED BY <1>1, <3>1, <3>2
  <2>2. helperProc' \in {"none", "running", "gone"}
    BY <1>0, <1>1 DEF MarkersTypes
  <2>3. faults' \in 0..MaxFaults
    BY <1>0, <1>1, MarkersAssumption DEF MarkersTypes
  <2> QED BY <1>0, <1>1, <1>3, <1>12, <2>1, <2>2, <2>3 DEF MarkersTypes
<1>14. PlanShape'
  BY <1>1, <1>3, <1>4, <1>12 DEF PlanShape
<1>15. HelperNamed'
  <2>1. ASSUME helperProc' = "running" PROVE Present(dir', "active")
    <3>1. Present(dir, "active") /\ helperProc = "running"
      BY <1>0, <1>11, <2>1 DEF HelperNamed
    <3>2. ~Drops(op)
      BY <1>4, <3>1 DEF NamedAt, op
    <3> QED BY <1>8, <1>10, <3>1, <3>2
  <2> QED BY <1>3, <1>12, <2>1 DEF HelperNamed
<1>16. Scanned'
  <2>1. \A m \in Names : m \notin fresh' => m \notin fresh /\ dir'[m] = dir[m]
    BY <1>1
  <2> QED BY <1>0, <1>1, <2>1 DEF Scanned
<1>17. OkIsEmpty'
  BY <1>0, <1>1, <1>4 DEF OkIsEmpty
<1>18. LeavesNothing' /\ ImageStays'
  BY <1>1, <1>3, <1>12 DEF LeavesNothing, ImageStays
<1> QED BY <1>13, <1>14, <1>15, <1>16, <1>17, <1>18 DEF MarkersInv

\* The empty plan.
LEMMA NoPlan ==
  /\ <<>> \in Seq(Ops) /\ \A i \in 1..Len(<<>>) : FALSE
  /\ \A t, ph, d, h : Shape(<<>>, t, ph) /\ Named(<<>>, d, h)
  /\ ~Doomed(<<>>) /\ \A d : Kept(<<>>, d)
<1>1. <<>> \in Seq(Ops) /\ \A i \in 1..Len(<<>>) : FALSE
  OBVIOUS
<1> QED BY <1>1 DEF Shape, Named, Doomed, Kept

\* A step after which nothing runs and no pass is under way.
LEMMA Idles ==
  ASSUME MarkersTypes', phase' = "idle", plan' = <<>>, helperProc' = "running" => Present(dir', "active"), OkIsEmpty'
  PROVE  MarkersInv'
<1>1. PlanShape' /\ HelperNamed'
  BY NoPlan DEF PlanShape, HelperNamed
<1>2. Scanned' /\ LeavesNothing' /\ ImageStays'
  BY DEF Scanned, LeavesNothing, ImageStays
<1> QED BY <1>1, <1>2 DEF MarkersInv

\* The owner's plan leaves the marker before it starts the helper.
LEMMA InitKeeps == ASSUME MarkersInit PROVE MarkersInv
<1>1. PICK x : x = OwnerPlan
  OBVIOUS
<1>2. /\ Len(x) = 7 /\ x[1] = <<"prepare_marker", "active", "discard">> /\ x[2] = <<"spawn", "active", "discard">>
      /\ x[3] = <<"create", "pending", "rewrite">> /\ x[4] = <<"write", "pending", "rewrite">>
      /\ x[5] = <<"fsync", "pending", "rewrite">> /\ x[6] = <<"rename", "pending", "rewrite">>
      /\ x[7] = <<"dsync", "active", "rewrite">>
  BY <1>1 DEF OwnerPlan, WriteNew, Sync, Op
<1>3. x \in Seq(Ops)
  BY <1>1 DEF OwnerPlan, WriteNew, Sync, Op, Ops, OpNames, Works, PassWorks, OwnerWorks, Names,
     Elses
<1>4. \A i \in 1..Len(x) : i = 1 \/ i = 2 \/ i = 3 \/ i = 4 \/ i = 5 \/ i = 6 \/ i = 7
  BY <1>2
<1>5. \A i \in 1..Len(x) : /\ x[i][1] \in {"prepare_marker", "spawn", "create", "write", "fsync", "rename", "dsync"}
                           /\ x[i][3] \in {"discard", "rewrite"}
                           /\ x[i][1] = "spawn" => i = 2
                           /\ x[i][3] = "discard" => i = 1 \/ i = 2
  BY <1>2, <1>4
<1>6. plan = x
  BY <1>1 DEF MarkersInit
<1>7. MarkersTypes
  <2>1. Empty \in Dirs
    BY DEF Empty, Dirs, Contents
  <2>2. faults \in 0..MaxFaults
    BY MarkersAssumption DEF MarkersInit
  <2>3. "active" \in Names
    BY Twins
  <2> QED BY <1>3, <1>6, <2>1, <2>2, <2>3 DEF MarkersInit, MarkersTypes
<1>8. PlanShape
  <2>1. Shape(x, target, phase)
    BY <1>5 DEF Shape, ShapeAt, OfCleaned, ToTarget, MarkersInit
  <2> QED BY <1>6, <2>1 DEF PlanShape, MarkersInit
<1>9. HelperNamed
  <2>1. \A j \in 1..(2 - 1) : x[j][1] = "prepare_marker" /\ x[j][2] = "active"
    BY <1>2
  <2>2. x[2][1] = "spawn" /\ helperProc = "none"
    BY <1>2 DEF MarkersInit
  <2>3. ASSUME NEW i \in 1..Len(x) PROVE NamedAt(x, dir, helperProc, i)
    <3>1. ~Drops(x[i])
      BY <1>5 DEF Drops
    <3> QED BY <1>5, <2>1, <2>2, <3>1 DEF NamedAt
  <2> QED BY <1>6, <2>2, <2>3 DEF HelperNamed, Named
<1>10. Scanned /\ LeavesNothing /\ OkIsEmpty /\ ImageStays
  BY DEF Scanned, LeavesNothing, OkIsEmpty, ImageStays, MarkersInit
<1> QED BY <1>7, <1>8, <1>9, <1>10 DEF MarkersInv

\* A transaction reports; only an ok without trouble is owed an empty directory.
LEMMA TransactionEndsKeeps == ASSUME MarkersInv, TransactionEnds PROVE MarkersInv'
<1>0. MarkersTypes /\ PlanShape /\ HelperNamed /\ Scanned /\ LeavesNothing /\ OkIsEmpty /\ ImageStays
  BY DEF MarkersInv
<1> DEFINE op == plan[1]
<1>1. /\ Running /\ op[1] \in Ends /\ plan' = <<>>
      /\ troubled' = (troubled \/ op[1] \in {"fail", "stale"})
      /\ phase' = IF op[1] = "abort" THEN "idle" ELSE phase
      /\ result' = IF op[1] = "abort" THEN "abort" ELSE result
      /\ todo' = IF op[1] = "ok" THEN todo \ {op[2]} ELSE IF op[1] = "abort" THEN {} ELSE todo
      /\ UNCHANGED <<dir, markerDisk, helperProc, seen, fresh, target, faults>>
  BY <1>0, NextOp DEF TransactionEnds
<1>2. Len(plan) \in Nat \ {0} /\ ShapeAt(plan, target, phase, 1) /\ phase \in {"owner", "pass"}
  BY <1>0, <1>1, NextOp
<1> HIDE DEF op
<1>3. /\ todo' \subseteq todo /\ phase' \in {"owner", "idle", "pass"} /\ troubled' \in BOOLEAN
      /\ result' \in {"none", "ok", "err", "abort"}
  BY <1>0, <1>1 DEF MarkersTypes
<1>4. MarkersTypes'
  BY <1>0, <1>1, <1>3, NoPlan DEF MarkersTypes
<1>5. helperProc' = "running" => Present(dir', "active")
  BY <1>0, <1>1 DEF HelperNamed
<1>6. OkIsEmpty'
  BY <1>0, <1>1, <1>2 DEF OkIsEmpty
<1>7. CASE op[1] = "abort"
  BY <1>1, <1>4, <1>5, <1>6, <1>7, Idles
<1>8. CASE op[1] # "abort"
  <2>1. PlanShape' /\ HelperNamed'
    BY <1>1, <1>2, <1>5, NoPlan DEF PlanShape, HelperNamed
  <2>2. Scanned'
    BY <1>0, <1>1, <1>3, <1>8 DEF Scanned
  <2>3. ImageStays'
    BY <1>1, NoPlan DEF ImageStays
  <2>4. LeavesNothing'
    <3> SUFFICES ASSUME phase = "pass", ~troubled, op[1] \notin {"fail", "stale"}
                 PROVE  Empties(<<>>, dir, seen, todo')
      BY <1>1, <1>8 DEF LeavesNothing
    <3>1. op[1] = "ok"
      BY <1>1, <1>2, <1>8 DEF Ends, ShapeAt, op
    <3>2. Len(plan) = 1
      BY <1>2, <3>1 DEF ShapeAt, op
    <3>3. \A i \in 1..Len(plan) : plan[i] = op
      BY <3>2 DEF op
    <3>4. ~Doomed(plan)
      BY <3>1, <3>3 DEF Doomed, Doom, Recoveries
    <3>5. AllCleared(plan, dir, todo) /\ TwinsTogether(plan, seen, todo)
      BY <1>0, <3>4 DEF LeavesNothing, Empties
    <3>6. 1 \in 1..Len(plan) /\ \A n : Excuses(op, n) <=> n = op[2]
      BY <3>1, <3>2 DEF Excuses
    <3>7. \A n : ~Clears(op, n)
      BY <3>1 DEF Clears
    <3>8. todo' = todo \ {op[2]}
      BY <1>1, <3>1
    <3>9. ASSUME NEW n \in Names, Present(dir, n) PROVE n \in todo'
      BY <3>3, <3>5, <3>6, <3>7, <3>8, <3>9 DEF AllCleared
    <3>10. AllCleared(<<>>, dir, todo')
      BY <3>9, NoPlan DEF AllCleared
    <3>11. NothingAdded(<<>>)
      BY NoPlan DEF NothingAdded
    <3>12. ASSUME NEW n \in Cleaned, n \in todo', Whole(seen, Twin(n)) PROVE Twin(n) \in todo'
      <4>1. ~ \E i \in 1..Len(plan) : Excuses(plan[i], n)
        BY <3>3, <3>6, <3>8, <3>12
      <4>2. Twin(n) \in todo /\ ~ \E i \in 1..Len(plan) : Excuses(plan[i], Twin(n))
        BY <3>5, <3>8, <3>12, <4>1 DEF TwinsTogether
      <4>3. Twin(n) # op[2]
        BY <3>3, <3>6, <4>2
      <4> QED BY <3>8, <4>2, <4>3
    <3>13. TwinsTogether(<<>>, seen, todo')
      BY <3>12, NoPlan DEF TwinsTogether
    <3> QED BY <3>10, <3>11, <3>13 DEF Empties
  <2> QED BY <1>4, <1>6, <2>1, <2>2, <2>3, <2>4 DEF MarkersInv
<1> QED BY <1>7, <1>8

\* The owner reaps its helper before it removes the marker, if it does.
LEMMA OwnerEndsKeeps == ASSUME MarkersInv, OwnerEnds PROVE MarkersInv'
<1>0. MarkersTypes /\ PlanShape /\ HelperNamed /\ Scanned /\ LeavesNothing /\ OkIsEmpty /\ ImageStays
  BY DEF MarkersInv
<1>3. CASE plan' = OwnerReap /\ UNCHANGED phase
  <2>1. PICK x : x = OwnerReap
    OBVIOUS
  <2>2. Len(x) = 1 /\ x[1] = <<"reap", "active", "end">>
    BY <2>1 DEF OwnerReap, Op
  <2>3. x \in Seq(Ops)
    BY <2>1 DEF OwnerReap, Op, Ops, OpNames, Works, PassWorks, OwnerWorks, Names, Elses
  <2>4. \A i \in 1..Len(x) : x[i][1] = "reap" /\ x[i][3] = "end"
    BY <2>2
  <2>5. phase = "owner" /\ phase # "pass"
    BY DEF OwnerEnds
  <2>6. Shape(x, target, phase)
    BY <2>4, <2>5 DEF Shape, ShapeAt, OfCleaned, ToTarget
  <2>7. Named(x, dir, helperProc)
    BY <2>4 DEF Named, NamedAt, Drops
  <2>8. /\ UNCHANGED <<dir, markerDisk, helperProc, phase, seen, fresh, troubled, result, faults>>
        /\ todo' \subseteq todo /\ target' \in Names /\ target' = target
    BY <1>0, <1>3 DEF OwnerEnds, MarkersTypes
  <2> QED BY <1>3, <2>1, <2>3, <2>5, <2>6, <2>7, <2>8, PlanChanges
<1>1. CASE plan' = OwnerFinish /\ UNCHANGED phase
  <2>1. PICK x : x = OwnerFinish
    OBVIOUS
  <2>2. /\ Len(x) = 3 /\ x[1] = <<"reap", "active", "end">> /\ x[2] = <<"unlink", "active", "end">>
        /\ x[3] = <<"dsync", "active", "end">>
    BY <2>1 DEF OwnerFinish, Unlink, Op
  <2>3. x \in Seq(Ops)
    BY <2>1 DEF OwnerFinish, Unlink, Op, Ops, OpNames, Works, PassWorks, OwnerWorks, Names, Elses
  <2>4. \A i \in 1..Len(x) : /\ x[i][1] \in {"reap", "unlink", "dsync"} /\ x[i][3] = "end"
                             /\ x[i][1] = "unlink" => i = 2
    BY <2>2
  <2>5. phase = "owner" /\ phase # "pass"
    BY DEF OwnerEnds
  <2>6. Shape(x, target, phase)
    BY <2>4, <2>5 DEF Shape, ShapeAt, OfCleaned, ToTarget
  <2>7. Named(x, dir, helperProc)
    <3>1. \A i \in 1..Len(x) : Drops(x[i]) => i = 2
      BY <2>4 DEF Drops
    <3>2. 1 \in 1..(2 - 1) /\ x[1][1] = "reap"
      BY <2>2
    <3> QED BY <2>4, <3>1, <3>2 DEF Named, NamedAt
  <2>8. /\ UNCHANGED <<dir, markerDisk, helperProc, phase, seen, fresh, troubled, result, faults>>
        /\ todo' \subseteq todo /\ target' \in Names /\ target' = target
    BY <1>0, <1>1 DEF OwnerEnds, MarkersTypes
  <2> QED BY <1>1, <2>1, <2>3, <2>5, <2>6, <2>7, <2>8, PlanChanges
<1>2. CASE phase' = "idle" /\ UNCHANGED plan
  <2>1. plan' = <<>>
    BY <1>2 DEF OwnerEnds, Running
  <2>2. UNCHANGED <<dir, markerDisk, helperProc, seen, fresh, todo, target, troubled, result, faults>>
    BY DEF OwnerEnds
  <2>3. MarkersTypes' /\ OkIsEmpty'
    BY <1>0, <1>2, <2>2 DEF MarkersTypes, OkIsEmpty
  <2>4. helperProc' = "running" => Present(dir', "active")
    BY <1>0, <2>2 DEF HelperNamed
  <2> QED BY <1>2, <2>1, <2>3, <2>4, Idles
<1> QED BY <1>1, <1>2, <1>3 DEF OwnerEnds

\* A process that dies leaves the directory as it is.
LEMMA ProcessDiesKeeps == ASSUME MarkersInv, ProcessDies PROVE MarkersInv'
<1>0. MarkersTypes /\ HelperNamed
  BY DEF MarkersInv
<1>1. faults' \in 0..MaxFaults
  BY <1>0, MarkersAssumption DEF ProcessDies, MarkersTypes
<1>2. MarkersTypes'
  BY <1>0, <1>1, NoPlan DEF ProcessDies, MarkersTypes
<1>3. OkIsEmpty' /\ (helperProc' = "running" => Present(dir', "active"))
  BY <1>0 DEF ProcessDies, OkIsEmpty, HelperNamed
<1> QED BY <1>2, <1>3, Idles DEF ProcessDies

\* A machine that stops takes the helper with it.
LEMMA MachineStopsKeeps == ASSUME MarkersInv, MachineStops PROVE MarkersInv'
<1>0. MarkersTypes
  BY DEF MarkersInv
<1>1. faults' \in 0..MaxFaults
  BY <1>0, MarkersAssumption DEF MachineStops, MarkersTypes
<1>2. dir' \in Dirs /\ markerDisk' = {dir'}
  <2>1. PICK d \in markerDisk : \E torn \in SUBSET {n \in Names : d[n] = "soft"} :
               dir' = [n \in Names |-> IF n \in torn THEN "part" ELSE IF d[n] = "soft" THEN "full" ELSE d[n]]
    BY DEF MachineStops
  <2>2. d \in Dirs
    BY <1>0 DEF MarkersTypes
  <2>3. dir' \in Dirs
    BY <2>1, <2>2 DEF Dirs, Contents
  <2> QED BY <2>3 DEF MachineStops
<1>3. helperProc' \in {"none", "gone"}
  BY <1>0 DEF MachineStops, MarkersTypes
<1>4. MarkersTypes'
  BY <1>0, <1>1, <1>2, <1>3, NoPlan DEF MachineStops, MarkersTypes
<1>5. OkIsEmpty' /\ (helperProc' = "running" => Present(dir', "active"))
  BY <1>3 DEF MachineStops, OkIsEmpty
<1> QED BY <1>4, <1>5, Idles DEF MachineStops

\* A helper that exits by itself.
LEMMA HelperExitsKeeps == ASSUME MarkersInv, HelperExits PROVE MarkersInv'
<1>0. MarkersTypes /\ PlanShape /\ HelperNamed /\ Scanned /\ LeavesNothing /\ OkIsEmpty /\ ImageStays
  BY DEF MarkersInv
<1>1. /\ helperProc = "running" /\ helperProc' = "gone"
      /\ UNCHANGED <<dir, markerDisk, phase, seen, fresh, todo, plan, target, troubled, result, faults>>
  BY DEF HelperExits
<1>2. MarkersTypes'
  BY <1>0, <1>1 DEF MarkersTypes
<1>3. PlanShape' /\ Scanned' /\ LeavesNothing' /\ OkIsEmpty' /\ ImageStays'
  BY <1>0, <1>1 DEF PlanShape, Scanned, LeavesNothing, OkIsEmpty, ImageStays
<1>4. Named(plan, dir, "gone")
  <2>1. Named(plan, dir, "running")
    BY <1>0, <1>1 DEF HelperNamed
  <2>2. ASSUME NEW i \in 1..Len(plan) PROVE NamedAt(plan, dir, "gone", i)
    <3>1. NamedAt(plan, dir, "running", i)
      BY <2>1 DEF Named
    <3> QED BY <3>1 DEF NamedAt
  <2> QED BY <2>2 DEF Named
<1>5. HelperNamed'
  BY <1>1, <1>4 DEF HelperNamed
<1> QED BY <1>2, <1>3, <1>5 DEF MarkersInv

\* A pass that is refused its root has scanned nothing.
LEMMA RootRefusedKeeps == ASSUME MarkersInv, RootRefused PROVE MarkersInv'
<1>0. MarkersTypes /\ PlanShape /\ HelperNamed
  BY DEF MarkersInv
<1>1. faults' \in 0..MaxFaults
  BY <1>0, MarkersAssumption DEF RootRefused, MarkersTypes
<1>2. MarkersTypes'
  BY <1>0, <1>1 DEF RootRefused, MarkersTypes
<1>3. OkIsEmpty' /\ (helperProc' = "running" => Present(dir', "active")) /\ phase' = "idle" /\ plan' = <<>>
  BY <1>0 DEF RootRefused, OkIsEmpty, HelperNamed, PlanShape
<1> QED BY <1>2, <1>3, Idles

\* A pass lists all there is, or is in trouble from the start.
LEMMA ScanKeeps == ASSUME MarkersInv, Scan PROVE MarkersInv'
<1>0. MarkersTypes /\ PlanShape /\ HelperNamed
  BY DEF MarkersInv
<1>1. /\ phase = "idle" /\ phase' = "pass" /\ seen' = dir /\ fresh' = {} /\ todo' = Listed /\ result' = "none"
      /\ troubled' = (Present(dir, "active") /\ ~Whole(dir, "active")) /\ plan = <<>> /\ plan' = <<>>
      /\ UNCHANGED <<dir, markerDisk, helperProc, target, faults>>
  BY <1>0 DEF Scan, PlanShape
<1>2. Listed \subseteq Names /\ \A n \in Names : n \in Listed <=> Present(dir, n) /\ (n = "active" => Whole(dir, n))
  BY DEF Listed
<1>3. MarkersTypes'
  BY <1>0, <1>1, <1>2 DEF MarkersTypes
<1>4. PlanShape' /\ HelperNamed'
  BY <1>0, <1>1, NoPlan DEF PlanShape, HelperNamed
<1>5. Scanned' /\ OkIsEmpty' /\ ImageStays'
  BY <1>1, <1>2, NoPlan, Twins DEF Scanned, OkIsEmpty, ImageStays
<1>6. LeavesNothing'
  <2> SUFFICES ASSUME ~(Present(dir, "active") /\ ~Whole(dir, "active")) PROVE Empties(<<>>, dir, dir, Listed)
    BY <1>1 DEF LeavesNothing
  <2>1. AllCleared(<<>>, dir, Listed)
    BY <1>2, NoPlan DEF AllCleared
  <2>2. NothingAdded(<<>>)
    BY NoPlan DEF NothingAdded
  <2>3. \A n \in Cleaned : Whole(dir, Twin(n)) => Twin(n) \in Listed
    <3>1. \A n \in Names : Whole(dir, n) => n \in Listed
      BY <1>2 DEF Whole, Present
    <3> QED BY <3>1, Twins
  <2>4. TwinsTogether(<<>>, dir, Listed)
    BY <2>3, NoPlan DEF TwinsTogether
  <2> QED BY <2>1, <2>2, <2>4 DEF Empties
<1> QED BY <1>3, <1>4, <1>5, <1>6 DEF MarkersInv

\* The pass begins a transaction that begins well.
LEMMA PassBeginsKeeps ==
  ASSUME MarkersInv, NEW n \in Names, NEW x, PassBegins(n, x), ~Stale(n) => BeginsWell(x, n)
  PROVE  MarkersInv'
<1>0. MarkersTypes /\ PlanShape /\ LeavesNothing
  BY DEF MarkersInv
<1>1. /\ phase = "pass" /\ plan = <<>> /\ n \in todo /\ target' = n /\ todo' = todo \ {n}
      /\ UNCHANGED <<dir, markerDisk, helperProc, phase, seen, fresh, troubled, result, faults>>
  BY DEF PassBegins, Running
<1>2. PICK p : p = plan'
  OBVIOUS
<1>3. BeginsWell(p, n)
  <2>1. CASE Stale(n)
    BY <1>2, <2>1, StalePlan DEF PassBegins
  <2>2. CASE ~Stale(n)
    BY <1>2, <2>2 DEF PassBegins
  <2> QED BY <2>1, <2>2
<1>4. ~troubled => Empties(<<>>, dir, seen, todo)
  BY <1>0, <1>1, NoPlan DEF LeavesNothing
<1>5. /\ p \in Seq(Ops) /\ Shape(p, n, phase) /\ Named(p, dir, helperProc)
      /\ ~troubled => Doomed(p) \/ Empties(p, dir, seen, todo \ {n})
      /\ Kept(p, dir) \/ (p[1][1] = "fail" /\ ~Whole(seen, n))
  BY <1>1, <1>3, <1>4 DEF BeginsWell
<1>6. /\ plan' \in Seq(Ops) /\ Shape(plan', target', phase) /\ Named(plan', dir, helperProc)
      /\ ~troubled => Doomed(plan') \/ Empties(plan', dir, seen, todo')
      /\ Kept(plan', dir) \/ (plan'[1][1] = "fail" /\ ~Whole(seen, target'))
  BY <1>1, <1>2, <1>5
<1>7. todo' \subseteq todo /\ target' \in Names
  BY <1>1
<1> QED BY <1>1, <1>6, <1>7, PlanChanges

\* The entry it begins on is the one that was scanned.
LEMMA AsScanned ==
  ASSUME MarkersInv, NEW n \in Names, NEW x, PassBegins(n, x), ~Stale(n)
  PROVE  dir[n] = seen[n] /\ todo \subseteq Names /\ (n = "active" => Whole(dir, n))
  BY DEF MarkersInv, MarkersTypes, Scanned, PassBegins, Stale, Whole

\* The entries of a pass: marker, tombstones, pending files.
LEMMA HandleKeeps ==
  ASSUME MarkersInv
  PROVE  /\ HandleActive => MarkersInv'
         /\ \A n \in Cleaned : HandleCleaned(n) => MarkersInv'
         /\ \A n \in {"pending"} \cup Aliases : HandlePending(n) => MarkersInv'
<1>1. ASSUME HandleActive PROVE MarkersInv'
  <2>1. PassBegins("active", ActiveRemoval) /\ "active" \in Names
    BY <1>1, Twins DEF HandleActive
  <2>2. ~Stale("active") => BeginsWell(ActiveRemoval, "active")
    BY <2>1, AsScanned, ActivePlan
  <2> QED BY <2>1, <2>2, PassBeginsKeeps
<1>2. ASSUME NEW n \in Cleaned, HandleCleaned(n) PROVE MarkersInv'
  <2>1. PassBegins(n, CleanedRemoval(n)) /\ n \in Names /\ Whole(seen, n)
    BY <1>2, Twins DEF HandleCleaned
  <2>2. ASSUME ~Stale(n) PROVE BeginsWell(CleanedRemoval(n), n)
    <3>1. dir[n] = seen[n] /\ todo \subseteq Names
      BY <2>1, <2>2, AsScanned
    <3>2. Whole(dir, n)
      BY <2>1, <3>1 DEF Whole
    <3> QED BY <3>1, <3>2, CleanedPlan
  <2> QED BY <2>1, <2>2, PassBeginsKeeps
<1>3. ASSUME NEW n \in {"pending"} \cup Aliases, HandlePending(n) PROVE MarkersInv'
  <2>1. PassBegins(n, PendingRemoval(n)) /\ n \in Names
    BY <1>3, Twins DEF HandlePending
  <2>2. ~Stale(n) => BeginsWell(PendingRemoval(n), n)
    BY <2>1, AsScanned, PendingPlan
  <2> QED BY <2>1, <2>2, PassBeginsKeeps
<1> QED BY <1>1, <1>2, <1>3

\* A damaged tombstone whose twin was not handled before it is trouble.
LEMMA HandleDamagedKeeps ==
  ASSUME MarkersInv, NEW n \in Cleaned, HandleDamaged(n)
  PROVE  MarkersInv'
<1>0. MarkersTypes /\ PlanShape /\ HelperNamed /\ Scanned /\ LeavesNothing /\ OkIsEmpty /\ ImageStays
  BY DEF MarkersInv
<1>1. /\ phase = "pass" /\ plan = <<>> /\ plan' = <<>> /\ n \in todo /\ todo' = todo \ {n} /\ target' = n
      /\ Twin(n) \in todo => ~Whole(seen, Twin(n))
      /\ troubled' = (troubled \/ ~Whole(seen, Twin(n)))
      /\ UNCHANGED <<dir, markerDisk, helperProc, phase, seen, fresh, result, faults>>
  BY DEF HandleDamaged, Running
<1>2. MarkersTypes'
  BY <1>0, <1>1, Twins DEF MarkersTypes
<1>3. PlanShape' /\ HelperNamed'
  BY <1>0, <1>1, NoPlan DEF PlanShape, HelperNamed
<1>4. Scanned' /\ OkIsEmpty' /\ ImageStays'
  BY <1>0, <1>1, NoPlan DEF Scanned, OkIsEmpty, ImageStays
<1>5. LeavesNothing'
  <2>1. ~troubled => TwinsTogether(<<>>, seen, todo)
    BY <1>0, <1>1, NoPlan DEF LeavesNothing, Empties
  <2>2. ~troubled => ~Whole(seen, Twin(n))
    BY <1>1, <2>1, NoPlan DEF TwinsTogether
  <2> QED BY <1>1, <2>2 DEF LeavesNothing
<1> QED BY <1>2, <1>3, <1>4, <1>5 DEF MarkersInv

\* A pass without trouble that has nothing left to do has left nothing.
LEMMA PassEndsKeeps == ASSUME MarkersInv, PassEnds PROVE MarkersInv'
<1>0. MarkersTypes /\ PlanShape /\ HelperNamed /\ Scanned /\ LeavesNothing /\ OkIsEmpty /\ ImageStays
  BY DEF MarkersInv
<1>1. /\ phase = "pass" /\ plan = <<>> /\ plan' = <<>> /\ todo = {} /\ phase' = "idle"
      /\ \/ markerDisk' = {dir} /\ result' = (IF troubled THEN "err" ELSE "ok") /\ UNCHANGED faults
         \/ faults < MaxFaults /\ faults' = faults + 1 /\ result' = "err" /\ UNCHANGED markerDisk
      /\ UNCHANGED <<dir, helperProc, seen, fresh, todo, target, troubled>>
  BY DEF PassEnds, Running
<1>2. faults' \in 0..MaxFaults
  BY <1>0, <1>1, MarkersAssumption DEF MarkersTypes
<1>3. MarkersTypes'
  BY <1>0, <1>1, <1>2 DEF MarkersTypes
<1>4. ASSUME ~troubled PROVE dir = Empty
  <2>1. AllCleared(<<>>, dir, todo)
    BY <1>0, <1>1, <1>4, NoPlan DEF LeavesNothing, Empties
  <2>2. \A n \in Names : dir[n] = "absent"
    BY <1>1, <2>1, NoPlan DEF AllCleared, Present
  <2>3. dir = [n \in Names |-> dir[n]]
    BY <1>0 DEF MarkersTypes, Dirs
  <2> QED BY <2>2, <2>3 DEF Empty
<1>5. OkIsEmpty'
  BY <1>1, <1>4 DEF OkIsEmpty
<1>6. helperProc' = "running" => Present(dir', "active")
  BY <1>0, <1>1 DEF HelperNamed
<1> QED BY <1>1, <1>3, <1>5, <1>6, Idles

\* The owner leaves a marker before it starts its helper, an entry of a pass is
\* removed only when the helper is gone and a second image is durable, and a pass
\* that has met no trouble clears what it scanned and what it wrote.
THEOREM MarkersStayConsistent == MarkersSpec => []MarkersInv
<1>1. ASSUME MarkersInv, [MarkersNext]_markersVars PROVE MarkersInv'
  <2>1. CASE UNCHANGED markersVars
    <3>1. UNCHANGED <<dir, markerDisk, helperProc, phase, seen, fresh, todo, plan, target, troubled, result, faults>>
      BY <2>1 DEF markersVars
    <3>2. MarkersTypes' /\ PlanShape' /\ HelperNamed'
      BY <1>1, <3>1 DEF MarkersInv, MarkersTypes, PlanShape, HelperNamed
    <3>3. Scanned' /\ LeavesNothing' /\ OkIsEmpty' /\ ImageStays'
      BY <1>1, <3>1 DEF MarkersInv, Scanned, LeavesNothing, OkIsEmpty, ImageStays
    <3> QED BY <3>2, <3>3 DEF MarkersInv
  <2>2. CASE Work
    BY <1>1, <2>2, StepKeeps, EnterKeeps, RecoverKeeps, RefuseKeeps, TransactionEndsKeeps,
       OwnerEndsKeeps,
       ScanKeeps, PassEndsKeeps, HandleKeeps, HandleDamagedKeeps DEF Work
  <2> QED BY <1>1, <2>1, <2>2, FailKeeps, RootRefusedKeeps, ProcessDiesKeeps, MachineStopsKeeps, HelperExitsKeeps
          DEF MarkersNext
<1> QED BY <1>1, InitKeeps, PTL DEF MarkersSpec

\* CleanupIsHonest: what a pass reports, and what it leaves behind, is what is there.
THEOREM CleanupStaysHonest == MarkersSpec => []CleanupIsHonest
<1>1. ASSUME MarkersInv PROVE CleanupIsHonest
  <2>0. MarkersTypes /\ PlanShape /\ HelperNamed /\ Scanned /\ LeavesNothing /\ OkIsEmpty /\ ImageStays
    BY <1>1 DEF MarkersInv
  <2>1. MarkersTypeOK
    BY <2>0 DEF MarkersTypes, MarkersTypeOK, Dirs, Contents
  <2>2. CleanReportIsTrue
    <3>1. dir = Empty => ~Present(dir, "active")
      BY Twins DEF Empty, Present
    <3> QED BY <2>0, <3>1 DEF OkIsEmpty, HelperNamed, CleanReportIsTrue
  <2>3. HelperIsTraceable
    BY <2>0, Twins DEF HelperNamed, HelperIsTraceable
  <2>4. FailureIsVisible
    <3> SUFFICES ASSUME phase = "pass", Running, PassAt[1] = "fail", Whole(seen, target)
                 PROVE  \E n \in Names : Whole(dir, n)
      BY DEF FailureIsVisible
    <3>1. Len(plan) \in Nat \ {0} /\ plan[1][1] = "fail"
      BY <2>0, NextOp
    <3>2. KeptAt(plan, dir, 1)
      BY <2>0, <3>1, KeptNow
    <3>3. Lit(plan, dir, 1)
      BY <3>1, <3>2 DEF KeptAt, Needs
    <3> QED BY <3>3, FirstPlace DEF Lit
  <2> QED BY <2>1, <2>2, <2>3, <2>4 DEF CleanupIsHonest
<1> QED BY <1>1, MarkersStayConsistent, PTL
=============================================================================
