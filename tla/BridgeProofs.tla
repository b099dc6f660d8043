----------------------------- MODULE BridgeProofs -----------------------------
(***************************************************************************)
(* Proofs about the runtime bridge, for every number of callers, spawns    *)
(* and exit attempts: an exit is reported clean only when every sidecar    *)
(* was reaped by its owner or never had one, whatever a failed stop left   *)
(* behind can still be cleaned up, and the actor never owns two sidecars   *)
(* nor misses the end of a worker.                                         *)
(*                                                                         *)
(* The invariant behind all of it is that one owner at most exists, in one *)
(* place: the actor's starting, pending or running slot before the actor   *)
(* has left, the quarantine or the hand of one retrying caller after it.   *)
(* A leader or a worker that runs is that owner's, and once the actor      *)
(* has left, an owner means a debt on record.                              *)
(***************************************************************************)
EXTENDS Bridge, FiniteSetTheorems, TLAPS

StartPcs == {"attach", "failed", "install", "handshake", "verified", "publish"}
LoopPcs == {"top", "exit", "terminal", "command", "stop", "components", "finish", "answer"}
GonePcs == {"marked", "ended"}
EndPcs == {"final", "leave"} \cup GonePcs
CallerPcs == {"idle", "attempt", "hook", "send", "await", "gate", "owed", "retire",
              "repaid", "promote", "verdict", "returned"}
WorkerPcs == {"none", "running", "faulting", "ending", "cleared", "done"}

-----------------------------------------------------------------------------
(* The invariant, by the state it speaks of.                               *)

\* The actor's own state; where it goes after a stop is decided before the stop.
ActorOK ==
  /\ apc \in LoopPcs \cup EndPcs \cup StartPcs
  /\ ret \in {"top", "reply", "command", "final", "start"}
  /\ apc = "stop" => ret \in {"top", "reply", "final"}
  /\ stopOk \in BOOLEAN /\ supOk \in BOOLEAN /\ finished \in BOOLEAN /\ gone \in BOOLEAN
  /\ completed \in BOOLEAN /\ done \in BOOLEAN /\ recovery \in BOOLEAN /\ unwritten \in BOOLEAN
  /\ sawCancel \in BOOLEAN
  /\ done => apc = "ended"

\* Spawns and generations are numbered in order, and a start has a number left.
NumbersOK ==
  /\ spawns \in 0..MaxSpawns /\ nextGen \in 1..(spawns + 1)
  /\ apc \in StartPcs \ {"publish"} => nextGen <= spawns
  /\ gen \in [Spawns -> 1..MaxSpawns]
  /\ current \in Generations /\ slot \in Generations /\ detached \in Generations
  /\ sessionClosed \subseteq Spawns /\ hook \in Owners

\* A request in the lane, a stop it asked for and an actor that ends imply an exit
\* attempt, so that only retries of an ended actor add attempts to the first one.
AttemptsOK ==
  /\ attempt \in 0..MaxAttempts /\ expired \subseteq 1..MaxAttempts
  /\ retry \in [Callers -> BOOLEAN] /\ mine \in [Callers -> 0..MaxAttempts]
  /\ attempt + Cardinality({c \in Callers : cpc[c] = "attempt" /\ retry[c]}) <= MaxAttempts
  /\ attempt = 0 =>
       /\ apc \notin EndPcs \cup {"answer"} /\ ret \notin {"reply", "final"} /\ lane = {}
       /\ \A c \in Callers : cpc[c] \in {"idle", "attempt"} /\ ~retry[c]

\* The shutdown lane holds one request.
LaneOK ==
  /\ lane = {} \/ \E c \in Callers : lane = {c}
  /\ serving \subseteq Callers
  /\ reply \in [Callers -> {"none", "ok", "err", "dropped"}]

\* Drop comes alone and last, and it returns clean or leaves the marker.
CallersOK ==
  /\ cpc \in [Callers -> CallerPcs]
  /\ result \in [Callers -> {"none", "ok", "failed", "unavailable"}]
  /\ cpc[Dropper] # "idle" => \A c \in Callers \ {Dropper} : cpc[c] \in {"idle", "returned"}
  /\ cpc[Dropper] = "returned" => recovery \/ unwritten \/ result[Dropper] = "ok"

\* An owner is in one place.
OwnersOK ==
  /\ starting \in Owners /\ runtime \in Owners /\ pending \in Owners
  /\ quarantine \in Owners /\ hand \in [Callers -> Owners]
  /\ starting # None <=> apc \in StartPcs
  /\ starting # None => starting = spawns /\ runtime = None /\ pending = None
  /\ runtime = None \/ pending = None
  /\ apc \in {"components", "finish"} => runtime # None
  /\ finished => apc \in EndPcs /\ runtime = None /\ pending = None
  /\ apc \in GonePcs => runtime = None /\ pending = None
  /\ apc \notin GonePcs => quarantine = None
  /\ \A c \in Callers : hand[c] # None <=> cpc[c] = "retire"
  /\ \A c \in Callers : hand[c] # None => apc \in GonePcs /\ quarantine = None
  /\ \A c, d \in Callers : hand[c] # None /\ hand[d] # None => c = d

\* A sidecar whose leader may run has an owner, and a stop that went well has reaped it.
TreesOK ==
  /\ torn \subseteq Spawns /\ released \subseteq Spawns
  /\ Guarded \subseteq Held
  /\ apc = "finish" /\ supOk => runtime \notin Guarded

\* A worker that runs has an owner; an owner that was never published has none.
WorkersOK ==
  /\ dpc \in [Spawns -> WorkerPcs]
  /\ \A s \in Spawns : dpc[s] \notin {"none", "done"} => s \in Held
  /\ \A s \in Spawns : s > spawns => dpc[s] = "none"
  /\ pending # None => dpc[pending] = "none"
  /\ starting # None /\ apc # "publish" => dpc[starting] = "none"
  /\ \A s \in Spawns :
       (s \in {runtime, starting} /\ current = gen[s] /\ dpc[s] \in {"ending", "cleared", "done"}) => slot = gen[s]

\* A debt has an owner, and an owner that outlived the actor has a debt.
DebtsOK ==
  /\ fault \in Generations
  /\ fault # 0 => \E s \in Held \ {None} : gen[s] = fault
  /\ starting # None => fault = 0
  /\ apc \in GonePcs /\ fault = 0 => Held = {None}
  /\ \A c \in Callers : result[c] = "ok" => apc = "ended" /\ fault = 0

BridgeInv ==
  /\ ActorOK /\ NumbersOK /\ AttemptsOK /\ LaneOK /\ CallersOK
  /\ OwnersOK /\ TreesOK /\ WorkersOK /\ DebtsOK

-----------------------------------------------------------------------------
(* Steps that leave every owner where it is.                               *)

\* The actor moves, and no owner, tree, worker or debt with it.
LEMMA ActorMoves ==
  ASSUME BridgeInv,
         UNCHANGED <<owners, quarantine, fault, supOk, callers, trees, dpc>>,
         apc' \in StartPcs <=> apc \in StartPcs,
         apc' \in GonePcs <=> apc \in GonePcs,
         apc = "ended" => apc' = "ended",
         apc' = "publish" <=> apc = "publish",
         apc' # "finish", apc' = "components" => runtime # None,
         finished' => apc' \in EndPcs /\ runtime = None /\ pending = None,
         UNCHANGED signals \/ current' = 0
  PROVE  OwnersOK' /\ TreesOK' /\ WorkersOK' /\ DebtsOK'
<1>1. Held' = Held
  BY DEF Held, owners, callers
<1>2. OwnersOK'
  BY DEF BridgeInv, OwnersOK, owners, callers
<1>3. TreesOK'
  BY <1>1 DEF BridgeInv, TreesOK, Guarded, trees, owners
<1>4. WorkersOK'
  <2>1. \A s \in Spawns : gen[s] # 0
    BY DEF BridgeInv, NumbersOK
  <2>2. \A s \in Spawns :
          (s \in {runtime, starting} /\ current = gen[s] /\ dpc[s] \in {"ending", "cleared", "done"} => slot = gen[s])'
    BY <2>1 DEF BridgeInv, WorkersOK, owners, signals
  <2> QED BY <1>1, <2>2 DEF BridgeInv, WorkersOK, owners, OwnersOK
<1>5. DebtsOK'
  BY <1>1 DEF BridgeInv, DebtsOK, owners, callers
<1> QED BY <1>2, <1>3, <1>4, <1>5

\* A caller moves on with empty hands.
LEMMA CallerMoves ==
  ASSUME BridgeInv, NEW c \in Callers, NEW label \in CallerPcs \ {"retire"},
         cpc[c] # "retire", Goto(c, label),
         UNCHANGED <<apc, finished, supOk, owners, signals, quarantine, fault, hand, trees, dpc>>
  PROVE  /\ OwnersOK' /\ TreesOK' /\ WorkersOK'
         /\ Held' = Held
         /\ cpc' \in [Callers -> CallerPcs] /\ cpc'[c] = label
         /\ \A d \in Callers \ {c} : cpc'[d] = cpc[d]
<1>1. Held' = Held
  BY DEF Held, owners
<1>2. /\ cpc' \in [Callers -> CallerPcs] /\ cpc'[c] = label
      /\ \A d \in Callers \ {c} : cpc'[d] = cpc[d]
  BY DEF Goto, BridgeInv, CallersOK
<1>3. OwnersOK'
  BY <1>2 DEF BridgeInv, OwnersOK, owners
<1>4. TreesOK'
  BY <1>1 DEF BridgeInv, TreesOK, Guarded, trees, owners
<1>5. WorkersOK'
  BY <1>1 DEF BridgeInv, WorkersOK, owners, signals
<1> QED BY <1>1, <1>2, <1>3, <1>4, <1>5

\* The callers about to begin a numbered attempt are finitely many, and no more of
\* them are left when some caller moves on or stays.
LEMMA RetryingShrinks ==
  ASSUME AttemptsOK, cpc' \in [Callers -> CallerPcs],
         \A d \in Callers : cpc'[d] = "attempt" /\ retry'[d] => cpc[d] = "attempt" /\ retry[d]
  PROVE  /\ Cardinality({d \in Callers : cpc'[d] = "attempt" /\ retry'[d]}) \in Nat
         /\ Cardinality({d \in Callers : cpc[d] = "attempt" /\ retry[d]}) \in Nat
         /\ Cardinality({d \in Callers : cpc'[d] = "attempt" /\ retry'[d]})
              <= Cardinality({d \in Callers : cpc[d] = "attempt" /\ retry[d]})
<1> DEFINE now == {d \in Callers : cpc[d] = "attempt" /\ retry[d]}
           next == {d \in Callers : cpc'[d] = "attempt" /\ retry'[d]}
<1>1. IsFiniteSet(now) /\ IsFiniteSet(next)
  BY FS_Subset, CallersAssumption
<1>2. next \subseteq now
  OBVIOUS
<1> QED BY <1>1, <1>2, FS_Subset, FS_CardinalityType

\* The attempts are unchanged by a step that leaves the callers alone.
LEMMA AttemptsStay ==
  ASSUME BridgeInv, UNCHANGED <<attempt, expired, retry, mine, cpc>>,
         attempt = 0 => apc' \notin EndPcs \cup {"answer"} /\ ret' \notin {"reply", "final"} /\ lane' = {}
  PROVE  AttemptsOK'
BY DEF BridgeInv, AttemptsOK

\* The moves of the actor that leave every owner where it is.
LEMMA ActorMoveStep ==
  ASSUME BridgeInv,
         \/ TakeRequest \/ NoRequest \/ Answer \/ ExitCheck \/ TerminalCheck \/ Command
         \/ StopLate \/ StopNothing \/ StopRuntime \/ Final \/ MarkDone \/ DropReceivers
         \/ AttachRead \/ AttachInstall \/ Handshake
  PROVE  BridgeInv'
<1> USE DEF LoopPcs, StartPcs, GonePcs, EndPcs
<1>1. CASE TakeRequest
  <2>1. ActorOK'
    BY <1>1 DEF BridgeInv, ActorOK, TakeRequest, exitLedger, record, exitControl
  <2>2. NumbersOK'
    BY <1>1 DEF BridgeInv, NumbersOK, TakeRequest, owners, signals, exitControl
  <2>3. AttemptsOK'
    BY <1>1, AttemptsStay DEF BridgeInv, AttemptsOK, TakeRequest, exitControl, callers
  <2>4. LaneOK' /\ CallersOK'
    BY <1>1 DEF BridgeInv, LaneOK, CallersOK, TakeRequest, exitLedger, record, callers
  <2>5. OwnersOK' /\ TreesOK' /\ WorkersOK' /\ DebtsOK'
    BY <1>1, ActorMoves DEF BridgeInv, OwnersOK, TakeRequest, owners, signals, exitLedger, record,
       exitControl, callers
  <2> QED BY <2>1, <2>2, <2>3, <2>4, <2>5 DEF BridgeInv
<1>2. CASE NoRequest
  <2>1. ActorOK'
    BY <1>2 DEF BridgeInv, ActorOK, NoRequest, actor, exitLedger, record, exitControl
  <2>2. NumbersOK'
    BY <1>2 DEF BridgeInv, NumbersOK, NoRequest, owners, signals, exitControl
  <2>3. AttemptsOK'
    BY <1>2, AttemptsStay DEF BridgeInv, AttemptsOK, NoRequest, exitControl, channel, callers
  <2>4. LaneOK' /\ CallersOK'
    BY <1>2 DEF BridgeInv, LaneOK, CallersOK, NoRequest, actor, exitLedger, record, channel,
       callers
  <2>5. OwnersOK' /\ TreesOK' /\ WorkersOK' /\ DebtsOK'
    BY <1>2, ActorMoves DEF BridgeInv, OwnersOK, NoRequest, actor, owners, signals, exitLedger,
       record,
       exitControl, channel, callers
  <2> QED BY <2>1, <2>2, <2>3, <2>4, <2>5 DEF BridgeInv
<1>3. CASE Answer
  <2>1. ActorOK'
    BY <1>3 DEF BridgeInv, record, ActorOK, Answer, exitControl
  <2>2. NumbersOK'
    BY <1>3 DEF BridgeInv, NumbersOK, Answer, owners, signals, exitControl
  <2>3. AttemptsOK'
    BY <1>3, AttemptsStay DEF BridgeInv, AttemptsOK, Answer, exitControl, callers
  <2>4. LaneOK' /\ CallersOK'
    BY <1>3 DEF BridgeInv, record, LaneOK, CallersOK, Answer, callers
  <2>5. OwnersOK' /\ TreesOK' /\ WorkersOK' /\ DebtsOK'
    BY <1>3, ActorMoves DEF BridgeInv, OwnersOK, Answer, owners, signals, exitControl, callers,
       Confirmed
  <2> QED BY <2>1, <2>2, <2>3, <2>4, <2>5 DEF BridgeInv
<1>4. CASE ExitCheck
  <2>1. ActorOK'
    BY <1>4, ZenonT(60) DEF BridgeInv, record, ActorOK, ExitCheck, exitControl
  <2>2. NumbersOK'
    BY <1>4 DEF BridgeInv, NumbersOK, ExitCheck, owners, signals, exitControl
  <2>3. AttemptsOK'
    BY <1>4, AttemptsStay DEF BridgeInv, AttemptsOK, ExitCheck, exitControl, channel, callers,
       Cancelled, Late
  <2>4. LaneOK' /\ CallersOK'
    BY <1>4 DEF BridgeInv, record, LaneOK, CallersOK, ExitCheck, channel, callers
  <2>5. OwnersOK' /\ TreesOK' /\ WorkersOK' /\ DebtsOK'
    BY <1>4, ActorMoves DEF BridgeInv, OwnersOK, ExitCheck, owners, signals, exitControl,
       channel, callers, Confirmed
  <2> QED BY <2>1, <2>2, <2>3, <2>4, <2>5 DEF BridgeInv
<1>5. CASE TerminalCheck
  <2>1. ActorOK'
    BY <1>5 DEF BridgeInv, ActorOK, TerminalCheck, actor, exitLedger, record, exitControl,
       TakesFault
  <2>2. NumbersOK'
    BY <1>5, BoundsAssumption DEF BridgeInv, NumbersOK, Generations, TerminalCheck, owners,
       signals, exitControl, TakesFault
  <2>3. AttemptsOK'
    BY <1>5, AttemptsStay DEF BridgeInv, AttemptsOK, TerminalCheck, exitControl, channel,
       callers, TakesFault
  <2>4. LaneOK' /\ CallersOK'
    BY <1>5 DEF BridgeInv, LaneOK, CallersOK, TerminalCheck, actor, exitLedger, record, channel,
       callers,
       TakesFault
  <2>5. OwnersOK' /\ TreesOK' /\ WorkersOK' /\ DebtsOK'
    BY <1>5, ActorMoves DEF BridgeInv, OwnersOK, TerminalCheck, actor, owners, signals,
       exitLedger, record, exitControl, channel, callers, TakesFault
  <2> QED BY <2>1, <2>2, <2>3, <2>4, <2>5 DEF BridgeInv
<1>6. CASE Command
  <2>1. ActorOK'
    BY <1>6 DEF BridgeInv, ActorOK, Command, actor, exitLedger, record, exitControl
  <2>2. NumbersOK'
    BY <1>6 DEF BridgeInv, NumbersOK, Command, owners, signals, exitControl
  <2>3. AttemptsOK'
    BY <1>6, AttemptsStay, CallersAssumption DEF BridgeInv, AttemptsOK, Command, exitControl,
       channel, callers
  <2>4. LaneOK' /\ CallersOK'
    BY <1>6 DEF BridgeInv, LaneOK, CallersOK, Command, actor, exitLedger, record, channel, callers
  <2>5. OwnersOK' /\ TreesOK' /\ WorkersOK' /\ DebtsOK'
    BY <1>6, ActorMoves DEF BridgeInv, OwnersOK, Command, actor, owners, signals, exitLedger,
       record,
       exitControl, channel, callers
  <2> QED BY <2>1, <2>2, <2>3, <2>4, <2>5 DEF BridgeInv
<1>7. CASE StopLate
  <2>1. ActorOK'
    BY <1>7 DEF BridgeInv, ActorOK, StopLate, exitLedger, record, exitControl, After
  <2>2. NumbersOK'
    BY <1>7 DEF BridgeInv, ActorOK, NumbersOK, StopLate, owners, signals, exitControl, After
  <2>3. AttemptsOK'
    BY <1>7, AttemptsStay DEF BridgeInv, AttemptsOK, StopLate, exitControl, channel, callers, Late
  <2>4. LaneOK' /\ CallersOK'
    BY <1>7 DEF BridgeInv, LaneOK, CallersOK, StopLate, exitLedger, record, channel, callers
  <2>5. OwnersOK' /\ TreesOK' /\ WorkersOK' /\ DebtsOK'
    BY <1>7, ActorMoves DEF BridgeInv, ActorOK, OwnersOK, StopLate, owners, signals, exitLedger,
       record,
       exitControl, channel, callers, After
  <2> QED BY <2>1, <2>2, <2>3, <2>4, <2>5 DEF BridgeInv
<1>8. CASE StopNothing
  <2>1. ActorOK'
    BY <1>8 DEF BridgeInv, ActorOK, StopNothing, exitLedger, record, exitControl, After
  <2>2. NumbersOK'
    BY <1>8, BoundsAssumption DEF BridgeInv, ActorOK, NumbersOK, Generations, StopNothing,
       owners, signals, exitControl, After
  <2>3. AttemptsOK'
    BY <1>8, AttemptsStay DEF BridgeInv, ActorOK, AttemptsOK, StopNothing, exitControl, channel,
       callers, After
  <2>4. LaneOK' /\ CallersOK'
    BY <1>8 DEF BridgeInv, LaneOK, CallersOK, StopNothing, exitLedger, record, channel, callers
  <2>5. OwnersOK' /\ TreesOK' /\ WorkersOK' /\ DebtsOK'
    BY <1>8, ActorMoves DEF BridgeInv, ActorOK, OwnersOK, StopNothing, owners, signals,
       exitLedger, record, exitControl, channel, callers, After
  <2> QED BY <2>1, <2>2, <2>3, <2>4, <2>5 DEF BridgeInv
<1>9. CASE StopRuntime
  <2>1. ActorOK'
    BY <1>9 DEF BridgeInv, ActorOK, StopRuntime, actor, exitLedger, record, exitControl
  <2>2. NumbersOK'
    BY <1>9, BoundsAssumption DEF BridgeInv, NumbersOK, Generations, StopRuntime, owners,
       exitControl
  <2>3. AttemptsOK'
    BY <1>9, AttemptsStay DEF BridgeInv, AttemptsOK, StopRuntime, exitControl, channel, callers
  <2>4. LaneOK' /\ CallersOK'
    BY <1>9 DEF BridgeInv, LaneOK, CallersOK, StopRuntime, actor, exitLedger, record, channel,
       callers
  <2>5. OwnersOK' /\ TreesOK' /\ WorkersOK' /\ DebtsOK'
    BY <1>9, ActorMoves DEF BridgeInv, OwnersOK, StopRuntime, actor, owners, exitLedger, record,
       exitControl, channel, callers
  <2> QED BY <2>1, <2>2, <2>3, <2>4, <2>5 DEF BridgeInv
<1>10. CASE Final
  <2>1. ActorOK'
    BY <1>10 DEF BridgeInv, ActorOK, Final, actor, exitLedger, record, exitControl
  <2>2. NumbersOK'
    BY <1>10 DEF BridgeInv, NumbersOK, Final, owners, signals, exitControl
  <2>3. AttemptsOK'
    BY <1>10, AttemptsStay DEF BridgeInv, AttemptsOK, Final, exitControl, channel, callers
  <2>4. LaneOK' /\ CallersOK'
    BY <1>10 DEF BridgeInv, LaneOK, CallersOK, Final, actor, exitLedger, record, channel, callers
  <2>5. OwnersOK' /\ TreesOK' /\ WorkersOK' /\ DebtsOK'
    BY <1>10, ActorMoves DEF BridgeInv, OwnersOK, Final, actor, owners, signals, exitLedger,
       record,
       exitControl, channel, callers
  <2> QED BY <2>1, <2>2, <2>3, <2>4, <2>5 DEF BridgeInv
<1>11. CASE MarkDone
  <2>1. ActorOK'
    BY <1>11 DEF BridgeInv, record, ActorOK, MarkDone, actor, exitControl
  <2>2. NumbersOK'
    BY <1>11 DEF BridgeInv, NumbersOK, MarkDone, owners, signals, exitControl
  <2>3. AttemptsOK'
    BY <1>11, AttemptsStay DEF BridgeInv, AttemptsOK, MarkDone, exitControl, channel, callers
  <2>4. LaneOK' /\ CallersOK'
    BY <1>11 DEF BridgeInv, record, LaneOK, CallersOK, MarkDone, actor, channel, callers
  <2>5. OwnersOK' /\ TreesOK' /\ WorkersOK' /\ DebtsOK'
    BY <1>11, ActorMoves DEF BridgeInv, OwnersOK, MarkDone, actor, owners, signals, exitControl,
       channel, callers
  <2> QED BY <2>1, <2>2, <2>3, <2>4, <2>5 DEF BridgeInv
<1>12. CASE DropReceivers
  <2>1. ActorOK'
    BY <1>12 DEF BridgeInv, ActorOK, DropReceivers, exitLedger, record, exitControl
  <2>2. NumbersOK'
    BY <1>12 DEF BridgeInv, NumbersOK, DropReceivers, owners, signals, exitControl
  <2>3. AttemptsOK'
    BY <1>12, AttemptsStay DEF BridgeInv, AttemptsOK, DropReceivers, exitControl, callers
  <2>4. LaneOK' /\ CallersOK'
    BY <1>12 DEF BridgeInv, LaneOK, CallersOK, DropReceivers, exitLedger, record, callers
  <2>5. OwnersOK' /\ TreesOK' /\ WorkersOK' /\ DebtsOK'
    BY <1>12, ActorMoves DEF BridgeInv, OwnersOK, DropReceivers, owners, signals, exitLedger,
       record,
       exitControl, callers
  <2> QED BY <2>1, <2>2, <2>3, <2>4, <2>5 DEF BridgeInv
<1>13. CASE AttachRead
  <2>1. ActorOK'
    BY <1>13 DEF BridgeInv, ActorOK, AttachRead, actor, exitLedger, record, Cancelled
  <2>2. NumbersOK'
    BY <1>13 DEF BridgeInv, NumbersOK, AttachRead, owners, signals
  <2>3. AttemptsOK'
    BY <1>13, AttemptsStay DEF BridgeInv, AttemptsOK, AttachRead, channel, callers
  <2>4. LaneOK' /\ CallersOK'
    BY <1>13 DEF BridgeInv, LaneOK, CallersOK, AttachRead, actor, exitLedger, record, channel,
       callers
  <2>5. OwnersOK' /\ TreesOK' /\ WorkersOK' /\ DebtsOK'
    BY <1>13, ActorMoves DEF BridgeInv, OwnersOK, AttachRead, actor, owners, signals, exitLedger,
       record,
       channel, callers
  <2> QED BY <2>1, <2>2, <2>3, <2>4, <2>5 DEF BridgeInv
<1>14. CASE AttachInstall
  <2>1. ActorOK'
    BY <1>14 DEF BridgeInv, ActorOK, AttachInstall, actor, exitLedger, record
  <2>2. NumbersOK'
    BY <1>14 DEF BridgeInv, NumbersOK, OwnersOK, Owners, AttachInstall, owners, signals
  <2>3. AttemptsOK'
    BY <1>14, AttemptsStay DEF BridgeInv, AttemptsOK, AttachInstall, channel, callers
  <2>4. LaneOK' /\ CallersOK'
    BY <1>14 DEF BridgeInv, LaneOK, CallersOK, AttachInstall, actor, exitLedger, record, channel,
       callers
  <2>5. OwnersOK' /\ TreesOK' /\ WorkersOK' /\ DebtsOK'
    BY <1>14, ActorMoves DEF BridgeInv, OwnersOK, AttachInstall, actor, owners, signals,
       exitLedger, record, channel, callers
  <2> QED BY <2>1, <2>2, <2>3, <2>4, <2>5 DEF BridgeInv
<1>15. CASE Handshake
  <2>1. ActorOK'
    BY <1>15 DEF BridgeInv, ActorOK, Handshake, actor, exitLedger, record, exitControl
  <2>2. NumbersOK'
    BY <1>15 DEF BridgeInv, NumbersOK, Handshake, owners, signals, exitControl
  <2>3. AttemptsOK'
    BY <1>15, AttemptsStay DEF BridgeInv, AttemptsOK, Handshake, exitControl, channel, callers
  <2>4. LaneOK' /\ CallersOK'
    BY <1>15 DEF BridgeInv, LaneOK, CallersOK, Handshake, actor, exitLedger, record, channel,
       callers
  <2>5. OwnersOK' /\ TreesOK' /\ WorkersOK' /\ DebtsOK'
    BY <1>15, ActorMoves DEF BridgeInv, OwnersOK, Handshake, actor, owners, signals, exitLedger,
       record,
       exitControl, channel, callers
  <2> QED BY <2>1, <2>2, <2>3, <2>4, <2>5 DEF BridgeInv
<1> QED BY <1>1, <1>2, <1>3, <1>4, <1>5, <1>6, <1>7, <1>8, <1>9, <1>10, <1>11, <1>12, <1>13, <1>14, <1>15

-----------------------------------------------------------------------------
(* Steps of the actor that move an owner.                                  *)

\* Nobody holds an owner but the actor until it has left, and it holds one.
LEMMA ActorHoldsAlone ==
  ASSUME BridgeInv, apc \notin GonePcs
  PROVE  Held = {None, runtime, pending, starting}
<1>1. quarantine = None /\ \A c \in Callers : hand[c] = None
  BY DEF BridgeInv, OwnersOK
<1> QED BY <1>1, CallersAssumption DEF Held

\* The actor moves its owner between its slots, to a new start or to the quarantine.
LEMMA ActorOwnerStep ==
  ASSUME BridgeInv,
         \/ StopPending \/ StopSupervisor \/ StopFinish \/ Leave
         \/ StartSpawn \/ Publish \/ StartReady \/ StartFails
  PROVE  BridgeInv'
<1> USE DEF LoopPcs, StartPcs, GonePcs, EndPcs
<1>h. apc \notin GonePcs /\ Held = {None, runtime, pending, starting}
  BY ActorHoldsAlone DEF StopPending, StopSupervisor, StopFinish, Leave, StartSpawn, Publish,
     StartReady, StartFails
<1>g. Held' = {None, runtime', pending', starting', quarantine'}
  <2>1. \A c \in Callers : hand'[c] = None
    BY DEF BridgeInv, OwnersOK, StopPending, StopSupervisor, StopFinish, Leave, StartSpawn,
       Publish, StartReady,
         StartFails, callers
  <2> QED BY <2>1, CallersAssumption DEF Held
<1>1. CASE StopPending
  <2>1. ActorOK'
    BY <1>1 DEF BridgeInv, ActorOK, StopPending, exitLedger, record, exitControl, After
  <2>2. NumbersOK'
    BY <1>1 DEF BridgeInv, ActorOK, NumbersOK, StopPending, signals, exitControl, After
  <2>3. AttemptsOK'
    BY <1>1, AttemptsStay DEF BridgeInv, ActorOK, AttemptsOK, StopPending, exitControl, channel,
       callers, After
  <2>4. LaneOK' /\ CallersOK'
    BY <1>1 DEF BridgeInv, LaneOK, CallersOK, StopPending, exitLedger, record, channel, callers
  <2>5. OwnersOK'
    BY <1>1 DEF BridgeInv, ActorOK, OwnersOK, StopPending, exitLedger, record, callers, After
  <2>6. Held' \subseteq Held /\ Held \subseteq Held' \cup {pending} /\ pending \in Spawns /\ runtime = None /\ starting = None
    BY <1>1, <1>h, <1>g DEF BridgeInv, OwnersOK, Owners, StopPending, signals, exitLedger, record,
       exitControl, channel, callers
  <2>7. TreesOK'
    <3>1. /\ Guarded' \subseteq Guarded /\ (pending' # pending => pending' = None /\ pending \notin Guarded')
          /\ torn' \subseteq Spawns /\ released' \subseteq Spawns
      BY <1>1, <2>6 DEF StopPending, Shutdown, Guarded, BridgeInv, TreesOK
    <3>2. UNCHANGED <<spawns, runtime, starting, supOk>> /\ apc' # "finish"
      BY <1>1 DEF BridgeInv, ActorOK, StopPending, After
    <3> QED BY <1>h, <1>g, <2>6, <3>1, <3>2 DEF BridgeInv, TreesOK
  <2>8. WorkersOK'
    BY <1>1, <2>6 DEF BridgeInv, WorkersOK, StopPending, signals
  <2>9. DebtsOK'
    BY <1>1, <1>g, <2>6, BoundsAssumption DEF BridgeInv, NumbersOK, DebtsOK, Generations,
       StopPending, callers, ClearedBy
  <2> QED BY <2>1, <2>2, <2>3, <2>4, <2>5, <2>7, <2>8, <2>9 DEF BridgeInv
<1>2. CASE StopSupervisor
  <2>1. ActorOK'
    BY <1>2 DEF BridgeInv, ActorOK, StopSupervisor, exitLedger, record, exitControl
  <2>2. NumbersOK'
    BY <1>2 DEF BridgeInv, NumbersOK, StopSupervisor, owners, signals, exitControl
  <2>3. AttemptsOK'
    BY <1>2, AttemptsStay DEF BridgeInv, AttemptsOK, StopSupervisor, exitControl, channel, callers
  <2>4. LaneOK' /\ CallersOK'
    BY <1>2 DEF BridgeInv, LaneOK, CallersOK, StopSupervisor, exitLedger, record, channel, callers
  <2>5. OwnersOK'
    BY <1>2 DEF BridgeInv, OwnersOK, StopSupervisor, owners, exitLedger, record, callers
  <2>6. Held' = Held /\ runtime \in Spawns
    BY <1>2, <1>h, <1>g DEF BridgeInv, OwnersOK, Owners, StopSupervisor, owners, signals,
       exitLedger, record, exitControl, channel, callers
  <2>7. TreesOK'
    <3>1. /\ Guarded' \subseteq Guarded /\ (supOk' => runtime \notin Guarded')
          /\ torn' \subseteq Spawns /\ released' \subseteq Spawns
      BY <1>2, <2>6 DEF StopSupervisor, Shutdown, Guarded, BridgeInv, TreesOK, owners
    <3>2. UNCHANGED <<spawns, runtime>>
      BY <1>2 DEF StopSupervisor, owners
    <3> QED BY <2>6, <3>1, <3>2 DEF BridgeInv, TreesOK
  <2>8. WorkersOK'
    BY <1>2, <2>6 DEF BridgeInv, WorkersOK, StopSupervisor, owners, signals
  <2>9. DebtsOK'
    BY <1>2, <2>6 DEF BridgeInv, DebtsOK, StopSupervisor, owners, callers
  <2> QED BY <2>1, <2>2, <2>3, <2>4, <2>5, <2>7, <2>8, <2>9 DEF BridgeInv
<1>3. CASE StopFinish
  <2>1. ActorOK'
    BY <1>3 DEF BridgeInv, ActorOK, StopFinish, exitLedger, record, exitControl, After, DrainDone,
       CountsAsLate
  <2>2. NumbersOK'
    BY <1>3 DEF BridgeInv, ActorOK, NumbersOK, OwnersOK, Generations, Owners, StopFinish,
       signals, exitControl, After, DrainDone, CountsAsLate
  <2>3. AttemptsOK'
    BY <1>3, AttemptsStay DEF BridgeInv, ActorOK, AttemptsOK, StopFinish, exitControl, channel,
       callers, After, DrainDone, CountsAsLate
  <2>4. LaneOK' /\ CallersOK'
    BY <1>3 DEF BridgeInv, LaneOK, CallersOK, StopFinish, exitLedger, record, channel, callers,
       DrainDone, CountsAsLate
  <2>5. OwnersOK'
    BY <1>3 DEF BridgeInv, ActorOK, OwnersOK, StopFinish, exitLedger, record, callers, After,
       DrainDone,
       CountsAsLate
  <2>6. Held' \subseteq Held /\ Held \subseteq Held' \cup {runtime} /\ runtime \in Spawns /\ pending = None /\ starting = None
    BY <1>3, <1>h, <1>g DEF BridgeInv, OwnersOK, Owners, StopFinish, signals, exitLedger, record,
       exitControl, channel, callers, DrainDone, CountsAsLate
  <2>7. TreesOK'
    BY <1>3, <1>g, <2>6 DEF BridgeInv, ActorOK, TreesOK, Guarded, trees, StopFinish, After,
       DrainDone,
       CountsAsLate
  <2>8. WorkersOK'
    BY <1>3, <1>g, <2>6 DEF BridgeInv, WorkersOK, StopFinish, signals, DrainDone, CountsAsLate
  <2>9. DebtsOK'
    BY <1>3, <1>g, <2>6, BoundsAssumption DEF BridgeInv, ActorOK, NumbersOK, OwnersOK, DebtsOK,
       Generations, StopFinish, callers, ClearedBy, After, DrainDone, CountsAsLate
  <2> QED BY <2>1, <2>2, <2>3, <2>4, <2>5, <2>7, <2>8, <2>9 DEF BridgeInv
<1>4. CASE Leave
  <2>1. ActorOK'
    BY <1>4 DEF BridgeInv, record, ActorOK, Leave, actor, exitControl, Quarantined
  <2>2. NumbersOK'
    BY <1>4, BoundsAssumption DEF BridgeInv, NumbersOK, Generations, Leave, exitControl,
       Quarantined
  <2>3. AttemptsOK'
    BY <1>4, AttemptsStay DEF BridgeInv, AttemptsOK, Leave, exitControl, channel, callers,
       Quarantined
  <2>4. LaneOK' /\ CallersOK'
    BY <1>4 DEF BridgeInv, record, LaneOK, CallersOK, Leave, actor, channel, callers, Quarantined
  <2>5. OwnersOK'
    BY <1>4 DEF BridgeInv, OwnersOK, Leave, actor, callers, Quarantined, Confirmed
  <2>6. Held' = Held /\ starting = None /\ starting' = None
    BY <1>4, <1>h, <1>g DEF BridgeInv, OwnersOK, Leave, actor, exitControl, channel, callers,
       Quarantined
  <2>7. TreesOK'
    BY <1>4, <2>6 DEF BridgeInv, TreesOK, Guarded, trees, Leave, actor, Quarantined
  <2>8. WorkersOK'
    <3>1. runtime' = None /\ pending' = None /\ UNCHANGED <<spawns, gen, dpc>>
      BY <1>4 DEF Leave, BridgeInv, OwnersOK, Confirmed
    <3> QED BY <2>6, <3>1, <1>h DEF BridgeInv, WorkersOK, Spawns, None
  <2>9. DebtsOK'
    BY <1>4, <1>h, <2>6 DEF BridgeInv, NumbersOK, OwnersOK, DebtsOK, Generations, Owners, Leave,
       callers, Quarantined, Confirmed
  <2> QED BY <2>1, <2>2, <2>3, <2>4, <2>5, <2>7, <2>8, <2>9 DEF BridgeInv
<1>5. CASE StartSpawn
  <2>1. ActorOK'
    BY <1>5 DEF BridgeInv, ActorOK, StartSpawn, actor, exitLedger, record, exitControl,
       StartRefused
  <2>2. NumbersOK'
    BY <1>5, BoundsAssumption DEF BridgeInv, NumbersOK, StartSpawn, signals, exitControl,
       StartRefused
  <2>3. AttemptsOK'
    BY <1>5, AttemptsStay DEF BridgeInv, AttemptsOK, StartSpawn, exitControl, channel, callers,
       StartRefused
  <2>4. LaneOK' /\ CallersOK'
    BY <1>5 DEF BridgeInv, LaneOK, CallersOK, StartSpawn, actor, exitLedger, record, channel,
       callers,
       StartRefused
  <2>5. OwnersOK'
    <3>1. spawns + 1 \in Spawns /\ spawns + 1 # None
      BY <1>5, BoundsAssumption DEF StartSpawn, BridgeInv, NumbersOK, Spawns, None
    <3>2. /\ starting' = spawns' /\ starting' \in Spawns /\ starting' # None /\ apc' \in {"attach", "failed"} /\ apc = "command"
          /\ runtime = None /\ pending = None
          /\ UNCHANGED <<runtime, pending, finished, quarantine, hand, cpc>>
      BY <1>5, <3>1 DEF StartSpawn, StartRefused, actor, exitLedger, record, callers
    <3> QED BY <3>2 DEF BridgeInv, OwnersOK, Owners
  <2>6. Held = {None} /\ Held' = {None, spawns + 1}
    BY <1>5, <1>h, <1>g DEF BridgeInv, OwnersOK, StartSpawn, actor, signals, exitLedger, record,
       exitControl, channel, callers, StartRefused
  <2>7. TreesOK'
    <3>1. spawns \in Nat /\ spawns' = spawns + 1 /\ spawns + 1 \in Spawns
      BY <1>5, BoundsAssumption DEF StartSpawn, BridgeInv, NumbersOK, Spawns
    <3>2. torn' \in {torn, torn \cup {spawns + 1}} /\ released' = released /\ apc' # "finish"
      BY <1>5 DEF StartSpawn
    <3>3. Guarded = {}
      BY <2>6 DEF BridgeInv, TreesOK, Guarded, None
    <3>4. Guarded' \subseteq Guarded \cup {spawns + 1}
      BY <3>1, <3>2 DEF Guarded
    <3> QED BY <2>6, <3>1, <3>2, <3>3, <3>4 DEF BridgeInv, TreesOK
  <2>8. WorkersOK'
    <3>1. spawns \in Nat /\ spawns' = spawns + 1 /\ starting' = spawns + 1 /\ spawns + 1 \in Spawns
      BY <1>5, BoundsAssumption DEF StartSpawn, BridgeInv, NumbersOK, Spawns
    <3>2. dpc[spawns + 1] = "none" /\ \A s \in Spawns : s > spawns + 1 => s > spawns
      BY <3>1 DEF BridgeInv, WorkersOK, Spawns
    <3>3. runtime = None /\ pending = None /\ None \notin Spawns /\ UNCHANGED <<runtime, pending, gen, dpc, signals>>
      BY <1>5 DEF StartSpawn, StartRefused, Spawns, None
    <3> QED BY <2>6, <3>1, <3>2, <3>3 DEF BridgeInv, WorkersOK
  <2>9. DebtsOK'
    BY <1>5 DEF BridgeInv, DebtsOK, StartSpawn, callers, StartRefused
  <2> QED BY <2>1, <2>2, <2>3, <2>4, <2>5, <2>7, <2>8, <2>9 DEF BridgeInv
<1>6. CASE Publish
  <2>1. ActorOK'
    BY <1>6 DEF BridgeInv, ActorOK, Publish, actor, exitLedger, record, exitControl
  <2>2. NumbersOK'
    BY <1>6, BoundsAssumption DEF BridgeInv, NumbersOK, OwnersOK, Generations, Owners, Publish,
       exitControl
  <2>3. AttemptsOK'
    BY <1>6, AttemptsStay DEF BridgeInv, AttemptsOK, Publish, exitControl, channel, callers
  <2>4. LaneOK' /\ CallersOK'
    BY <1>6 DEF BridgeInv, LaneOK, CallersOK, Publish, actor, exitLedger, record, channel, callers
  <2>5. OwnersOK'
    BY <1>6 DEF BridgeInv, OwnersOK, Publish, actor, exitLedger, record, callers
  <2>6. Held' = Held /\ starting \in Spawns /\ Held = {None, starting}
    BY <1>6, <1>h, <1>g DEF BridgeInv, OwnersOK, Owners, Publish, actor, exitLedger, record,
       exitControl,
       channel, callers
  <2>7. TreesOK'
    BY <1>6, <2>6 DEF BridgeInv, TreesOK, Guarded, trees, Publish, actor
  <2>8. WorkersOK'
    <3>1. /\ dpc' \in [Spawns -> WorkerPcs] /\ dpc'[starting] = "running"
          /\ \A s \in Spawns \ {starting} : dpc'[s] = dpc[s]
      BY <1>6, <2>6 DEF Publish, BridgeInv, WorkersOK, WorkerPcs
    <3>2. /\ starting = spawns /\ runtime = None /\ pending = None /\ None \notin Spawns
          /\ UNCHANGED <<spawns, runtime, pending, starting>> /\ apc' = "publish"
      BY <1>6 DEF Publish, BridgeInv, OwnersOK, Spawns, None
    <3>3. \A s \in Spawns : s > spawns => s # starting
      BY <3>2 DEF Spawns, BridgeInv
    <3> QED BY <2>6, <3>1, <3>2, <3>3 DEF BridgeInv, WorkersOK
  <2>9. DebtsOK'
    <3>1. fault = 0 /\ fault' = fault /\ apc' \notin GonePcs /\ apc # "ended" /\ result' = result
      BY <1>6, <2>6 DEF Publish, BridgeInv, DebtsOK, None, callers
    <3> QED BY <2>6, <3>1, BoundsAssumption DEF BridgeInv, DebtsOK, Generations
  <2> QED BY <2>1, <2>2, <2>3, <2>4, <2>5, <2>7, <2>8, <2>9 DEF BridgeInv
<1>7. CASE StartReady
  <2>1. ActorOK'
    BY <1>7 DEF BridgeInv, ActorOK, StartReady, actor, exitLedger, record, SlotAtReady
  <2>2. NumbersOK'
    BY <1>7, BoundsAssumption DEF BridgeInv, NumbersOK, Generations, Owners, StartReady,
       SlotAtReady
  <2>3. AttemptsOK'
    BY <1>7, AttemptsStay DEF BridgeInv, AttemptsOK, StartReady, channel, callers, SlotAtReady
  <2>4. LaneOK' /\ CallersOK'
    BY <1>7 DEF BridgeInv, LaneOK, CallersOK, StartReady, actor, exitLedger, record, channel,
       callers,
       SlotAtReady
  <2>5. OwnersOK'
    BY <1>7 DEF BridgeInv, OwnersOK, StartReady, actor, exitLedger, record, callers, SlotAtReady
  <2>6. Held' = Held /\ starting \in Spawns /\ Held = {None, starting}
    BY <1>7, <1>h, <1>g DEF BridgeInv, OwnersOK, Owners, StartReady, actor, exitLedger, record,
       channel,
       callers, SlotAtReady
  <2>7. TreesOK'
    BY <1>7, <2>6 DEF BridgeInv, TreesOK, Guarded, trees, StartReady, actor, SlotAtReady
  <2>8. WorkersOK'
    <3>1. /\ runtime' = starting /\ starting' = None /\ pending' = None /\ None \notin Spawns
          /\ UNCHANGED <<dpc, gen, spawns>> /\ (UNCHANGED signals \/ current' = 0)
      BY <1>7 DEF StartReady, SlotAtReady, BridgeInv, OwnersOK, Spawns, None, signals
    <3>2. gen[starting] # 0
      BY <2>6 DEF BridgeInv, NumbersOK
    <3> QED BY <2>6, <3>1, <3>2 DEF BridgeInv, WorkersOK, signals
  <2>9. DebtsOK'
    BY <1>7, <2>6 DEF BridgeInv, DebtsOK, StartReady, callers, SlotAtReady
  <2> QED BY <2>1, <2>2, <2>3, <2>4, <2>5, <2>7, <2>8, <2>9 DEF BridgeInv
<1>8. CASE StartFails
  <2>1. ActorOK'
    BY <1>8 DEF BridgeInv, ActorOK, StartFails, actor, exitLedger, record
  <2>2. NumbersOK'
    BY <1>8 DEF BridgeInv, NumbersOK, Owners, StartFails, signals
  <2>3. AttemptsOK'
    BY <1>8, AttemptsStay DEF BridgeInv, AttemptsOK, StartFails, channel, callers
  <2>4. LaneOK' /\ CallersOK'
    BY <1>8 DEF BridgeInv, LaneOK, CallersOK, StartFails, actor, exitLedger, record, channel,
       callers
  <2>5. OwnersOK'
    BY <1>8 DEF BridgeInv, OwnersOK, StartFails, actor, exitLedger, record, callers
  <2>6. /\ starting \in Spawns /\ Held = {None, starting} /\ Held' = {None, pending'}
        /\ starting' = None /\ pending' \in {None, starting} /\ runtime = None /\ runtime' = None
        /\ Guarded' \subseteq {starting} /\ (pending' = None => starting \notin Guarded')
        /\ torn' \subseteq Spawns /\ released' \subseteq Spawns
    <3>1. Guarded' \subseteq Guarded /\ (pending' = None => starting \notin Guarded') /\ pending' \in {None, starting}
      BY <1>8 DEF StartFails, Shutdown, BridgeInv, OwnersOK, StartPcs, Guarded
    <3>2. /\ starting \in Spawns /\ starting' = None /\ runtime = None /\ runtime' = None /\ pending = None
          /\ quarantine' = None
      BY <1>8 DEF StartFails, BridgeInv, OwnersOK, exitLedger, record, Owners
    <3>3. Guarded \subseteq {starting}
      BY <1>h, <3>2 DEF BridgeInv, TreesOK, Guarded, trees, Spawns, None
    <3>4. torn' \subseteq Spawns /\ released' \subseteq Spawns
      BY <1>8, <3>2 DEF StartFails, Shutdown, BridgeInv, TreesOK
    <3> QED BY <1>h, <1>g, <3>1, <3>2, <3>3, <3>4
  <2>7. TreesOK'
    <3>1. apc' = "top"
      BY <1>8 DEF StartFails
    <3> QED BY <2>6, <3>1 DEF TreesOK, None
  <2>8. WorkersOK'
    BY <1>8, <2>6 DEF BridgeInv, WorkersOK, StartFails, signals
  <2>9. DebtsOK'
    BY <1>8, <2>6 DEF BridgeInv, NumbersOK, OwnersOK, DebtsOK, Generations, StartFails, callers,
       ClearedBy
  <2> QED BY <2>1, <2>2, <2>3, <2>4, <2>5, <2>7, <2>8, <2>9 DEF BridgeInv
<1> QED BY <1>1, <1>2, <1>3, <1>4, <1>5, <1>6, <1>7, <1>8

-----------------------------------------------------------------------------
(* Steps of the drain workers, the clock and the operating system.         *)

\* There is one owner at most.
LEMMA OneOwner ==
  ASSUME BridgeInv, NEW s \in Held \ {None}, NEW t \in Held \ {None}
  PROVE  s = t
<1>1. CASE apc \notin GonePcs
  BY <1>1, ActorHoldsAlone DEF BridgeInv, OwnersOK
<1>2. CASE apc \in GonePcs
  <2>1. runtime = None /\ pending = None /\ starting = None
    BY <1>2 DEF BridgeInv, OwnersOK, GonePcs, StartPcs
  <2>2. \A u \in Held \ {None} : u = quarantine \/ \E c \in Callers : u = hand[c]
    BY <2>1 DEF Held
  <2> QED BY <2>2 DEF BridgeInv, OwnersOK
<1> QED BY <1>1, <1>2

\* A worker that is at it belongs to the owner, and so does what it publishes.
LEMMA WorkerStep ==
  ASSUME BridgeInv, NEW s \in Spawns, Worker(s)
  PROVE  BridgeInv'
<1>1. PICK label \in WorkerPcs \ {"none"} : dpc' = [dpc EXCEPT ![s] = label] /\ dpc[s] \notin {"none", "done"}
  BY DEF Worker, DrainSees, DrainPublishes, DrainStops, DrainClears, DrainEnds, WorkerPcs
<1>2. UNCHANGED <<apc, ret, actor, owners, current, fault, exitLedger, exitControl, channel, callers, trees>>
  BY DEF Worker, DrainSees, DrainPublishes, DrainStops, DrainClears, DrainEnds, signals
<1>3. /\ slot' = gen[s] \/ slot' = slot
      /\ detached' \in {0, detached}
      /\ label \in {"ending", "cleared", "done"} /\ current = gen[s] => dpc[s] \in {"ending", "cleared"} \/ slot' = gen[s]
  BY <1>1 DEF Worker, DrainSees, DrainPublishes, DrainStops, DrainClears, DrainEnds, signals,
     BridgeInv, WorkersOK
<1>4. Held' = Held
  BY <1>2 DEF Held, owners, exitLedger, record, callers
<1>5. ActorOK' /\ LaneOK' /\ CallersOK'
  BY <1>2 DEF BridgeInv, ActorOK, LaneOK, CallersOK, actor, exitLedger, record, exitControl,
     channel,
     callers
<1>6. NumbersOK'
  <2>1. gen[s] \in Generations /\ 0 \in Generations
    BY BoundsAssumption DEF BridgeInv, NumbersOK, Generations
  <2> QED BY <1>2, <1>3, <2>1 DEF BridgeInv, NumbersOK, owners, exitControl
<1>7. AttemptsOK'
  BY <1>2, AttemptsStay DEF BridgeInv, AttemptsOK, exitControl, channel, callers
<1>8. OwnersOK' /\ TreesOK' /\ DebtsOK'
  BY <1>2, <1>4 DEF BridgeInv, OwnersOK, TreesOK, Guarded, trees, DebtsOK, actor, owners,
     exitLedger, record, callers
<1>9. WorkersOK'
  <2>1. s \in Held \ {None}
    BY <1>1 DEF BridgeInv, WorkersOK, Spawns, None
  <2>2. /\ dpc' \in [Spawns -> WorkerPcs] /\ dpc'[s] = label
        /\ \A t \in Spawns \ {s} : dpc'[t] = dpc[t]
    BY <1>1 DEF BridgeInv, WorkersOK
  <2>3. \A t \in Spawns : t \in {runtime, starting} => t = s
    BY <2>1, OneOwner DEF Held, Spawns, None
  <2>4. \A t \in Spawns :
          (t \in {runtime, starting} /\ current = gen[t] /\ dpc[t] \in {"ending", "cleared", "done"} => slot = gen[t])'
    BY <1>1, <1>2, <1>3, <2>2, <2>3 DEF BridgeInv, WorkersOK, owners
  <2> QED BY <1>1, <1>2, <1>4, <2>1, <2>2, <2>4 DEF BridgeInv, WorkersOK, owners
<1> QED BY <1>5, <1>6, <1>7, <1>8, <1>9 DEF BridgeInv

\* A deadline passes, or a tree dies of itself.
LEMMA OutsideStep ==
  ASSUME BridgeInv, DeadlinePasses
  PROVE  BridgeInv'
<1>1. UNCHANGED <<apc, ret, actor, owners, signals, fault, detached, exitLedger, attempt, hook, sawCancel, sessionClosed,
                  channel, callers, dpc, trees>>
  BY DEF DeadlinePasses, exitControl
<1>2. Held' = Held /\ expired' \subseteq expired \cup {attempt} /\ (attempt = 0 => expired' = expired)
  BY <1>1 DEF DeadlinePasses, Cancelled, exitControl, Held, owners, exitLedger, record,
     callers
<1>3. ActorOK' /\ NumbersOK' /\ LaneOK' /\ CallersOK'
  BY <1>1 DEF BridgeInv, ActorOK, NumbersOK, LaneOK, CallersOK, actor, owners, signals,
     exitLedger, record, channel, callers
<1>4. AttemptsOK'
  BY <1>1, <1>2 DEF BridgeInv, AttemptsOK, channel, callers
<1>5. OwnersOK' /\ TreesOK' /\ WorkersOK' /\ DebtsOK'
  BY <1>1, <1>2 DEF BridgeInv, OwnersOK, TreesOK, Guarded, trees, WorkersOK, DebtsOK, actor,
     owners, signals,
     exitLedger, record, callers
<1> QED BY <1>3, <1>4, <1>5 DEF BridgeInv

-----------------------------------------------------------------------------
(* Steps of the callers.                                                   *)

\* A caller that has an attempt moves on within it.
LEMMA CallerKeepsAttempts ==
  ASSUME BridgeInv, NEW c \in Callers, NEW label \in CallerPcs \ {"attempt"},
         cpc[c] \notin {"idle", "attempt"}, Goto(c, label), UNCHANGED <<attempt, expired, retry, mine>>
  PROVE  AttemptsOK' /\ attempt # 0
<1>1. /\ cpc' \in [Callers -> CallerPcs] /\ cpc'[c] = label
      /\ \A d \in Callers \ {c} : cpc'[d] = cpc[d]
  BY DEF Goto, BridgeInv, CallersOK
<1>2. attempt # 0
  BY DEF BridgeInv, AttemptsOK
<1> QED BY <1>1, <1>2, RetryingShrinks DEF BridgeInv, AttemptsOK

\* A caller that is not at its end keeps what Drop relies on: no other runs with Drop.
LEMMA CallerKeepsOrder ==
  ASSUME BridgeInv, NEW c \in Callers, NEW label \in CallerPcs \ {"idle"},
         cpc[c] \notin {"idle", "returned"}, Goto(c, label),
         result' \in [Callers -> {"none", "ok", "failed", "unavailable"}],
         c = Dropper /\ label = "returned" => recovery' \/ unwritten' \/ result'[Dropper] = "ok"
  PROVE  CallersOK'
<1>1. /\ cpc' \in [Callers -> CallerPcs] /\ cpc'[c] = label
      /\ \A d \in Callers \ {c} : cpc'[d] = cpc[d]
  BY DEF Goto, BridgeInv, CallersOK
<1>2. CASE c = Dropper
  BY <1>1, <1>2 DEF BridgeInv, CallersOK
<1>3. CASE c # Dropper
  <2>1. cpc[Dropper] = "idle"
    BY <1>3 DEF BridgeInv, CallersOK
  <2> QED BY <1>1, <1>3, <2>1, CallersAssumption DEF CallersOK
<1> QED BY <1>2, <1>3

\* A call begins; one that retries has an attempt number left.
LEMMA EnterStep ==
  ASSUME BridgeInv, NEW c \in Callers, Enter(c)
  PROVE  BridgeInv'
<1>1. /\ cpc[c] \in {"idle", "returned"} /\ Goto(c, "attempt") /\ "attempt" \in CallerPcs \ {"retire"}
      /\ cpc[Dropper] = "idle" /\ (c = Dropper => \A d \in Callers : cpc[d] \in {"idle", "returned"})
  BY DEF Enter, CallerPcs
<1>2. /\ UNCHANGED <<apc, ret, actor, owners, signals, fault, detached, exitLedger, exitControl>>
      /\ UNCHANGED <<lane, mine, hand, dpc, trees>>
  BY DEF Enter
<1>3. /\ OwnersOK' /\ TreesOK' /\ WorkersOK' /\ Held' = Held
      /\ cpc' \in [Callers -> CallerPcs] /\ cpc'[c] = "attempt"
      /\ \A d \in Callers \ {c} : cpc'[d] = cpc[d]
  <2>1. UNCHANGED <<apc, finished, supOk, owners, signals, quarantine, fault, hand, trees, dpc>>
    BY <1>2 DEF actor, exitLedger, record
  <2> QED BY <1>1, <2>1, CallerMoves
<1>4. ActorOK' /\ NumbersOK'
  BY <1>2 DEF BridgeInv, ActorOK, NumbersOK, actor, owners, signals, exitLedger, record,
     exitControl
<1>5. LaneOK'
  BY <1>2 DEF Enter, BridgeInv, LaneOK, actor
<1>6. /\ result' \in [Callers -> {"none", "ok", "failed", "unavailable"}]
      /\ \A d \in Callers : result'[d] \in {"none", result[d]}
  BY DEF Enter, BridgeInv, CallersOK
<1>7. CallersOK'
  BY <1>1, <1>3, <1>6, CallersAssumption DEF BridgeInv, CallersOK
<1>8. DebtsOK'
  BY <1>2, <1>3, <1>6 DEF BridgeInv, DebtsOK, owners
<1>9. AttemptsOK'
  <2>1. /\ retry' \in [Callers -> BOOLEAN] /\ \A d \in Callers \ {c} : retry'[d] = retry[d]
        /\ retry'[c] => done
    BY DEF Enter, NeedsRetry, BridgeInv, AttemptsOK
  <2>2. attempt = 0 => ~retry'[c]
    BY <2>1 DEF BridgeInv, ActorOK, AttemptsOK, EndPcs, GonePcs
  <2>3. attempt + Cardinality({d \in Callers : cpc'[d] = "attempt" /\ retry'[d]}) <= MaxAttempts
    <3>1. CASE retry'[c]
      <4> DEFINE now == {d \in Callers : cpc[d] = "attempt"}
                 next == {d \in Callers : cpc'[d] = "attempt" /\ retry'[d]}
      <4>1. attempt + Cardinality(now) < MaxAttempts
        BY <3>1 DEF Enter
      <4>2. IsFiniteSet(now) /\ IsFiniteSet(now \cup {c})
        BY FS_Subset, FS_AddElement, CallersAssumption
      <4>3. next \subseteq now \cup {c}
        BY <1>3
      <4>4. /\ Cardinality(next) \in Nat /\ Cardinality(now) \in Nat /\ Cardinality(now \cup {c}) \in Nat
            /\ Cardinality(next) <= Cardinality(now \cup {c}) /\ Cardinality(now \cup {c}) <= Cardinality(now) + 1
        BY <4>2, <4>3, FS_Subset, FS_AddElement, FS_CardinalityType
      <4> HIDE DEF now, next
      <4>5. attempt \in Nat /\ MaxAttempts \in Nat
        BY BoundsAssumption DEF BridgeInv, AttemptsOK
      <4>6. attempt + Cardinality(next) <= MaxAttempts
        BY <4>1, <4>4, <4>5
      <4> QED BY <4>6 DEF next
    <3>2. CASE ~retry'[c]
      BY <1>3, <2>1, <3>2, RetryingShrinks, BoundsAssumption DEF BridgeInv, AttemptsOK
    <3> QED BY <3>1, <3>2
  <2> QED BY <1>2, <1>3, <2>1, <2>2, <2>3 DEF BridgeInv, AttemptsOK, exitControl
<1> QED BY <1>3, <1>4, <1>5, <1>7, <1>8, <1>9 DEF BridgeInv

\* An attempt begins or is joined.
LEMMA BeginStep ==
  ASSUME BridgeInv, NEW c \in Callers, BeginAttempt(c)
  PROVE  BridgeInv'
<1>1. cpc[c] = "attempt" /\ attempt' = NewAttempt(c) /\ mine' = [mine EXCEPT ![c] = NewAttempt(c)]
  BY DEF BeginAttempt
<1>2. PICK label \in {"hook", "send"} : Goto(c, label)
  BY DEF BeginAttempt
<1>3. /\ UNCHANGED <<apc, ret, actor, owners, signals, fault, detached, exitLedger>>
      /\ UNCHANGED <<expired, hook, sawCancel, sessionClosed, channel, retry, hand, result, dpc, trees>>
  BY DEF BeginAttempt
<1>4. /\ OwnersOK' /\ TreesOK' /\ WorkersOK' /\ Held' = Held
      /\ cpc' \in [Callers -> CallerPcs] /\ cpc'[c] = label
      /\ \A d \in Callers \ {c} : cpc'[d] = cpc[d]
  <2>1. UNCHANGED <<apc, finished, supOk, owners, signals, quarantine, fault, hand, trees, dpc>>
    BY <1>3 DEF actor, exitLedger, record
  <2> QED BY <1>1, <1>2, <2>1, CallerMoves DEF CallerPcs
<1>5. ActorOK' /\ NumbersOK' /\ LaneOK'
  BY <1>3 DEF BridgeInv, ActorOK, NumbersOK, LaneOK, actor, owners, signals, exitLedger, record,
     channel
<1>6. CallersOK'
  BY <1>1, <1>2, <1>3, CallerKeepsOrder DEF BridgeInv, CallersOK, CallerPcs
<1>7. DebtsOK'
  BY <1>3, <1>4 DEF BridgeInv, DebtsOK, owners
<1>8. AttemptsOK'
  <2> DEFINE now == {d \in Callers : cpc[d] = "attempt" /\ retry[d]}
             next == {d \in Callers : cpc'[d] = "attempt" /\ retry'[d]}
  <2>1. /\ next = now \ {c} /\ (retry[c] <=> c \in now) /\ IsFiniteSet(now)
        /\ (attempt = 0 => now = {})
    BY <1>1, <1>2, <1>3, <1>4, FS_Subset, CallersAssumption DEF BridgeInv, AttemptsOK
  <2>2. /\ Cardinality(now) \in Nat /\ Cardinality(next) \in Nat
        /\ Cardinality(next) = IF retry[c] THEN Cardinality(now) - 1 ELSE Cardinality(now)
        /\ attempt = 0 => Cardinality(now) = 0
    <3>1. CASE retry[c]
      BY <2>1, <3>1, FS_RemoveElement, FS_CardinalityType, FS_EmptySet, ZenonT(60)
    <3>2. CASE ~retry[c]
      <4>1. next = now
        BY <2>1, <3>2
      <4> QED BY <2>1, <3>2, <4>1, FS_CardinalityType, FS_EmptySet
    <3> QED BY <3>1, <3>2 DEF BridgeInv, AttemptsOK
  <2>3. attempt \in Nat /\ attempt + Cardinality(now) <= MaxAttempts /\ MaxAttempts \in Nat \ {0}
    BY BoundsAssumption DEF BridgeInv, AttemptsOK
  <2>4. attempt' \in 1..MaxAttempts /\ attempt' + Cardinality(next) <= MaxAttempts
    <3> HIDE DEF now, next
    <3> QED BY <1>1, <2>2, <2>3 DEF NewAttempt
  <2>5. mine' \in [Callers -> 0..MaxAttempts]
    BY <1>1, <2>4 DEF BridgeInv, AttemptsOK
  <2> QED BY <1>3, <2>4, <2>5 DEF BridgeInv, AttemptsOK
<1> QED BY <1>4, <1>5, <1>6, <1>7, <1>8 DEF BridgeInv

\* What is left running when nobody holds an owner: nothing.
LEMMA NoOwnerNothingLeft ==
  ASSUME BridgeInv, Held = {None}
  PROVE  NothingLeft
<1>1. None \notin Spawns
  BY DEF None, Spawns
<1>2. Guarded = {}
  BY DEF BridgeInv, TreesOK, Guarded, None
<1>3. \A s \in Spawns : dpc[s] \in {"none", "done"}
  BY <1>1 DEF BridgeInv, WorkersOK, WorkerPcs
<1> QED BY <1>2, <1>3 DEF NothingLeft

\* A call goes on with empty hands.
LEMMA CallerMoveStep ==
  ASSUME BridgeInv, NEW c \in Callers,
         InvokeHook(c) \/ Send(c) \/ Await(c) \/ Gate(c) \/ Repaid(c) \/ Promote(c) \/ Verdict(c)
  PROVE  BridgeInv'
<1>1. PICK label \in CallerPcs \ {"idle", "attempt", "retire"} :
        Goto(c, label) /\ cpc[c] \notin {"idle", "attempt", "retire", "returned"}
  BY DEF InvokeHook, Send, Await, Gate, Repaid, Promote, Verdict, Continue, Return, CallerPcs
<1>2. /\ UNCHANGED <<apc, ret, actor, owners, signals, fault, detached, done, quarantine>>
      /\ UNCHANGED <<attempt, expired, hook, sawCancel, reply, retry, mine, hand, dpc, trees>>
  BY DEF InvokeHook, Send, Await, Gate, Repaid, Promote, Verdict, exitLedger, record,
     exitControl, channel
<1>3. /\ completed' \in BOOLEAN /\ recovery' \in BOOLEAN /\ unwritten' \in BOOLEAN /\ sessionClosed' \subseteq Spawns
      /\ lane' = lane \/ lane' = {c}
  <2>1. hook \in Owners /\ sessionClosed \subseteq Spawns /\ completed \in BOOLEAN /\ recovery \in BOOLEAN /\ unwritten \in BOOLEAN
    BY DEF BridgeInv, ActorOK, NumbersOK
  <2>2. completed' \in BOOLEAN
    BY <2>1 DEF InvokeHook, Send, Await, Gate, Repaid, Promote, Verdict, exitLedger, record
  <2>3. recovery' \in BOOLEAN /\ unwritten' \in BOOLEAN
    BY <2>1 DEF InvokeHook, Send, Await, Gate, Repaid, Promote, Verdict, exitLedger, record,
       Continue,
       Return
  <2>4. sessionClosed' \subseteq Spawns
    BY <2>1 DEF InvokeHook, Send, Await, Gate, Repaid, Promote, Verdict, exitControl, Owners
  <2>5. lane' = lane \/ lane' = {c}
    BY DEF InvokeHook, Send, Await, Gate, Repaid, Promote, Verdict, channel, LaneFull
  <2> QED BY <2>2, <2>3, <2>4, <2>5
<1>4. /\ result' \in [Callers -> {"none", "ok", "failed", "unavailable"}]
      /\ \A d \in Callers : result'[d] = "ok" => result[d] = "ok" \/ (done /\ fault = 0)
      /\ label = "returned" => result'[c] = "ok" \/ recovery' \/ unwritten' \/ c # Dropper
  <2>1. result \in [Callers -> {"none", "ok", "failed", "unavailable"}]
    BY DEF BridgeInv, CallersOK
  <2>2. CASE UNCHANGED result /\ label # "returned"
    BY <2>1, <2>2
  <2>3. CASE \E r \in {"failed", "unavailable"} : Return(c, r)
    BY <2>1, <2>3 DEF Return
  <2>4. CASE Return(c, "ok") /\ done /\ fault = 0
    BY <2>1, <2>4 DEF Return
  <2>5. Await(c) \/ Gate(c) => (UNCHANGED result /\ cpc'[c] # "returned") \/ \E r \in {"failed", "unavailable"} : Return(c, r)
    BY DEF Await, Gate, Continue, Goto, BridgeInv, CallersOK
  <2>6. Verdict(c) => (\E r \in {"failed", "unavailable"} : Return(c, r)) \/ (Return(c, "ok") /\ done /\ fault = 0)
    BY DEF Verdict, Clean
  <2>7. InvokeHook(c) \/ Send(c) \/ Repaid(c) \/ Promote(c) => UNCHANGED result /\ cpc'[c] # "returned"
    BY DEF InvokeHook, Send, Repaid, Promote, Goto, callers, BridgeInv, CallersOK
  <2>8. cpc'[c] = label
    BY <1>1 DEF Goto, BridgeInv, CallersOK
  <2> QED BY <2>2, <2>3, <2>4, <2>5, <2>6, <2>7, <2>8
<1>5. OwnersOK' /\ TreesOK' /\ WorkersOK' /\ Held' = Held
  <2>1. UNCHANGED <<apc, finished, supOk, owners, signals, quarantine, fault, hand, trees, dpc>>
    BY <1>2 DEF actor
  <2> QED BY <1>1, <2>1, CallerMoves
<1>6. ActorOK' /\ NumbersOK' /\ LaneOK'
  BY <1>2, <1>3 DEF BridgeInv, ActorOK, NumbersOK, LaneOK, actor, owners, signals
<1>7. AttemptsOK'
  BY <1>1, <1>2, CallerKeepsAttempts
<1>8. CallersOK'
  BY <1>1, <1>4, CallerKeepsOrder
<1>9. DebtsOK'
  BY <1>2, <1>4, <1>5 DEF BridgeInv, ActorOK, DebtsOK, owners
<1> QED BY <1>5, <1>6, <1>7, <1>8, <1>9 DEF BridgeInv

\* A caller takes the quarantined owner, or finds nothing to take.
LEMMA TakeStep ==
  ASSUME BridgeInv, NEW c \in Callers, TakeQuarantine(c)
  PROVE  BridgeInv'
<1>1. PICK label \in {"promote", "repaid", "retire"} :
        Goto(c, label) /\ cpc[c] = "owed"
             /\ (label # "retire" => UNCHANGED <<hand, quarantine>>)
             /\ (label = "retire" => quarantine # None /\ hand' = [hand EXCEPT ![c] = quarantine] /\ quarantine' = None)
  BY DEF TakeQuarantine
<1>2. /\ UNCHANGED <<apc, ret, actor, owners, signals, fault, detached, exitControl>>
      /\ UNCHANGED <<completed, done, record, channel, retry, mine, result, dpc, trees>>
  BY DEF TakeQuarantine
<1>3. ActorOK' /\ NumbersOK' /\ LaneOK'
  BY <1>2 DEF BridgeInv, record, ActorOK, NumbersOK, LaneOK, actor, owners, signals, exitControl,
     channel
<1>4. AttemptsOK'
  BY <1>1, <1>2, CallerKeepsAttempts DEF CallerPcs, exitControl
<1>5. CallersOK'
  BY <1>1, <1>2, CallerKeepsOrder DEF BridgeInv, CallersOK, CallerPcs
<1>6. OwnersOK' /\ TreesOK' /\ WorkersOK' /\ Held' = Held
  <2>1. CASE label # "retire"
    <3>1. UNCHANGED <<apc, finished, supOk, owners, signals, quarantine, fault, hand, trees, dpc>>
      BY <1>1, <1>2, <2>1 DEF actor
    <3> QED BY <1>1, <2>1, <3>1, CallerMoves DEF CallerPcs
  <2>2. CASE label = "retire"
    <3>1. /\ apc \in GonePcs /\ \A d \in Callers : hand[d] = None
          /\ hand' \in [Callers -> Owners] /\ hand'[c] = quarantine
          /\ \A d \in Callers \ {c} : hand'[d] = None
          /\ cpc'[c] = "retire" /\ \A d \in Callers \ {c} : cpc'[d] = cpc[d]
      BY <1>1, <2>2 DEF BridgeInv, OwnersOK, CallersOK, Goto
    <3>2. Held' = Held
      <4>1. {hand[d] : d \in Callers} = {None}
        BY <3>1
      <4>2. {hand'[d] : d \in Callers} \cup {None} = {None, quarantine}
        BY <3>1
      <4> QED BY <1>1, <1>2, <2>2, <4>1, <4>2, <3>1 DEF Held, owners, BridgeInv, OwnersOK, GonePcs, StartPcs
    <3>3. OwnersOK'
      BY <1>1, <1>2, <2>2, <3>1 DEF BridgeInv, OwnersOK, Owners, owners, actor
    <3>4. TreesOK' /\ WorkersOK'
      BY <1>2, <3>2 DEF BridgeInv, TreesOK, Guarded, trees, WorkersOK, owners, signals, actor
    <3> QED BY <3>2, <3>3, <3>4
  <2> QED BY <2>1, <2>2
<1>7. DebtsOK'
  BY <1>2, <1>6 DEF BridgeInv, DebtsOK, owners
<1> QED BY <1>3, <1>4, <1>5, <1>6, <1>7 DEF BridgeInv

\* A caller has retried the owner: confirmed gone with its worker, or back in quarantine.
LEMMA RetireStep ==
  ASSUME BridgeInv, NEW c \in Callers, Retire(c)
  PROVE  BridgeInv'
<1> DEFINE s == hand[c]
<1>1. /\ cpc[c] = "retire" /\ s \in Spawns /\ s # None /\ apc \in GonePcs /\ quarantine = None
      /\ runtime = None /\ pending = None /\ starting = None
      /\ \A d \in Callers \ {c} : hand[d] = None
  BY DEF Retire, BridgeInv, OwnersOK, Owners, GonePcs, StartPcs
<1>2. /\ Goto(c, "repaid") /\ hand' = [hand EXCEPT ![c] = None]
      /\ UNCHANGED <<apc, ret, actor, owners, signals, completed, done, record, exitControl>>
      /\ UNCHANGED <<channel, retry, mine, result, dpc>>
      /\ detached' \in {detached, gen[s]}
  BY DEF Retire
<1>3. /\ Guarded' \subseteq Guarded /\ torn' \subseteq Spawns /\ released' \subseteq Spawns
      /\ \/ /\ fault' = gen[s] /\ quarantine' = s
         \/ /\ fault' = ClearedBy(s) /\ quarantine' = None
            /\ s \notin Guarded' /\ dpc[s] \in {"none", "done"}
  BY <1>1, <1>2 DEF Retire, Shutdown, PutBack, DrainDone, Guarded, owners, BridgeInv, TreesOK
<1>4. Held = {None, s}
  <2>1. {hand[d] : d \in Callers} \cup {None} = {None, s}
    BY <1>1
  <2> QED BY <1>1, <2>1 DEF Held
<1>5. /\ hand' \in [Callers -> Owners] /\ \A d \in Callers : hand'[d] = None
      /\ cpc'[c] = "repaid" /\ \A d \in Callers \ {c} : cpc'[d] = cpc[d]
  BY <1>1, <1>2 DEF Goto, BridgeInv, OwnersOK, CallersOK, Owners
<1>6. Held' = {None, quarantine'}
  <2>1. {hand'[d] : d \in Callers} \cup {None} = {None}
    BY <1>5
  <2> QED BY <1>1, <1>2, <2>1 DEF Held, owners
<1>7. gen[s] \in Generations \ {0} /\ fault \in {0, gen[s]}
  BY <1>1, <1>4, BoundsAssumption DEF BridgeInv, NumbersOK, DebtsOK, Generations
<1> HIDE DEF s
<1>8. ActorOK' /\ LaneOK'
  BY <1>2 DEF BridgeInv, record, ActorOK, LaneOK, actor, exitControl, channel
<1>9. NumbersOK'
  BY <1>2, <1>7 DEF BridgeInv, NumbersOK, owners, signals, exitControl
<1>10. AttemptsOK' /\ CallersOK'
  <2>1. cpc[c] \notin {"idle", "attempt", "returned"} /\ "repaid" \in CallerPcs \ {"attempt", "idle"}
    BY <1>1 DEF CallerPcs
  <2>2. AttemptsOK'
    BY <1>2, <2>1, CallerKeepsAttempts DEF exitControl
  <2>3. CallersOK'
    BY <1>2, <2>1, CallerKeepsOrder DEF BridgeInv, CallersOK
  <2> QED BY <2>2, <2>3
<1>11. OwnersOK'
  BY <1>1, <1>2, <1>3, <1>5 DEF BridgeInv, OwnersOK, owners, actor, Owners, GonePcs, StartPcs
<1>12. TreesOK'
  <2>1. Guarded' \subseteq Held'
    <3>1. None \notin Guarded
      BY DEF Guarded, None
    <3> QED BY <1>3, <1>4, <1>6, <3>1 DEF BridgeInv, TreesOK
  <2> QED BY <1>1, <1>2, <1>3, <2>1 DEF TreesOK, GonePcs
<1>13. WorkersOK'
  <2>1. \A t \in Spawns : dpc[t] \notin {"none", "done"} => t \in Held'
    BY <1>3, <1>4, <1>6 DEF BridgeInv, WorkersOK, None, Spawns
  <2> QED BY <1>1, <1>2, <2>1 DEF BridgeInv, WorkersOK, owners, signals
<1>14. DebtsOK'
  <2>1. fault = gen[s] /\ \A d \in Callers : result'[d] # "ok"
    BY <1>1, <1>2, <1>4, <1>7 DEF BridgeInv, DebtsOK
  <2>2. /\ \/ fault' = gen[s] /\ Held' = {None, s}
           \/ fault' = 0 /\ Held' = {None}
        /\ gen' = gen /\ starting' = None
    BY <1>1, <1>2, <1>3, <1>6, <2>1 DEF ClearedBy, owners
  <2> QED BY <1>1, <1>7, <2>1, <2>2, BoundsAssumption DEF DebtsOK, Generations
<1> QED BY <1>8, <1>9, <1>10, <1>11, <1>12, <1>13, <1>14 DEF BridgeInv

-----------------------------------------------------------------------------
\* The bridge keeps one owner in one place, whatever stop, start, exit attempt or
\* retry fails, for any number of callers, spawns and attempts.
THEOREM BridgeIsConsistent == Spec => []BridgeInv
<1>1. ASSUME Init
      PROVE  BridgeInv
  <2>1. ActorOK /\ NumbersOK /\ LaneOK
    <3>1. ActorOK
      BY <1>1 DEF Init, ActorOK, LoopPcs
    <3>2. NumbersOK
      BY <1>1, BoundsAssumption DEF Init, NumbersOK, StartPcs, Generations, Owners, Spawns, None
    <3>3. LaneOK
      BY <1>1 DEF Init, LaneOK
    <3> QED BY <3>1, <3>2, <3>3
  <2>2. AttemptsOK
    <3>1. {c \in Callers : cpc[c] = "attempt" /\ retry[c]} = {}
      BY <1>1 DEF Init
    <3> QED BY <1>1, <3>1, BoundsAssumption, FS_EmptySet DEF Init, AttemptsOK, EndPcs, GonePcs
  <2>3. CallersOK
    BY <1>1, CallersAssumption DEF Init, CallersOK, CallerPcs
  <2>4. Held = {None}
    BY <1>1, CallersAssumption DEF Init, Held
  <2>5. OwnersOK /\ TreesOK /\ WorkersOK /\ DebtsOK
    BY <1>1, <2>4, BoundsAssumption
    DEF Init, OwnersOK, TreesOK, Guarded, trees, WorkersOK, DebtsOK, StartPcs, GonePcs, EndPcs,
    WorkerPcs,
    Owners, Generations, None, Spawns
  <2> QED BY <2>1, <2>2, <2>3, <2>5 DEF BridgeInv
<1>2. ASSUME BridgeInv, [Next]_vars
      PROVE  BridgeInv'
  <2>1. CASE Actor
    BY <1>2, <2>1, ActorMoveStep, ActorOwnerStep DEF Actor
  <2>2. CASE DeadlinePasses
    BY <1>2, <2>2, OutsideStep
  <2>3. CASE \E s \in Spawns : Worker(s)
    BY <1>2, <2>3, WorkerStep
  <2>4. CASE \E c \in Callers : Enter(c) \/ Caller(c)
    BY <1>2, <2>4, EnterStep, BeginStep, CallerMoveStep, TakeStep, RetireStep DEF Caller
  <2>5. CASE UNCHANGED vars
    <3>1. Held' = Held
      BY <2>5 DEF vars, Held, owners, exitLedger, record, callers
    <3> USE <1>2, <2>5, <3>1 DEF vars, actor, owners, signals, exitLedger, record, exitControl, channel, callers
    <3>2. ActorOK' /\ NumbersOK' /\ LaneOK' /\ CallersOK'
      BY DEF BridgeInv, ActorOK, NumbersOK, LaneOK, CallersOK
    <3>3. AttemptsOK'
      BY DEF BridgeInv, AttemptsOK
    <3>4. OwnersOK' /\ TreesOK' /\ WorkersOK' /\ DebtsOK'
      BY DEF BridgeInv, OwnersOK, TreesOK, Guarded, trees, WorkersOK, DebtsOK
    <3> QED BY <3>2, <3>3, <3>4 DEF BridgeInv
  <2> QED BY <1>2, <2>1, <2>2, <2>3, <2>4, <2>5 DEF Next
<1> QED BY <1>1, <1>2, PTL DEF Spec

\* exit_ready and a shutdown that reports success leave no worker and no sidecar that an
\* owner still had to reap, and a dropped bridge that leaves one has recorded the forced
\* exit or logged that it could not.
THEOREM ExitsAreAccounted == Spec => []ExitIsAccounted
<1>1. ASSUME BridgeInv
      PROVE  ExitIsAccounted
  <2>1. ASSUME ExitReady \/ \E c \in Callers : result[c] = "ok"
        PROVE  NothingLeft
    <3>1. apc \in GonePcs /\ fault = 0
      BY <1>1, <2>1 DEF BridgeInv, ActorOK, DebtsOK, ExitReady, GonePcs
    <3>2. Held = {None}
      BY <1>1, <3>1 DEF BridgeInv, DebtsOK
    <3> QED BY <1>1, <3>2, NoOwnerNothingLeft
  <2>2. cpc[Dropper] = "returned" /\ ~NothingLeft => recovery \/ unwritten
    BY <1>1, <2>1, CallersAssumption DEF BridgeInv, CallersOK
  <2> QED BY <2>1, <2>2 DEF ExitIsAccounted, ExitIsClean, UncleanDropIsRecorded
<1> QED BY <1>1, BridgeIsConsistent, PTL

\* A sidecar not yet reaped has an owner somebody can still shut down, unless its spawn
\* failed halfway, and a debt on record has an owner that can pay it.
THEOREM OwnersAreRecoverable == Spec => []OwnerIsRecoverable
<1>1. ASSUME BridgeInv
      PROVE  OwnerIsRecoverable
  BY <1>1 DEF BridgeInv, TreesOK, Guarded, trees, DebtsOK, OwnerIsRecoverable, OwnerReachable,
     DebtIsPayable
<1> QED BY <1>1, BridgeIsConsistent, PTL

\* The actor never owns two sidecars that may run, and it finds the end of its runtime's worker in
\* the terminal slot.
THEOREM RuntimeStaysTracked == Spec => []RuntimeIsTracked
<1>1. ASSUME BridgeInv
      PROVE  RuntimeIsTracked
  <2>1. TypeOK
    <3>1. lane \subseteq Callers /\ Cardinality(lane) <= 1
      <4>1. CASE lane = {}
        BY <4>1, FS_EmptySet
      <4>2. CASE \E c \in Callers : lane = {c}
        <5>1. PICK c \in Callers : lane = {c}
          BY <4>2
        <5>2. Cardinality({c}) = 1
          BY FS_Singleton
        <5> QED BY <5>1, <5>2
      <4> QED BY <1>1, <4>1, <4>2 DEF BridgeInv, LaneOK
    <3>2. /\ apc \in {"top", "exit", "terminal", "command", "stop", "components", "finish", "answer",
                      "final", "leave", "marked", "ended", "attach", "failed", "install",
                      "handshake", "verified", "publish"}
          /\ ret \in {"top", "reply", "command", "final", "start"}
          /\ {stopOk, supOk, finished, gone, completed, done, recovery, unwritten, sawCancel}
               \subseteq BOOLEAN
      BY <1>1 DEF BridgeInv, ActorOK, LoopPcs, EndPcs, GonePcs, StartPcs
    <3>3. /\ {runtime, pending, starting, quarantine, hook} \subseteq Owners
          /\ {current, slot, fault, detached} \subseteq Generations
      BY <1>1 DEF BridgeInv, OwnersOK, NumbersOK, DebtsOK
    <3>4. spawns \in 0..MaxSpawns /\ nextGen \in 1..(MaxSpawns + 1) /\ gen \in [Spawns -> 1..MaxSpawns]
      BY <1>1, BoundsAssumption DEF BridgeInv, NumbersOK
    <3>5. /\ attempt \in 0..MaxAttempts /\ expired \subseteq 1..MaxAttempts
          /\ retry \in [Callers -> BOOLEAN] /\ mine \in [Callers -> 0..MaxAttempts]
      BY <1>1 DEF BridgeInv, AttemptsOK
    <3>6. /\ sessionClosed \subseteq Spawns /\ torn \subseteq Spawns /\ released \subseteq Spawns
          /\ serving \subseteq Callers
          /\ reply \in [Callers -> {"none", "ok", "err", "dropped"}]
          /\ hand \in [Callers -> Owners]
      BY <1>1 DEF BridgeInv, NumbersOK, TreesOK, Guarded, trees, LaneOK, OwnersOK
    <3>7. /\ cpc \in [Callers -> {"idle", "attempt", "hook", "send", "await", "gate", "owed", "retire",
                                  "repaid", "promote", "verdict", "returned"}]
          /\ result \in [Callers -> {"none", "ok", "failed", "unavailable"}]
          /\ dpc \in [Spawns -> {"none", "running", "faulting", "ending", "cleared", "done"}]
      BY <1>1 DEF BridgeInv, CallersOK, WorkersOK, CallerPcs, WorkerPcs
    <3> QED BY <3>1, <3>2, <3>3, <3>4, <3>5, <3>6, <3>7 DEF TypeOK
  <2>2. OneSidecar
    <3>1. \A s, t \in Guarded : s = t
      BY <1>1, OneOwner DEF BridgeInv, TreesOK, Guarded, trees, Spawns, None
    <3>2. Guarded = {} \/ \E s \in Guarded : Guarded = {s}
      BY <3>1
    <3>3. CASE Guarded = {}
      BY <3>3, FS_EmptySet DEF OneSidecar
    <3>4. CASE \E s \in Guarded : Guarded = {s}
      <4>1. PICK s \in Guarded : Guarded = {s}
        BY <3>4
      <4>2. Cardinality({s}) = 1
        BY FS_Singleton
      <4> QED BY <4>1, <4>2 DEF OneSidecar
    <3> QED BY <3>2, <3>3, <3>4
  <2>3. WorkerEndIsSeen
    BY <1>1 DEF BridgeInv, WorkersOK, WorkerEndIsSeen
  <2> QED BY <2>1, <2>2, <2>3 DEF RuntimeIsTracked
<1> QED BY <1>1, BridgeIsConsistent, PTL
=============================================================================
