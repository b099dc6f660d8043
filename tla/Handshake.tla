----------------------------- MODULE Handshake -----------------------------
(***************************************************************************)
(* One generation's start: the initialize exchange, the frame codec that    *)
(* stands before it, the initialized frame under its barrier and watchdog,   *)
(* and the promotion to ready under the gate it shares with a fault.        *)
(* The threads are the supervisor's caller, the writer, its watchdog, the    *)
(* reader and the exit monitor; the sidecar may write anything to stdout.    *)
(***************************************************************************)
EXTENDS Integers, Sequences

CONSTANT MaxHsFrames  \* frames the sidecar sends (a bound of the model)

ASSUME HandshakeAssumption == MaxHsFrames \in Nat

VARIABLES
  starter,   \* the supervisor's thread: where it is, and what it made of the generation
  reply,     \* the initialize response that was delivered to its waiter
  barrier,   \* InitializedBarrier.state
  gate,      \* who holds ready_terminal_gate over several steps
  hsClosed,  \* SessionInner.closed
  once,      \* initialized_sent, ready_notification_claimed, ready_token_consumed
  pen,       \* the writer thread
  dog,       \* its watchdog
  ears,      \* the reader thread: where it is, and the frame it holds
  sidecar,   \* alive, has the challenge (heard), frames sent
  inbox,     \* stdout, not yet read
  hsEvents   \* the event queue

hsVars == <<starter, reply, barrier, gate, hsClosed, once, pen, dog, ears, sidecar, inbox, hsEvents>>

\* A frame by what the codec and the handshake tell apart.
Plain == [framing |-> "whole", json |-> "strict", kind |-> "event", token |-> "none",
          where |-> "params", shape |-> "rpc", error |-> "none", body |-> "sound",
          version |-> <<1, 0, 0>>, instance |-> "own"]

Reply == [Plain EXCEPT !.kind = "reply"]
Ready(t, i) == [Plain EXCEPT !.kind = "ready", !.token = t, !.instance = i]

\* One deviation at a time.
SidecarFrames ==
  {Plain, [Plain EXCEPT !.kind = "request"], [Plain EXCEPT !.framing = "partial"],
   [Plain EXCEPT !.json = "duplicate"], [Plain EXCEPT !.token = "current"],
   Reply, [Reply EXCEPT !.version = <<2, 0, 0>>], [Reply EXCEPT !.version = <<1, 1, 1>>],
   [Reply EXCEPT !.error = "version"], [Reply EXCEPT !.error = "other"],
   [Reply EXCEPT !.error = "revealing"], [Reply EXCEPT !.error = "unlisted"],
   [Reply EXCEPT !.shape = "mixed"], [Reply EXCEPT !.body = "limits"],
   [Reply EXCEPT !.body = "capabilities"],
   Ready("current", "own"), Ready("current", "foreign"), Ready("other", "own"), Ready("none", "own"),
   [Ready("current", "own") EXCEPT !.where = "nested"]}

NoFrame == [Plain EXCEPT !.kind = "none"]

----------------------------------------------------------------------------
(* The codec. *)

\* read_frame and the framing half of decode_frame
Framed(f) == f.framing = "whole"

\* parse_strict_value: duplicate keys are refused at every depth.
Strict(f) == f.json = "strict"

\* reject_raw_token_markers, reject_unknown_root_token_metadata and
\* validate_ready_token_fields: a token stands in a ready frame's params or nowhere.
TokenInPlace(f) ==
  IF f.kind = "ready" THEN f.token # "none" /\ f.where = "params" ELSE f.token = "none"

\* RpcFrame::validate: method, id, params, result and error in one of three forms.
WellShaped(f) == f.shape = "rpc"

\* catalog_entry: code, name and retry hint belong together.
Catalogued(f) == f.error # "unlisted"

\* valid_error_message: no address, path, key or long digest.
SafeWords(f) == f.error # "revealing"

\* parse_error: an error names a catalogue entry in safe words.
ErrorAdmitted(f) == Catalogued(f) /\ SafeWords(f)

\* read_frame: the frame, or the event its failure becomes.
Decoded(f) ==
  IF ~Framed(f) \/ ~Strict(f) THEN "fault"
  ELSE IF ~TokenInPlace(f) THEN (IF f.kind = "ready" THEN "handshake" ELSE "fault")
  ELSE IF ~WellShaped(f) \/ ~ErrorAdmitted(f) THEN "fault" ELSE "frame"

\* frame_payload_is_safe: a ready frame repeats this generation's challenge.
PayloadIsSafe(f) == f.kind = "ready" => f.token = "current"

\* negotiate_version with the host's <<1, 0, 0>>
Negotiates(v) ==
  LET selected == IF v[2] < 0 THEN v[2] ELSE 0
  IN  v[1] = 1 /\ selected >= 0 /\ selected >= v[3]

\* validate_remote_limits: the sidecar repeats the limits it was given.
LimitsHold(f) == f.body # "limits"

\* validate_capabilities, valid_schema_id, valid_version, valid_timestamp
CapabilitiesHold(f) == f.body # "capabilities"

\* check_initialize_result, and the classification of an error reply
ReplyVerdict(f) ==
  IF f.error = "version" THEN "incompatible"
  ELSE IF f.error # "none" THEN "faulted"
  ELSE IF ~Negotiates(f.version) THEN "incompatible"
  ELSE IF ~LimitsHold(f) \/ ~CapabilitiesHold(f) THEN "faulted" ELSE "accepted"

----------------------------------------------------------------------------
HandshakeInit ==
  /\ starter = [at |-> "request", life |-> "starting", verdict |-> "faulted"]
  /\ reply = NoFrame /\ barrier = "NotSent" /\ gate = "free" /\ hsClosed = FALSE
  /\ once = [sent |-> FALSE, claimed |-> FALSE, consumed |-> FALSE]
  /\ pen = [at |-> "idle", ok |-> FALSE, queued |-> FALSE] /\ dog = "off"
  /\ ears = [at |-> "reading", frame |-> NoFrame]
  /\ sidecar = [alive |-> TRUE, heard |-> FALSE, asked |-> FALSE, sent |-> 0]
  /\ inbox = <<>> /\ hsEvents = <<>>

StarterKeeps == UNCHANGED <<starter, reply>>
SessionKeeps == UNCHANGED <<barrier, gate, hsClosed, once>>
WriterKeeps == UNCHANGED <<pen, dog>>
PipeKeeps == UNCHANGED <<ears, inbox>>

\* EventQueue::push
Pushed(e) == IF hsClosed THEN hsEvents ELSE Append(hsEvents, e)

\* The writer holds the barrier's mutex over write, flush and the watchdog's join.
BarrierHeld == pen.at \in {"writing", "joining"}

\* Mutant: a fault does not wait for a promotion under way.
FailClosedUngated ==
  /\ hsClosed' = TRUE
  /\ sidecar' = [sidecar EXCEPT !.alive = FALSE]

\* fail_closed_with_reason, under the gate: the first call runs the terminal callback,
\* which kills the tree.
FailClosed ==
  /\ gate = "free"
  /\ hsClosed' = TRUE
  /\ sidecar' = [sidecar EXCEPT !.alive = FALSE]

(* The supervisor's thread. *)

Moves(at) == starter' = [starter EXCEPT !.at = at]
Fails(verdict) == starter' = [starter EXCEPT !.at = "failing", !.verdict = verdict]

\* Session::request("initialize"): the frame is written and the waiter registered.
StarterAsks ==
  /\ starter.at = "request"
  /\ IF hsClosed THEN Fails("faulted") /\ UNCHANGED sidecar
     ELSE Moves("waiting") /\ sidecar' = [sidecar EXCEPT !.asked = TRUE]
  /\ UNCHANGED <<reply, hsEvents>> /\ SessionKeeps /\ WriterKeeps /\ PipeKeeps

\* The response arrived, or the close or the deadline ended the wait.
StarterJudges ==
  /\ starter.at = "waiting"
  /\ \/ /\ reply # NoFrame
        /\ LET v == ReplyVerdict(reply) IN IF v = "accepted" THEN Moves("notify") ELSE Fails(v)
     \/ reply = NoFrame /\ Fails("faulted")
  /\ UNCHANGED <<reply, sidecar, hsEvents>> /\ SessionKeeps /\ WriterKeeps /\ PipeKeeps

\* notify_inner("initialized"): once per generation; a refused send gives the claim back.
StarterNotifies ==
  /\ starter.at = "notify"
  /\ IF hsClosed
     THEN Fails("faulted") /\ UNCHANGED <<once, pen>>
     ELSE /\ Moves("pump")
          /\ once' = [once EXCEPT !.sent = TRUE, !.consumed = FALSE]
          /\ pen' = [pen EXCEPT !.queued = TRUE]
  /\ UNCHANGED <<reply, barrier, gate, hsClosed, dog, sidecar, hsEvents>> /\ PipeKeeps

\* The pump loop: a server request is refused, other events pass, a fault ends the start.
StarterPumps ==
  /\ starter.at = "pump" /\ hsEvents # <<>>
  /\ hsEvents' = Tail(hsEvents)
  /\ LET e == Head(hsEvents) IN
       CASE e.kind = "ready" -> IF e.instance = "own" THEN Moves("gate") ELSE Fails("faulted")
         [] e.kind = "fault" -> Fails("faulted")
         [] OTHER -> UNCHANGED starter
  /\ UNCHANGED <<reply, sidecar>> /\ SessionKeeps /\ WriterKeeps /\ PipeKeeps

\* The deadline, or a closed and empty queue.
StarterExpires ==
  /\ starter.at = "pump" /\ Fails("faulted")
  /\ UNCHANGED <<reply, sidecar, hsEvents>> /\ SessionKeeps /\ WriterKeeps /\ PipeKeeps

\* with_ready_promotion takes the gate ...
PromotionEnters ==
  /\ starter.at = "gate" /\ gate = "free"
  /\ IF hsClosed THEN Fails("faulted") /\ UNCHANGED gate
     ELSE Moves("checking") /\ gate' = "starter"
  /\ UNCHANGED <<reply, barrier, hsClosed, once, sidecar, hsEvents>> /\ WriterKeeps /\ PipeKeeps

\* ... and, behind the barrier's mutex, consumes the challenge, whose token the reader
\* compared when the notification was claimed and nobody has changed since ...
PromotionChecks ==
  /\ starter.at = "checking" /\ ~BarrierHeld
  /\ IF ~hsClosed /\ barrier = "Confirmed" /\ once.claimed /\ ~once.consumed
     THEN Moves("marking") /\ once' = [once EXCEPT !.consumed = TRUE] /\ UNCHANGED gate
     ELSE Fails("faulted") /\ gate' = "free" /\ UNCHANGED once
  /\ UNCHANGED <<reply, barrier, hsClosed, sidecar, hsEvents>> /\ WriterKeeps /\ PipeKeeps

\* ... and marks the lifecycle ready before it lets the gate go.
PromotionMarks ==
  /\ starter.at = "marking"
  /\ starter' = [starter EXCEPT !.at = "ready", !.life = "ready"] /\ gate' = "free"
  /\ UNCHANGED <<reply, barrier, hsClosed, once, sidecar, hsEvents>> /\ WriterKeeps /\ PipeKeeps

\* fail_generation_until: the session is closed, then the lifecycle learns why.
StarterFails ==
  /\ starter.at = "failing"
  /\ FailClosed
  /\ starter' = [starter EXCEPT !.at = "failed", !.life = starter.verdict]
  /\ UNCHANGED <<reply, barrier, gate, once, hsEvents>> /\ WriterKeeps /\ PipeKeeps

(* The writer and its watchdog. *)

\* begin_send, and the watchdog's thread.
PenBegins ==
  /\ pen.at = "idle" /\ pen.queued /\ ~hsClosed
  /\ \/ /\ barrier = "NotSent" /\ barrier' = "Sending" /\ dog' = "armed"
        /\ pen' = [pen EXCEPT !.at = "writing", !.queued = FALSE]
     \/ \* the watchdog could not be spawned
        /\ barrier = "NotSent" /\ barrier' = "Failed" /\ UNCHANGED dog
        /\ pen' = [pen EXCEPT !.at = "failing", !.queued = FALSE]
  /\ UNCHANGED <<gate, hsClosed, once, sidecar, hsEvents>> /\ StarterKeeps /\ PipeKeeps

\* The bytes reach the sidecar before flush has returned.
SidecarHears ==
  /\ pen.at = "writing" /\ sidecar.alive /\ ~sidecar.heard
  /\ sidecar' = [sidecar EXCEPT !.heard = TRUE]
  /\ UNCHANGED hsEvents /\ StarterKeeps /\ SessionKeeps /\ WriterKeeps /\ PipeKeeps

\* write_all and flush return: a blocked pipe only does when its reader is gone.
PenReturns ==
  /\ pen.at = "writing" /\ (sidecar.heard \/ ~sidecar.alive)
  /\ \E ok \in {sidecar.heard, FALSE} : pen' = [pen EXCEPT !.at = "joining", !.ok = ok]
  /\ dog' = IF dog = "armed" THEN "off" ELSE dog
  /\ UNCHANGED <<sidecar, hsEvents>> /\ StarterKeeps /\ SessionKeeps /\ PipeKeeps

\* The watchdog was joined: InitializedSendGuard::complete.
PenCompletes ==
  /\ pen.at = "joining" /\ dog # "fired"
  /\ LET fine == pen.ok /\ dog = "off"
     IN  /\ barrier' = IF fine /\ ~hsClosed THEN "Confirmed" ELSE "Failed"
         /\ pen' = [pen EXCEPT !.at = IF fine THEN "idle" ELSE "failing"]
  /\ UNCHANGED <<gate, hsClosed, once, dog, sidecar, hsEvents>> /\ StarterKeeps /\ PipeKeeps

\* writer_loop: a failed write is published, then closes the session.
PenFails ==
  /\ pen.at = "failing"
  /\ FailClosed
  /\ hsEvents' = Pushed([kind |-> "fault", instance |-> "own"])
  /\ pen' = [pen EXCEPT !.at = "dead"]
  /\ UNCHANGED <<barrier, gate, once, dog>> /\ StarterKeeps /\ PipeKeeps

DogFires ==
  /\ dog = "armed" /\ dog' = "fired"
  /\ UNCHANGED <<pen, sidecar, hsEvents>> /\ StarterKeeps /\ SessionKeeps /\ PipeKeeps

DogCloses ==
  /\ dog = "fired" /\ dog' = "done"
  /\ FailClosed
  /\ UNCHANGED <<barrier, gate, once, pen, hsEvents>> /\ StarterKeeps /\ PipeKeeps

(* The sidecar, the reader and the monitor. *)

SidecarSends(f) ==
  /\ sidecar.alive /\ sidecar.asked /\ sidecar.sent < MaxHsFrames
  /\ f.token = "current" => sidecar.heard
  /\ inbox' = Append(inbox, f) /\ sidecar' = [sidecar EXCEPT !.sent = @ + 1]
  /\ UNCHANGED <<ears, hsEvents>> /\ StarterKeeps /\ SessionKeeps /\ WriterKeeps

SidecarDies ==
  /\ sidecar.alive /\ sidecar' = [sidecar EXCEPT !.alive = FALSE]
  /\ UNCHANGED hsEvents /\ StarterKeeps /\ SessionKeeps /\ WriterKeeps /\ PipeKeeps

Faulted ==
  /\ ears' = [ears EXCEPT !.at = "failing"]
  /\ hsEvents' = Pushed([kind |-> "fault", instance |-> "own"])

Delivered(f) == hsEvents' = Pushed([kind |-> f.kind, instance |-> f.instance])

\* reader_loop and dispatch_frame
EarsRead ==
  /\ ears.at = "reading" /\ ~hsClosed /\ inbox # <<>>
  /\ inbox' = Tail(inbox)
  /\ LET f == Head(inbox) IN
       IF Decoded(f) # "frame" \/ ~PayloadIsSafe(f)
       THEN Faulted /\ UNCHANGED reply
       ELSE CASE f.kind = "reply" ->
                   IF starter.at = "waiting" /\ reply = NoFrame
                   THEN reply' = f /\ UNCHANGED <<ears, hsEvents>>
                   ELSE Faulted /\ UNCHANGED reply
              [] f.kind = "ready" ->
                   ears' = [at |-> "claiming", frame |-> f] /\ UNCHANGED <<reply, hsEvents>>
              [] OTHER -> Delivered(f) /\ UNCHANGED <<reply, ears>>
  /\ UNCHANGED <<starter, sidecar>> /\ SessionKeeps /\ WriterKeeps

EarsEof ==
  /\ ears.at = "reading" /\ ~hsClosed /\ inbox = <<>> /\ ~sidecar.alive
  /\ Faulted
  /\ UNCHANGED <<inbox, sidecar>> /\ StarterKeeps /\ SessionKeeps /\ WriterKeeps

\* Mutant: the reader claims the ready slot without asking the barrier.
EarsClaimUnbarred ==
  /\ ears.at = "claiming"
  /\ IF hsClosed \/ once.claimed
     THEN Faulted /\ UNCHANGED once
     ELSE /\ once' = [once EXCEPT !.claimed = TRUE]
          /\ ears' = [ears EXCEPT !.at = "reading"] /\ Delivered(ears.frame)
  /\ UNCHANGED <<barrier, gate, hsClosed, inbox, sidecar>> /\ StarterKeeps /\ WriterKeeps

\* claim_ready waits for the writer, and accepts one ready after a confirmed write.
EarsClaim ==
  /\ ears.at = "claiming" /\ ~BarrierHeld
  /\ IF hsClosed \/ barrier # "Confirmed" \/ once.claimed
     THEN Faulted /\ UNCHANGED once
     ELSE /\ once' = [once EXCEPT !.claimed = TRUE]
          /\ ears' = [ears EXCEPT !.at = "reading"] /\ Delivered(ears.frame)
  /\ UNCHANGED <<barrier, gate, hsClosed, inbox, sidecar>> /\ StarterKeeps /\ WriterKeeps

EarsFail ==
  /\ ears.at = "failing"
  /\ FailClosed
  /\ ears' = [ears EXCEPT !.at = "dead"]
  /\ UNCHANGED <<barrier, gate, once, inbox, hsEvents>> /\ StarterKeeps /\ WriterKeeps

\* The exit monitor: report_process_exit.
MonitorCloses ==
  /\ ~sidecar.alive /\ ~hsClosed
  /\ FailClosed
  /\ hsEvents' = Pushed([kind |-> "fault", instance |-> "own"])
  /\ UNCHANGED <<barrier, gate, once>> /\ StarterKeeps /\ WriterKeeps /\ PipeKeeps

StarterNext ==
  \/ StarterAsks \/ StarterJudges \/ StarterNotifies \/ StarterPumps \/ StarterExpires
  \/ PromotionEnters \/ PromotionChecks \/ PromotionMarks \/ StarterFails
PenNext == PenBegins \/ PenReturns \/ PenCompletes \/ PenFails
DogNext == DogFires \/ DogCloses
EarsNext == EarsRead \/ EarsEof \/ EarsClaim \/ EarsFail

HandshakeNext ==
  \/ StarterNext \/ PenNext \/ DogNext \/ EarsNext \/ MonitorCloses
  \/ SidecarHears \/ SidecarDies \/ \E f \in SidecarFrames : SidecarSends(f)

\* Threads run and deadlines pass; the sidecar owes nothing.
HandshakeFair ==
  /\ WF_hsVars(StarterNext) /\ WF_hsVars(PenNext) /\ WF_hsVars(DogNext) /\ WF_hsVars(EarsNext)
  /\ WF_hsVars(MonitorCloses)

HandshakeSpec == HandshakeInit /\ [][HandshakeNext]_hsVars /\ HandshakeFair

-----------------------------------------------------------------------------
(* Properties. *)

\* A generation becomes ready only over an open session whose initialized frame was
\* written and flushed in time, for the one ready frame that repeated the challenge:
\* no fault fits between the checks and the mark (with_ready_promotion).
ReadyIsGenuine ==
  [][starter'.life = "ready" /\ starter.life # "ready" =>
       ~hsClosed /\ barrier = "Confirmed" /\ sidecar.heard /\ once.consumed /\ dog # "fired"]_hsVars

\* A start that waits for the sidecar returns, whatever the sidecar does: the gate, the
\* barrier and the watchdog's join never wait for one another in a circle.
HandshakeEnds == starter.at = "waiting" ~> starter.at \in {"ready", "failed"}
=============================================================================
