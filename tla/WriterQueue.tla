----------------------------- MODULE WriterQueue -----------------------------
(***************************************************************************)
(* The stdin writer of one sidecar session (agent_process/wire.rs): the    *)
(* threads in WriterHandle::send, the writer actor in writer_loop with its *)
(* two bounded lanes, and the wake sequence that replaces polling.         *)
(*                                                                         *)
(* A member of Sends is one call of send and stands for its frame.  Every  *)
(* atomic access and every lock region is a step of its own; the child's   *)
(* pipe is external and may accept a frame, fail, or hang.                 *)
(***************************************************************************)
EXTENDS Integers, Sequences, FiniteSets, FiniteSetsExt

CONSTANTS Sends,       \* calls of WriterHandle::send, one frame each
          LaneOf,      \* the EventPriority of each
          Size,        \* its frame length in bytes
          Capacity,    \* bound of each lane's sync_channel
          MaxBytes,    \* byte budget of each lane
          MaxBurst     \* MAX_CONTROL_BURST

Lanes == {"control", "data"}

ASSUME SendsAssumption == LaneOf \in [Sends -> Lanes] /\ Size \in [Sends -> Nat]
ASSUME LanesAssumption == Capacity \in [Lanes -> Nat] /\ MaxBytes \in [Lanes -> Nat]
ASSUME BurstAssumption == MaxBurst \in Nat \ {0}

VARIABLES
  pc,          \* where each call is in send
  queue,       \* the two channels
  bytes,       \* control_queued_bytes and data_queued_bytes
  seq,         \* WriterWake.sequence
  closePhase,  \* "flagged": closed.swap is done, writer.close() is not
  wpc,         \* where the actor is in writer_loop
  observed,    \* its observed_sequence
  burst,       \* its control_burst
  frame,       \* the frame in its hands, or NoFrame
  fired,       \* the write watchdog timed out
  written,     \* frames the pipe took
  passed       \* history: control frames taken since data began to wait

wvars == <<wpc, observed, burst, frame, fired, written, passed>>
vars == <<pc, queue, bytes, seq, closePhase, wvars>>

NoFrame == "none"
Closed == closePhase # "open"
Pending(s) == pc[s] = "notify"

Init ==
  /\ pc = [s \in Sends |-> "idle"]
  /\ queue = [l \in Lanes |-> << >>]
  /\ bytes = [l \in Lanes |-> 0]
  /\ seq = 0
  /\ closePhase = "open"
  /\ wpc = "start"
  /\ observed = 0
  /\ burst = 0
  /\ frame = NoFrame
  /\ fired = FALSE
  /\ written = {}
  /\ passed = 0

-----------------------------------------------------------------------------
(* WriterHandle::send.                                                     *)

Goto(s, label) == pc' = [pc EXCEPT ![s] = label]

\* The errors after which handle_writer_error closes the session.
Fatal(s) == LaneOf[s] = "control"

Check(s) ==
  /\ pc[s] = "idle"
  /\ Goto(s, IF Closed THEN "done" ELSE "reserve")
  /\ UNCHANGED <<queue, bytes, seq, closePhase, wvars>>

\* reserve_bytes: the compare-and-swap loop is one atomic addition.
OverBudget(s) == Size[s] > MaxBytes[LaneOf[s]] - bytes[LaneOf[s]]

Reserve(s) ==
  /\ pc[s] = "reserve"
  /\ IF OverBudget(s)
       THEN Goto(s, IF Fatal(s) THEN "failclosed" ELSE "done") /\ UNCHANGED bytes
       ELSE /\ bytes' = [bytes EXCEPT ![LaneOf[s]] = @ + Size[s]]
            /\ Goto(s, "recheck")
  /\ UNCHANGED <<queue, seq, closePhase, wvars>>

GiveBack(s) == bytes' = [bytes EXCEPT ![LaneOf[s]] = @ - Size[s]]

Recheck(s) ==
  /\ pc[s] = "recheck"
  /\ IF Closed
       THEN Goto(s, "done") /\ GiveBack(s)
       ELSE Goto(s, "push") /\ UNCHANGED bytes
  /\ UNCHANGED <<queue, seq, closePhase, wvars>>

\* try_send: accepted, full, or disconnected because the actor returned.
Push(s) ==
  /\ pc[s] = "push"
  /\ LET l == LaneOf[s] IN
     IF wpc # "exit" /\ Len(queue[l]) < Capacity[l]
       THEN /\ queue' = [queue EXCEPT ![l] = Append(@, s)]
            /\ Goto(s, "notify")
            /\ UNCHANGED bytes
       ELSE /\ Goto(s, IF wpc = "exit" \/ Fatal(s) THEN "failclosed" ELSE "done")
            /\ GiveBack(s)
            /\ UNCHANGED queue
  /\ UNCHANGED <<seq, closePhase, wvars>>

\* WriterWake::notify, under the sequence lock.
Bump ==
  /\ seq' = seq + 1
  /\ wpc' = IF wpc = "waiting" THEN "woken" ELSE wpc
  /\ UNCHANGED <<observed, burst, frame, fired, written, passed>>

Notify(s) ==
  /\ Pending(s)
  /\ Bump
  /\ Goto(s, "done")
  /\ UNCHANGED <<queue, bytes, closePhase>>

\* fail_closed of a sender: begin the close, or wait for the one under way.
SendFailClosed(s) ==
  /\ pc[s] = "failclosed"
  /\ \/ closePhase = "open" /\ closePhase' = "flagged" /\ UNCHANGED pc
     \/ closePhase = "closed" /\ Goto(s, "done") /\ UNCHANGED closePhase
  /\ UNCHANGED <<queue, bytes, seq, wvars>>

-----------------------------------------------------------------------------
(* The close.                                                              *)

\* Reader faults, process exit, Session::close: closed.swap under the gate.
CloseElsewhere ==
  /\ closePhase = "open"
  /\ closePhase' = "flagged"
  /\ UNCHANGED <<pc, queue, bytes, seq, wvars>>

\* WriterHandle::close by the thread that swapped the flag.
CloseSilently ==
  /\ closePhase = "flagged"
  /\ closePhase' = "closed"
  /\ UNCHANGED <<pc, queue, bytes, seq, wvars>>
CloseWriter ==
  /\ closePhase = "flagged"
  /\ closePhase' = "closed"
  /\ Bump
  /\ UNCHANGED <<pc, queue, bytes>>

-----------------------------------------------------------------------------
(* writer_loop.                                                            *)

WriterStart ==
  /\ wpc = "start"
  /\ observed' = seq
  /\ wpc' = "loop"
  /\ UNCHANGED <<pc, queue, bytes, seq, closePhase, burst, frame, fired, written, passed>>

\* The loop condition and the first test of next_frame.
DataNeverFirst == FALSE
DataFirst == burst >= MaxBurst

WriterLoop ==
  /\ wpc = "loop"
  /\ wpc' = CASE Closed -> "exit" [] ~Closed /\ DataFirst -> "datafirst" [] OTHER -> "control"
  /\ UNCHANGED <<pc, queue, bytes, seq, closePhase, observed, burst, frame, fired, written, passed>>

\* try_recv on lane l: the frame goes to the actor, or it looks elsewhere.
TryRecv(l, burstThen, passedThen, otherwise) ==
  /\ IF queue[l] # << >>
       THEN /\ frame' = Head(queue[l])
            /\ queue' = [queue EXCEPT ![l] = Tail(@)]
            /\ burst' = burstThen
            /\ passed' = passedThen
            /\ wpc' = "release"
       ELSE /\ wpc' = otherwise
            /\ UNCHANGED <<queue, burst, frame, passed>>
  /\ UNCHANGED <<pc, bytes, seq, closePhase, observed, fired, written>>

TakeDataFirst == wpc = "datafirst" /\ TryRecv("data", 0, 0, "control")
TakeControl ==
  /\ wpc = "control"
  /\ TryRecv("control", burst + 1, IF queue["data"] = << >> THEN 0 ELSE passed + 1, "data")
TakeData == wpc = "data" /\ TryRecv("data", 0, 0, "park")

\* WriterHandle::release before the frame is written.
ReleasedNothing(s) == bytes
Released(s) == [bytes EXCEPT ![LaneOf[s]] = @ - Size[s]]

Release ==
  /\ wpc = "release"
  /\ bytes' = Released(frame)
  /\ wpc' = "write"
  /\ UNCHANGED <<pc, queue, seq, closePhase, observed, burst, frame, fired, written, passed>>

\* Nothing to take: under the sequence lock, stop, sleep, or look again.
ParkBlindly == TRUE
MaySleep == seq = observed

Park ==
  /\ wpc = "park"
  /\ wpc' = CASE Closed -> "exit" [] ~Closed /\ MaySleep -> "waiting" [] OTHER -> "loop"
  /\ observed' = IF ~Closed /\ ~MaySleep THEN seq ELSE observed
  /\ UNCHANGED <<pc, queue, bytes, seq, closePhase, burst, frame, fired, written, passed>>

\* Condvar::wait returned, by a notification or spuriously.
Resume(from) ==
  /\ wpc = from
  /\ observed' = seq
  /\ wpc' = "loop"
  /\ UNCHANGED <<pc, queue, bytes, seq, closePhase, burst, frame, fired, written, passed>>

\* write_frame_with_watchdog returned.  A watchdog that fired is joined first,
\* so its fail_closed is complete, and the frame counts as failed.
WriteOk ==
  /\ wpc = "write"
  /\ ~fired
  /\ written' = written \cup {frame}
  /\ frame' = NoFrame
  /\ wpc' = "wrote"
  /\ UNCHANGED <<pc, queue, bytes, seq, closePhase, observed, burst, fired, passed>>

WriteFails ==
  /\ wpc = "write"
  /\ fired => closePhase = "closed"
  /\ frame' = NoFrame
  /\ wpc' = "failclosed"
  /\ UNCHANGED <<pc, queue, bytes, seq, closePhase, observed, burst, fired, written, passed>>

AfterWrite ==
  /\ wpc = "wrote"
  /\ observed' = seq
  /\ wpc' = "loop"
  /\ UNCHANGED <<pc, queue, bytes, seq, closePhase, burst, frame, fired, written, passed>>

WriterFailClosed ==
  /\ wpc = "failclosed"
  /\ \/ closePhase = "open" /\ closePhase' = "flagged" /\ UNCHANGED wpc
     \/ closePhase = "closed" /\ wpc' = "exit" /\ UNCHANGED closePhase
  /\ UNCHANGED <<pc, queue, bytes, seq, observed, burst, frame, fired, written, passed>>

\* The watchdog thread: the frame outlived the write timeout.
Watchdog ==
  /\ wpc = "write"
  /\ ~fired
  /\ fired' = TRUE
  /\ UNCHANGED <<pc, queue, bytes, seq, closePhase, wpc, observed, burst, frame, written, passed>>

WatchdogFailClosed ==
  /\ wpc = "write"
  /\ fired
  /\ closePhase = "open"
  /\ closePhase' = "flagged"
  /\ UNCHANGED <<pc, queue, bytes, seq, wvars>>

SendStep(s) ==
  \/ Check(s) \/ Reserve(s) \/ Recheck(s) \/ Push(s) \/ Notify(s) \/ SendFailClosed(s)

WriterStep ==
  \/ WriterStart \/ WriterLoop \/ TakeDataFirst \/ TakeControl \/ TakeData
  \/ Release \/ Park \/ Resume("woken") \/ AfterWrite \/ WriterFailClosed

Next ==
  \/ \E s \in Sends : SendStep(s)
  \/ CloseElsewhere \/ CloseWriter
  \/ WriterStep \/ Resume("waiting")
  \/ WriteOk \/ WriteFails \/ Watchdog \/ WatchdogFailClosed

Spec == Init /\ [][Next]_vars

\* Threads run; the watchdog's timer fires; a write that hangs fails once the
\* close has killed the child.  Nothing wakes the actor by luck.
Fairness ==
  /\ \A s \in Sends : WF_vars(SendStep(s))
  /\ WF_vars(WriterStep)
  /\ WF_vars(CloseWriter)
  /\ WF_vars(Watchdog)
  /\ WF_vars(WatchdogFailClosed)
  /\ WF_vars(closePhase = "closed" /\ WriteFails)

FairSpec == Spec /\ Fairness

-----------------------------------------------------------------------------
(* Properties.                                                             *)

SendPc == {"idle", "reserve", "recheck", "push", "notify", "failclosed", "done"}
WriterPc == {"start", "loop", "datafirst", "control", "data", "release", "write", "wrote",
             "park", "waiting", "woken", "failclosed", "exit"}

\* Types.  A byte counter below zero would be a wrapped usize, and a lane above
\* its budget a reserve_bytes that let two senders past the limit.
TypeOK ==
  /\ pc \in [Sends -> SendPc]
  /\ queue \in [Lanes -> Seq(Sends)]
  /\ DOMAIN bytes = Lanes
  /\ \A l \in Lanes : bytes[l] \in 0..MaxBytes[l]
  /\ seq \in Nat /\ observed \in Nat /\ burst \in Nat /\ passed \in Nat
  /\ closePhase \in {"open", "flagged", "closed"}
  /\ wpc \in WriterPc
  /\ frame \in Sends \cup {NoFrame}
  /\ fired \in BOOLEAN
  /\ written \subseteq Sends

\* The actor never sleeps over work: while it waits on the condition variable, a
\* queued frame has a sender that has yet to notify, and a close its notify.
NoLostWakeup ==
  wpc = "waiting" =>
    /\ (\E l \in Lanes : queue[l] # << >>) => \E s \in Sends : Pending(s)
    /\ closePhase # "closed"

\* A lane's counter is exactly the frames queued in it, those being pushed and
\* the one the actor has taken but not released: no failed send leaks budget.
Charged(l) ==
  {s \in Sends : LaneOf[s] = l /\ \/ pc[s] \in {"recheck", "push"}
                                  \/ wpc = "release" /\ frame = s
                                  \/ \E i \in 1..Len(queue[l]) : queue[l][i] = s}
BytesAgree == \A l \in Lanes : bytes[l] = MapThenSumSet(LAMBDA s : Size[s], Charged(l))

\* The lanes keep their types and bounds, and their budgets what they have queued.
LanesAgree == TypeOK /\ BytesAgree

\* Once a data frame waits, at most MaxBurst control frames go before it, also
\* when it arrives between the try_recv calls of next_frame.
BurstFair == passed <= MaxBurst

\* Frames in a lane are written or the session closes: a full burst, a sleeping
\* actor or a hung child does not keep them.
Queued == {s \in Sends : \E l \in Lanes : \E i \in 1..Len(queue[l]) : queue[l][i] = s}
FramesDrain == Queued # {} ~> Queued = {} \/ Closed

\* A close ends the actor, wherever it was, so that the join can succeed.
CloseEndsWriter == Closed ~> wpc = "exit"

-----------------------------------------------------------------------------
(* The strengthening that makes NoLostWakeup and BurstFair inductive.      *)

Shape ==
  /\ pc \in [Sends -> SendPc]
  /\ queue \in [Lanes -> Seq(Sends)]
  /\ seq \in Nat /\ observed \in Nat /\ burst \in Nat /\ passed \in Nat
  /\ closePhase \in {"open", "flagged", "closed"}
  /\ wpc \in WriterPc

\* From the moment the actor found a lane empty, a frame in that lane means that
\* the sequence has moved or is about to.
Wakeups ==
  /\ observed <= seq
  /\ wpc \in {"data", "park", "waiting"} /\ observed = seq /\ queue["control"] # << >>
       => \E s \in Sends : Pending(s)
  /\ wpc \in {"park", "waiting"} /\ observed = seq /\ queue["data"] # << >>
       => \E s \in Sends : Pending(s)
  /\ wpc = "waiting" => observed = seq /\ closePhase # "closed"

\* A used-up burst reaches the control lane only when no data waits.
Bursts ==
  /\ passed <= burst
  /\ passed <= MaxBurst
  /\ queue["data"] = << >> => passed = 0
  /\ wpc = "control" /\ burst >= MaxBurst => passed = 0

WInv == Shape /\ Wakeups /\ Bursts
=============================================================================
