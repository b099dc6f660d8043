--------------------------- MODULE PendingRequests ---------------------------
(***************************************************************************)
(* Client requests of one sidecar session: Session::request_inner          *)
(* (agent_process/session.rs), the pending registry (pending.rs), the      *)
(* reader that resolves responses (wire.rs) and the one-time close.        *)
(*                                                                         *)
(* A member of Calls is one invocation of request_inner by some thread.    *)
(* A lock region of the code is one step, so the registry, the admission   *)
(* gate and the session close interleave as the threads can.  The sidecar  *)
(* is external: it may answer a written request late, twice or never, and  *)
(* may answer an id nobody allocated (StrayId).                            *)
(***************************************************************************)
EXTENDS Naturals, Sequences, FiniteSets

CONSTANTS Calls,          \* invocations of request_inner
          Gated,          \* those passing the admission gate (request_with_gate)
          Handlers,       \* those serving nested server requests while waiting
          ControlCalls,   \* "shutdown" and "runtime/*": the control lane
          MaxActive,      \* min(max_pending_requests, max_in_flight_requests)
          MaxTombstones,  \* Limits::max_tombstones
          MaxLedger,      \* MAX_OUTBOUND_REQUEST_LEDGER
          MaxAnswers      \* bound: answers the sidecar gives to one id

\* Nobody holds the admission mutex.
NoCall == "nobody"

ASSUME CallsAssumption == /\ NoCall \notin Calls
                          /\ Gated \subseteq Calls
                          /\ Handlers \subseteq Calls
                          /\ ControlCalls \subseteq Calls
ASSUME LimitsAssumption == /\ MaxActive \in Nat \ {0}
                           /\ MaxTombstones \in Nat \ {0}
                           /\ MaxLedger \in Nat \ {0}
                           /\ MaxAnswers \in Nat \ {0}

VARIABLES
  pc,          \* where each call is in request_inner
  idOf,        \* the id its frame carries, 0 before allocate
  result,      \* what the call returned
  next,        \* OutboundRequestLedger: the next id number
  active,      \* PendingRegistry.active: the ids with a waiter
  due,         \* the ids whose deadline has passed
  chan,        \* the one-shot channel of each id
  tombstones,  \* PendingRegistry.tombstones, oldest first
  stopping,    \* the supervisor's admission flag
  gate,        \* the call holding the admission mutex, or NoCall
  closePhase,  \* "closing" is the stretch between closed.swap and pending.close
  enqueued,    \* ids whose frame the writer queue accepted
  answers,     \* answers in the pipe or already read, per id
  wire,        \* answers in the pipe, per id
  reader       \* reader_loop

vars == <<pc, idOf, result, next, active, due, chan, tombstones, stopping,
          gate, closePhase, enqueued, answers, wire, reader>>

StrayId == 0
Ids == 1..MaxLedger

Terminal == {"Resolved", "TimedOut", "Cancelled"}
Outcome == {"ok", "DeadlineExceeded", "Cancelled", "SessionClosed"}
Result == Outcome \cup {"none", "ShuttingDown", "HandshakeFailed", "Encode",
                        "LedgerExhausted", "RegisterRefused", "QueueFull", "QueueClosed"}
Closed == closePhase # "open"

Tombstoned(id) == \E i \in 1..Len(tombstones) : tombstones[i].id = id

Init ==
  /\ pc = [c \in Calls |-> "idle"]
  /\ idOf = [c \in Calls |-> 0]
  /\ result = [c \in Calls |-> "none"]
  /\ next = 1
  /\ active = {}
  /\ due = {}
  /\ chan = [id \in Ids |-> "none"]
  /\ tombstones = << >>
  /\ stopping = FALSE
  /\ gate = NoCall
  /\ closePhase = "open"
  /\ enqueued = {}
  /\ answers = [id \in Ids \cup {StrayId} |-> 0]
  /\ wire = [id \in Ids \cup {StrayId} |-> 0]
  /\ reader = "check"

-----------------------------------------------------------------------------
(* The registry.  Every operation runs under the session's pending mutex.  *)

\* The last n elements of s: popping the front while the ledger is over its cap.
Newest(s, n) == IF Len(s) <= n THEN s ELSE SubSeq(s, Len(s) - n + 1, Len(s))

\* The orders in which a hash map may enumerate the ids of a set.
Orders(S) == {o \in [1..Cardinality(S) -> S] : \A i, j \in DOMAIN o : o[i] = o[j] => i = j}

\* remember() first drops an older tombstone of the same id.  There is none: an
\* active id has no tombstone (TombstoneAgrees).
Remembered(order, terminal) ==
  LET added == [i \in DOMAIN order |-> [id |-> order[i], terminal |-> terminal]]
  IN Newest(tombstones \o added, MaxTombstones)

\* Remove the entries S, send each waiter its outcome, leave tombstones.
Finish(S, outcome, terminal) ==
  /\ active' = active \ S
  /\ chan' = [id \in Ids |-> IF id \in S THEN outcome ELSE chan[id]]
  /\ \E order \in Orders(S) : tombstones' = Remembered(order, terminal)

RegistryUnchanged == UNCHANGED <<active, chan, tombstones>>

\* PendingRegistry::cancel: the entry of a frame that was never queued.
CancelSkipped(c) == RegistryUnchanged
CancelEntry(c) ==
  IF idOf[c] \in active
    THEN Finish({idOf[c]}, "Cancelled", "Cancelled")
    ELSE RegistryUnchanged

\* OutboundRequestLedger::allocate.
LedgerFull == next > MaxLedger

-----------------------------------------------------------------------------
(* request_inner.                                                          *)

Goto(c, label) == pc' = [pc EXCEPT ![c] = label]

Return(c, r) ==
  /\ Goto(c, "done")
  /\ result' = [result EXCEPT ![c] = r]
  /\ gate' = IF gate = c THEN NoCall ELSE gate

\* A gated call keeps the mutex until its frame is queued or it returns.
PassGate(c) == UNCHANGED gate
HoldGate(c) == gate' = c

\* Take the admission gate and test the stopping flag under it.
Admit(c) ==
  /\ pc[c] = "idle"
  /\ IF c \in Gated
       THEN /\ gate = NoCall
            /\ IF stopping
                 THEN Return(c, "ShuttingDown")
                 ELSE /\ HoldGate(c)
                      /\ Goto(c, "admitted")
                      /\ UNCHANGED result
       ELSE /\ Goto(c, "admitted")
            /\ UNCHANGED <<gate, result>>
  /\ RegistryUnchanged
  /\ UNCHANGED <<idOf, next, due, stopping, closePhase, enqueued, answers, wire, reader>>

\* Closed session, or a parameter carrying a ready token, before an id is spent.
CheckOpen(c) ==
  /\ pc[c] = "admitted"
  /\ \/ /\ Closed
        /\ Return(c, "SessionClosed")
     \/ /\ ~Closed
        /\ Return(c, "HandshakeFailed")
     \/ /\ ~Closed
        /\ Goto(c, "allocate")
        /\ UNCHANGED <<gate, result>>
  /\ RegistryUnchanged
  /\ UNCHANGED <<idOf, next, due, stopping, closePhase, enqueued, answers, wire, reader>>

\* A fresh id, or the end of the session when the ledger is exhausted.
Allocate(c) ==
  /\ pc[c] = "allocate"
  /\ IF LedgerFull
       THEN /\ Goto(c, "exhausted")
            /\ UNCHANGED <<idOf, next>>
       ELSE /\ idOf' = [idOf EXCEPT ![c] = next]
            /\ next' = next + 1
            /\ Goto(c, "register")
  /\ RegistryUnchanged
  /\ UNCHANGED <<result, due, stopping, gate, closePhase, enqueued, answers, wire, reader>>

\* PendingRegistry::register; the frame may also fail to encode before it.
Register(c) ==
  /\ pc[c] = "register"
  /\ LET id == idOf[c] IN
     \/ /\ Return(c, "Encode")
        /\ RegistryUnchanged
     \/ /\ \/ id \in active \/ Tombstoned(id)
           \/ Cardinality(active) >= MaxActive
        /\ Return(c, "RegisterRefused")
        /\ RegistryUnchanged
     \/ /\ id \notin active /\ ~Tombstoned(id)
        /\ Cardinality(active) < MaxActive
        /\ active' = active \cup {id}
        /\ Goto(c, "send")
        /\ UNCHANGED <<chan, tombstones, result, gate>>
  /\ UNCHANGED <<idOf, next, due, stopping, closePhase, enqueued, answers, wire, reader>>

\* WriterHandle::send up to its last look at the closed flag.
SendNeverRefused == FALSE
SendRefused == Closed

SendCheck(c) ==
  /\ pc[c] = "send"
  /\ IF SendRefused
       THEN /\ Goto(c, "cancel")
            /\ result' = [result EXCEPT ![c] = "SessionClosed"]
       ELSE /\ Goto(c, "enqueue")
            /\ UNCHANGED result
  /\ RegistryUnchanged
  /\ UNCHANGED <<idOf, next, due, stopping, gate, closePhase, enqueued, answers, wire, reader>>

\* try_send: accepted (the gate is released), full, or the writer is gone.  A
\* full control lane and a vanished writer close the session.
Enqueue(c) ==
  /\ pc[c] = "enqueue"
  /\ \/ /\ enqueued' = enqueued \cup {idOf[c]}
        /\ Goto(c, "wait")
        /\ gate' = IF gate = c THEN NoCall ELSE gate
        /\ UNCHANGED result
     \/ /\ Goto(c, IF c \in ControlCalls THEN "failclosed" ELSE "cancel")
        /\ result' = [result EXCEPT ![c] = "QueueFull"]
        /\ UNCHANGED <<enqueued, gate>>
     \/ /\ Closed
        /\ Goto(c, "failclosed")
        /\ result' = [result EXCEPT ![c] = "QueueClosed"]
        /\ UNCHANGED <<enqueued, gate>>
  /\ RegistryUnchanged
  /\ UNCHANGED <<idOf, next, due, stopping, closePhase, answers, wire, reader>>

\* After a failed send.
Cancel(c) ==
  /\ pc[c] = "cancel"
  /\ CancelEntry(c)
  /\ Return(c, result[c])
  /\ UNCHANGED <<idOf, next, due, stopping, closePhase, enqueued, answers, wire, reader>>

\* The completion arrived.
Receive(c) ==
  /\ pc[c] = "wait"
  /\ chan[idOf[c]] # "none"
  /\ Return(c, chan[idOf[c]])
  /\ RegistryUnchanged
  /\ UNCHANGED <<idOf, next, due, stopping, closePhase, enqueued, answers, wire, reader>>

\* The waiter's own clock ran out.  It was started after the registry's, and the
\* registry lock is not held yet: an answer may still slip in before Expire.
TimeOut(c) ==
  /\ pc[c] = "wait"
  /\ idOf[c] \in due
  /\ Goto(c, "expire")
  /\ RegistryUnchanged
  /\ UNCHANGED <<idOf, result, next, due, stopping, gate, closePhase, enqueued, answers, wire, reader>>

\* PendingRegistry::expire(now): every due entry, not only the caller's own.
Expire(c) ==
  /\ pc[c] = "expire"
  /\ Finish(active \cap due, "DeadlineExceeded", "TimedOut")
  /\ Return(c, "DeadlineExceeded")
  /\ UNCHANGED <<idOf, next, due, stopping, closePhase, enqueued, answers, wire, reader>>

\* A waiter with a nested handler polls the closed flag between its slices.
PollClosed(c) ==
  /\ pc[c] = "wait"
  /\ c \in Handlers
  /\ Closed
  /\ Return(c, "SessionClosed")
  /\ RegistryUnchanged
  /\ UNCHANGED <<idOf, next, due, stopping, closePhase, enqueued, answers, wire, reader>>

\* fail_closed from a request: start the close, or wait for the one under way.
CallFailClosed(c) ==
  /\ pc[c] \in {"exhausted", "failclosed"}
  /\ \/ /\ closePhase = "open"
        /\ closePhase' = "closing"
        /\ UNCHANGED <<pc, result, gate>>
     \/ /\ closePhase = "closed"
        /\ UNCHANGED closePhase
        /\ IF pc[c] = "exhausted"
             THEN Return(c, "LedgerExhausted")
             ELSE Goto(c, "cancel") /\ UNCHANGED <<result, gate>>
  /\ RegistryUnchanged
  /\ UNCHANGED <<idOf, next, due, stopping, enqueued, answers, wire, reader>>

-----------------------------------------------------------------------------
(* Close, clock, supervisor, sidecar and reader.                           *)

\* Any other source of the close: end of file, process exit, watchdog, close().
CloseElsewhere ==
  /\ closePhase = "open"
  /\ closePhase' = "closing"
  /\ RegistryUnchanged
  /\ UNCHANGED <<pc, idOf, result, next, due, stopping, gate, enqueued, answers, wire, reader>>

\* The rest of fail_closed_with_reason: PendingRegistry::close.
FinishClose ==
  /\ closePhase = "closing"
  /\ closePhase' = "closed"
  /\ Finish(active, "SessionClosed", "Cancelled")
  /\ UNCHANGED <<pc, idOf, result, next, due, stopping, gate, enqueued, answers, wire, reader>>

DeadlinePasses(id) ==
  /\ id \in active \ due
  /\ due' = due \cup {id}
  /\ RegistryUnchanged
  /\ UNCHANGED <<pc, idOf, result, next, stopping, gate, closePhase, enqueued, answers, wire, reader>>

\* shutdown_until raises the flag under the gate's mutex.
BeginShutdown ==
  /\ ~stopping
  /\ gate = NoCall
  /\ stopping' = TRUE
  /\ RegistryUnchanged
  /\ UNCHANGED <<pc, idOf, result, next, due, gate, closePhase, enqueued, answers, wire, reader>>

SidecarAnswers(id) ==
  /\ id \in enqueued \cup {StrayId}
  /\ answers[id] < MaxAnswers
  /\ answers' = [answers EXCEPT ![id] = @ + 1]
  /\ wire' = [wire EXCEPT ![id] = @ + 1]
  /\ RegistryUnchanged
  /\ UNCHANGED <<pc, idOf, result, next, due, stopping, gate, closePhase, enqueued, reader>>

\* The loop condition; the flag may change while the thread is in read_frame.
ReaderCheck ==
  /\ reader = "check"
  /\ reader' = IF Closed THEN "exit" ELSE "read"
  /\ RegistryUnchanged
  /\ UNCHANGED <<pc, idOf, result, next, due, stopping, gate, closePhase, enqueued, answers, wire>>

\* dispatch_frame of a response: PendingRegistry::resolve, and the end of the
\* session when it met no active entry.
ReaderDispatch(id) ==
  /\ reader = "read"
  /\ wire[id] > 0
  /\ wire' = [wire EXCEPT ![id] = @ - 1]
  /\ IF id \in active
       THEN /\ Finish({id}, "ok", "Resolved")
            /\ reader' = "check"
       ELSE /\ RegistryUnchanged
            /\ reader' = "failclosed"
  /\ UNCHANGED <<pc, idOf, result, next, due, stopping, gate, closePhase, enqueued, answers>>

\* End of file or a frame the codec refuses.
ReaderEof ==
  /\ reader = "read"
  /\ reader' = "failclosed"
  /\ RegistryUnchanged
  /\ UNCHANGED <<pc, idOf, result, next, due, stopping, gate, closePhase, enqueued, answers, wire>>

ReaderFailClosed ==
  /\ reader = "failclosed"
  /\ \/ closePhase = "open" /\ closePhase' = "closing" /\ UNCHANGED reader
     \/ closePhase = "closed" /\ reader' = "exit" /\ UNCHANGED closePhase
  /\ RegistryUnchanged
  /\ UNCHANGED <<pc, idOf, result, next, due, stopping, gate, enqueued, answers, wire>>

-----------------------------------------------------------------------------
CallStep(c) ==
  \/ Admit(c) \/ CheckOpen(c) \/ Allocate(c) \/ Register(c) \/ SendCheck(c)
  \/ Enqueue(c) \/ Cancel(c) \/ Receive(c) \/ TimeOut(c) \/ Expire(c)
  \/ PollClosed(c) \/ CallFailClosed(c)

Next ==
  \/ \E c \in Calls : CallStep(c)
  \/ \E id \in Ids : DeadlinePasses(id)
  \/ \E id \in Ids \cup {StrayId} : SidecarAnswers(id) \/ ReaderDispatch(id)
  \/ CloseElsewhere \/ FinishClose \/ BeginShutdown
  \/ ReaderCheck \/ ReaderEof \/ ReaderFailClosed

Spec == Init /\ [][Next]_vars

\* A call that was admitted runs on and a close that was begun is finished.
\* Nothing is assumed of the sidecar, of the clock, or of who closes the session.
Fairness ==
  /\ \A c \in Calls : WF_vars(CallStep(c) /\ pc[c] # "idle")
  /\ WF_vars(FinishClose)

FairSpec == Spec /\ Fairness

-----------------------------------------------------------------------------
Labels == {"idle", "admitted", "allocate", "exhausted", "register", "send", "enqueue",
           "failclosed", "cancel", "wait", "expire", "done"}

\* Every variable has its type.
TypeOK ==
  /\ pc \in [Calls -> Labels]
  /\ idOf \in [Calls -> Ids \cup {0}]
  /\ result \in [Calls -> Result]
  /\ next \in 1..(MaxLedger + 1)
  /\ active \subseteq Ids
  /\ due \subseteq Ids
  /\ chan \in [Ids -> Outcome \cup {"none"}]
  /\ tombstones \in Seq([id : Ids, terminal : Terminal])
  /\ stopping \in BOOLEAN
  /\ gate \in Calls \cup {NoCall}
  /\ closePhase \in {"open", "closing", "closed"}
  /\ enqueued \subseteq Ids
  /\ answers \in [Ids \cup {StrayId} -> Nat]
  /\ wire \in [Ids \cup {StrayId} -> Nat]
  /\ reader \in {"check", "read", "failclosed", "exit"}

\* Once the close has drained the registry, no caller waits on a channel nobody
\* will ever write: a waiter that registered while the close was under way has
\* been told, whatever order request_inner and fail_closed ran in.
NoStrandedWaiter ==
  closePhase = "closed" =>
    \A c \in Calls : pc[c] = "wait" => chan[idOf[c]] # "none"

\* A registered entry has a caller that will remove it, so failed, timed-out and
\* rejected requests never leak registry capacity (request_inner's early returns).
NoLeakedEntry ==
  \A id \in active :
    \/ closePhase = "closing"
    \/ \E c \in Calls : idOf[c] = id /\ pc[c] \in {"send", "enqueue", "failclosed", "cancel",
                                                     "wait", "expire"}

\* The tombstone a later duplicate is classified by says what the caller saw: an
\* answered caller left a Resolved tombstone, and no caller of an id recorded as
\* timed out or cancelled was answered, even when an answer, the deadline, a
\* failed send and the close of the session meet.
TombstoneAgrees ==
  \A i \in 1..Len(tombstones) :
    /\ tombstones[i].id \notin active
    /\ \A c \in Calls :
         (idOf[c] = tombstones[i].id /\ (result[c] = "ok" \/ chan[idOf[c]] = "ok")) =>
            tombstones[i].terminal = "Resolved"

\* The registry, its tombstones and the callers tell one story (pending.rs).
RegistryAgrees == TypeOK /\ NoLeakedEntry /\ TombstoneAgrees

\* The admission gate linearizes against shutdown: after the supervisor raised
\* the stopping flag no gated request reaches the writer queue.
NoAdmissionAfterStop ==
  [][\A c \in Gated : (pc[c] = "enqueue" /\ pc'[c] = "wait") => ~stopping]_vars

\* Why no waiter is stranded.  A call past allocate owns an id; from register on
\* its entry is active or its channel has been written; and once the registry has
\* been drained only the second is possible for a call that passed the closed
\* check of send, because it registered before the flag was raised.
HasId == {"register", "send", "enqueue", "failclosed", "cancel", "wait", "expire"}

WaiterServed ==
  /\ \A c \in Calls : pc[c] \in HasId => idOf[c] \in Ids
  /\ \A c \in Calls : pc[c] \in {"send", "enqueue", "wait"} =>
                        idOf[c] \in active \/ chan[idOf[c]] # "none"
  /\ closePhase = "closed" =>
       \A c \in Calls : pc[c] \in {"enqueue", "wait"} => chan[idOf[c]] # "none"

\* The close wakes every caller: nobody waits out a deadline (up to MAX_OPERATION_TIMEOUT) on a
\* session that is gone, wherever in request_inner the close caught it.
CloseWakesCallers ==
  \A c \in Calls : (Closed /\ pc[c] # "idle") ~> (pc[c] = "done")
=============================================================================
