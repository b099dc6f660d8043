---------------------------- MODULE SessionHandle ----------------------------
(***************************************************************************)
(* Ownership of the writer thread of one sidecar session: the clones of    *)
(* Session, Session::close_until, Drop for Session, WriterJoinState and    *)
(* WriterCompletion (agent_process/session.rs).                            *)
(*                                                                         *)
(* A member of Holders is a thread that may own one clone: the supervisor, *)
(* the exit monitor, a client.  The strong count of writer_join counts the *)
(* clones; Rust decrements it after the body of drop has run.              *)
(***************************************************************************)
EXTENDS Naturals, FiniteSets

CONSTANTS Holders, First   \* First owns the session that was just created

InState == "in state"
Joined == "joined"
Nowhere == "nowhere"

ASSUME HoldersAssumption == First \in Holders /\ {InState, Joined, Nowhere} \cap Holders = {}

VARIABLES
  owners,     \* threads owning a clone: the strong count is its cardinality
  pc,         \* where each thread is in close_until or drop
  dropping,   \* threads running drop rather than close_until
  returned,   \* what its last close_until returned
  handle,     \* WriterJoinState.handle: where the JoinHandle is
  sessionClosed, \* the session's closed flag
  writer,     \* "running", "done" (flag stored), "notified"
  aborted     \* std::process::abort

handleVars == <<owners, pc, dropping, returned, handle, sessionClosed, writer, aborted>>

WriterDone == writer # "running"

HandleInit ==
  /\ owners = {First}
  /\ pc = [h \in Holders |-> "idle"]
  /\ dropping = {}
  /\ returned = [h \in Holders |-> "none"]
  /\ handle = InState
  /\ sessionClosed = FALSE
  /\ writer = "running"
  /\ aborted = FALSE

Goto(h, label) == pc' = [pc EXCEPT ![h] = label]

Clone(h, g) ==
  /\ ~aborted /\ h \in owners /\ pc[h] = "idle" /\ g \notin owners
  /\ owners' = owners \cup {g}
  /\ UNCHANGED <<pc, dropping, returned, handle, sessionClosed, writer, aborted>>

\* close_until: fail_closed, then join_writer_until.
Close(h) ==
  /\ ~aborted /\ h \in owners /\ pc[h] = "idle"
  /\ sessionClosed' = TRUE
  /\ Goto(h, "take")
  /\ returned' = [returned EXCEPT ![h] = "none"]
  /\ UNCHANGED <<owners, dropping, handle, writer, aborted>>

\* drop: the strong count decides whether this is the last clone.
IsLast == Cardinality(owners) = 1

\* The count still includes the thread that is dropping.
Counted(h) == owners

DropClone(h) ==
  /\ ~aborted /\ h \in owners /\ pc[h] = "idle"
  /\ IF IsLast
       THEN /\ sessionClosed' = TRUE
            /\ dropping' = dropping \cup {h}
            /\ Goto(h, "take")
       ELSE /\ Goto(h, "release")
            /\ UNCHANGED <<sessionClosed, dropping>>
  /\ owners' = Counted(h)
  /\ UNCHANGED <<returned, handle, writer, aborted>>

\* The fields are dropped; with the last one goes whatever handle holds.
Release(h) ==
  /\ ~aborted /\ pc[h] = "release"
  /\ owners' = owners \ {h}
  /\ dropping' = dropping \ {h}
  /\ Goto(h, "idle")
  /\ handle' = IF owners = {h} /\ handle = InState THEN Nowhere ELSE handle
  /\ UNCHANGED <<returned, sessionClosed, writer, aborted>>

\* The caller of join_writer_state_until goes on.
Finish(h, r) ==
  /\ Goto(h, IF h \in dropping THEN "release" ELSE "idle")
  /\ returned' = [returned EXCEPT ![h] = r]
  /\ aborted' = (h \in dropping /\ r = "err")
  /\ UNCHANGED <<owners, dropping, sessionClosed, writer>>

\* handle.lock().take(): somebody else's handle is nobody's business.
Take(h) ==
  /\ ~aborted /\ pc[h] = "take"
  /\ IF handle = InState
       THEN /\ handle' = h
            /\ Goto(h, "look")
            /\ UNCHANGED <<owners, dropping, returned, sessionClosed, writer, aborted>>
       ELSE Finish(h, "ok") /\ UNCHANGED handle

\* WriterCompletion::wait_until, one look at the done flag: join, or go to sleep.
Look(h) ==
  /\ ~aborted /\ pc[h] = "look"
  /\ IF WriterDone
       THEN handle' = Joined /\ Finish(h, "ok")
       ELSE /\ Goto(h, "wait")
            /\ UNCHANGED <<owners, dropping, returned, handle, sessionClosed, writer, aborted>>

Wait(h) ==
  /\ ~aborted /\ pc[h] = "wait"
  /\ Goto(h, "sleep")
  /\ UNCHANGED <<owners, dropping, returned, handle, sessionClosed, writer, aborted>>

\* The deadline: a last look, and the handle goes back for a later attempt.
PutBackNowhere == Nowhere
PutBack == InState

TimeOutNever(h) == FALSE /\ UNCHANGED handleVars
TimeOut(h) ==
  /\ ~aborted /\ pc[h] = "sleep"
  /\ handle' = IF WriterDone THEN Joined ELSE PutBack
  /\ Finish(h, IF WriterDone THEN "ok" ELSE "err")

\* Any other end of the session.
CloseElsewhere ==
  /\ ~aborted /\ ~sessionClosed
  /\ sessionClosed' = TRUE
  /\ UNCHANGED <<owners, pc, dropping, returned, handle, writer, aborted>>

\* writer_loop returned, then mark_done: the store and the notification are two
\* steps, and neither takes the lock that wait_until holds between its look and
\* its wait.
WriterReturns ==
  /\ ~aborted /\ sessionClosed /\ writer = "running"
  /\ writer' = "done"
  /\ UNCHANGED <<owners, pc, dropping, returned, handle, sessionClosed, aborted>>

NotifyAll ==
  /\ ~aborted /\ writer = "done"
  /\ writer' = "notified"
  /\ pc' = [h \in Holders |-> IF pc[h] = "sleep" THEN "look" ELSE pc[h]]
  /\ UNCHANGED <<owners, dropping, returned, handle, sessionClosed, aborted>>

HandleNext ==
  \/ \E h, g \in Holders : Clone(h, g)
  \/ \E h \in Holders : Close(h) \/ DropClone(h) \/ Release(h) \/ Take(h)
                         \/ Look(h) \/ Wait(h) \/ TimeOut(h)
  \/ CloseElsewhere \/ WriterReturns \/ NotifyAll

HandleSpec == HandleInit /\ [][HandleNext]_handleVars

\* A thread inside close_until or drop runs on and its deadline arrives; nothing
\* forces the writer to return.
HolderRuns(h) == Release(h) \/ Take(h) \/ Look(h) \/ Wait(h) \/ TimeOut(h)

HandleFairSpec == HandleSpec /\ \A h \in Holders : WF_handleVars(HolderRuns(h))

-----------------------------------------------------------------------------
(* Properties.                                                             *)

\* Types; a thread inside drop still counts as an owner.
HandleTypeOK ==
  /\ owners \subseteq Holders
  /\ pc \in [Holders -> {"idle", "take", "look", "wait", "sleep", "release"}]
  /\ dropping \subseteq owners
  /\ returned \in [Holders -> {"none", "ok", "err"}]
  /\ handle \in Holders \cup {InState, Joined, Nowhere}
  /\ sessionClosed \in BOOLEAN /\ aborted \in BOOLEAN
  /\ writer \in {"running", "done", "notified"}

\* A running writer can always still be joined: while a clone is left, its
\* JoinHandle is in the shared state or with a thread that waits on it and puts
\* it back when its deadline passes (join_writer_state_until).
HandleNotLost ==
  owners # {} => \/ handle = InState
                 \/ handle = Joined /\ WriterDone
                 \/ handle \in owners /\ pc[handle] \in {"look", "wait", "sleep"}

\* The shared handle keeps its types and a running writer stays joinable (WriterJoinState).
HandleIsKept == HandleTypeOK /\ HandleNotLost

\* close_until and drop return by their deadline, even when the writer hangs or
\* its notification is missed (wait_until).
CloseReturns == \A h \in Holders : pc[h] = "take" ~> pc[h] = "idle" \/ aborted

\* Session::close_until: it completes only after the writer actor has ended.
CloseWaitsForWriter == \A h \in Holders : returned[h] = "ok" => WriterDone

=============================================================================
