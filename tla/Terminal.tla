------------------------------ MODULE Terminal ------------------------------
(***************************************************************************)
(* One user terminal: a shell on a pseudo terminal, the reader, writer,    *)
(* resize and child threads that serve it, the user interface that polls   *)
(* its events and the callers that close it.                               *)
(*                                                                         *)
(* Failing, exiting and closing are procedures several threads may be in   *)
(* at once; a thread keeps the steps it has left to do, and every step is  *)
(* one lock region or one call of the source; request_stop, which raises   *)
(* the flag, closes the queues, kills the tree and drops the master, is    *)
(* one step, and so are the push of an exit and the close that follows it. *)
(* The reader and the writer hold descriptors of their own.                *)
(***************************************************************************)
EXTENDS Naturals, Sequences

CONSTANTS
  TermPlatform,   \* "unix" or "windows"
  MaxOutput,      \* chunks the shell writes (a bound of the model)
  MaxEvents,      \* max_event_count
  MaxCalls,       \* inputs and resizes of the user (a bound of the model)
  Closers,        \* who may close: "user", "exit"
  MaxTermFaults   \* failures of the pseudo terminal (a bound of the model)

ASSUME TerminalAssumption ==
  /\ TermPlatform \in {"unix", "windows"}
  /\ MaxOutput \in Nat /\ MaxTermFaults \in Nat
  /\ Closers \subseteq {"user", "exit"}
  /\ MaxEvents \in Nat \ {0} /\ MaxCalls \in Nat

Workers == {"reader", "writer", "resizer", "child"}
Threads == Workers \cup Closers
Finals == {"exited", "error", "closed"}
Groups == {"same", "own"}

VARIABLES
  shell,       \* none (not opened), running, zombie, reaped
  kids,        \* descendants that run, by process group: the shell's ("same") or their "own"
  written,     \* chunks written by the shell
  ptyBuf,      \* chunks the reader has not taken
  master,      \* the master side is open
  life,        \* Lifecycle: sent, closed, drained (reader_done), status (exit_status is set)
  halt,        \* stop
  typed,       \* InputQueue: chunks not written; closed once halt is set
  size,        \* ResizeQueue: a size is not applied; closed once halt is set
  events,      \* EventQueue: q, closed, final (the terminal bit)
  shownFinal,  \* the user interface has taken a terminal event
  job,         \* the process tree guard still holds the tree
  late,        \* operation_timeout has passed since the start
  thread,      \* pc, steps to do, what to publish, whether all went well
  owned,       \* the supervisor's map holds the session
  joined,      \* WorkerTracker: the handles have been taken and joined
  ptyFaults, calls

terminalVars == <<shell, kids, written, ptyBuf, master, life, halt, typed, size, events,
                  shownFinal, job, late, thread, owned, joined, ptyFaults, calls>>

shellVars == <<shell, kids, written, ptyBuf>>
queueVars == <<typed, size, events, shownFinal>>
lifeVars == <<life, halt, master, job, owned, joined>>
envVars == <<late, ptyFaults, calls>>

Plan(pc) == [pc |-> pc, todo |-> <<>>, say |-> "none", ok |-> TRUE]

TerminalTypeOK ==
  /\ shell \in {"none", "running", "zombie", "reaped"}
  /\ ptyBuf \in 0..written /\ written \in 0..MaxOutput
  /\ kids \subseteq Groups /\ Len(events.q) <= MaxEvents
  /\ \A t \in Threads : thread[t].pc \in {"idle", "run", "push", "write", "end"}
  /\ ptyFaults \in 0..MaxTermFaults

\* Nothing is open yet.
TerminalInit ==
  /\ shell = "none" /\ kids = {} /\ written = 0 /\ ptyBuf = 0 /\ master = FALSE
  /\ life = [sent |-> FALSE, closed |-> FALSE, drained |-> FALSE, status |-> FALSE]
  /\ halt = FALSE
  /\ typed = 0 /\ size = FALSE
  /\ events = [q |-> <<>>, closed |-> FALSE, final |-> FALSE]
  /\ shownFinal = FALSE /\ job = FALSE /\ late = FALSE
  /\ thread = [t \in Threads |-> Plan("idle")]
  /\ owned = FALSE /\ joined = FALSE /\ ptyFaults = 0 /\ calls = 0

(***************************************************************************)
(* Opening.                                                                *)
(***************************************************************************)
\* A launch request by what the policy looks at; one deviation at a time.
GoodLaunch == [dims |-> "valid", cwd |-> "inside", profile |-> "native", env |-> "listed"]
Launches ==
  {GoodLaunch, [GoodLaunch EXCEPT !.dims = "zero"], [GoodLaunch EXCEPT !.cwd = "outside"],
   [GoodLaunch EXCEPT !.cwd = "absent"], [GoodLaunch EXCEPT !.profile = "foreign"],
   [GoodLaunch EXCEPT !.env = "secret"], [GoodLaunch EXCEPT !.env = "unlisted"],
   [GoodLaunch EXCEPT !.env = "oversized"]}

\* resolve_cwd: canonical, a directory, within the workspace root.
ResolvesCwd(r) == r.cwd = "inside"

\* resolve_shell: one of the platform's own shells.
ResolvesShell(r) == r.profile = "native"

\* build_environment: overrides from a list, no secret, no hook, within the budget.
BuildsEnvironment(r) == r.env = "listed"

\* TerminalPolicy::prepare
Prepared(r) == r.dims = "valid" /\ ResolvesCwd(r) /\ ResolvesShell(r) /\ BuildsEnvironment(r)

\* TerminalSupervisor::open and TerminalRuntime::spawn: the tree is bound, then the
\* shell runs and four workers serve it; a refusal or a failed pseudo terminal
\* leaves nothing behind.
TerminalOpen(r) ==
  /\ shell = "none"
  /\ \/ /\ Prepared(r)
        /\ shell' = "running" /\ kids' \in SUBSET Groups
        /\ master' = TRUE /\ job' = TRUE /\ owned' = TRUE
        /\ thread' = [t \in Threads |-> Plan(IF t \in Closers THEN "idle" ELSE "run")]
     \/ UNCHANGED <<shell, kids, master, job, owned, thread>>
  /\ UNCHANGED <<written, ptyBuf, queueVars, life, halt, joined, envVars>>

(***************************************************************************)
(* The procedures, as steps.                                               *)
(***************************************************************************)
FailSteps == <<"mark_error", "publish", "stop", "close_events">>

CloseSteps == <<"mark_closed", "publish", "stop", "wait", "return">>

\* child_exited, then the grace and drop_master of child_worker.
ExitSteps == <<"mark_exit", "stop", "publish_exit", "drop_master">>

\* reader_finished.
DrainSteps == <<"mark_drained", "publish_exit", "drop_master">>

Free(t) == thread[t].todo = <<>>

\* A writer or resizer that waits at its queue and finds it closed and empty has
\* ended; a writer in write_all has not.
Ended(t) ==
  /\ Free(t)
  /\ \/ thread[t].pc = "end"
     \/ t = "writer" /\ thread[t].pc = "run" /\ halt /\ typed = 0
     \/ t = "resizer" /\ halt /\ ~size
AllEnded == \A t \in Workers : Ended(t)
At(t, step) == ~Free(t) /\ Head(thread[t].todo) = step

\* Worker t leaves its loop and does the steps.
Leave(t, steps) == thread' = [thread EXCEPT ![t].pc = "end", ![t].todo = steps]

Done(t) == thread' = [thread EXCEPT ![t].todo = Tail(@)]

(***************************************************************************)
(* Queues.                                                                 *)
(***************************************************************************)

\* EventQueue::push_kind.
Accepts == ~events.closed /\ ~events.final /\ Len(events.q) < MaxEvents

\* EventQueue::push_terminal: once, and the oldest events make room for it.
PushFinal(e, kind) ==
  IF e.final THEN e
  ELSE IF e.closed THEN [e EXCEPT !.final = TRUE]
  ELSE [e EXCEPT !.final = TRUE,
                 !.q = Append(IF Len(@) >= MaxEvents THEN Tail(@) ELSE @, kind)]

(***************************************************************************)
(* Steps of the procedures.                                                *)
(***************************************************************************)
\* The lifecycle lock decides who publishes.
MarkEnd(t) ==
  /\ \/ At(t, "mark_error") \/ At(t, "mark_closed")
  /\ LET first == ~life.sent
         kind  == IF At(t, "mark_error") THEN "error" ELSE "closed"
     IN  /\ life' = [life EXCEPT !.sent = TRUE, !.closed = @ \/ first \/ kind = "closed"]
         /\ thread' = [thread EXCEPT ![t].todo = Tail(@),
                                     ![t].say = IF first THEN kind ELSE "none"]
  /\ UNCHANGED <<shellVars, queueVars, halt, master, job, owned, joined, envVars>>

\* Mutant: the exit is announced when the shell is reaped, whatever the reader has left.
MarkExitAtOnce(t) ==
  /\ At(t, "mark_exit")
  /\ life' = [life EXCEPT !.sent = TRUE]
  /\ thread' = [thread EXCEPT ![t].todo = Tail(@), ![t].say = IF life.sent THEN "none" ELSE "exited"]
  /\ UNCHANGED <<shellVars, queueVars, halt, master, job, owned, joined, envVars>>

\* child_exited: the exit is announced now only if the reader is done.
MarkExit(t) ==
  /\ At(t, "mark_exit")
  /\ LET now == ~life.sent /\ life.drained IN
       /\ life' = [life EXCEPT !.sent = @ \/ now, !.status = ~life.sent /\ ~now]
       /\ thread' = [thread EXCEPT ![t].todo = Tail(@), ![t].say = IF now THEN "exited" ELSE "none"]
  /\ UNCHANGED <<shellVars, queueVars, halt, master, job, owned, joined, envVars>>

\* reader_finished: the exit that waited for the reader is announced.
MarkDrained(t) ==
  /\ At(t, "mark_drained")
  /\ LET now == ~life.sent /\ life.status IN
       /\ life' = [life EXCEPT !.drained = TRUE, !.sent = @ \/ now, !.status = @ /\ ~now]
       /\ thread' = [thread EXCEPT ![t].todo = Tail(@), ![t].say = IF now THEN "exited" ELSE "none"]
  /\ UNCHANGED <<shellVars, queueVars, halt, master, job, owned, joined, envVars>>

\* push_terminal, and the close of the queue that follows an exit.
PublishEnd(t) ==
  /\ At(t, "publish") \/ At(t, "publish_exit")
  /\ events' = IF thread[t].say = "none" THEN events
               ELSE [PushFinal(events, thread[t].say) EXCEPT !.closed = @ \/ At(t, "publish_exit")]
  /\ thread' = [thread EXCEPT ![t].todo = Tail(@), ![t].say = "none"]
  /\ UNCHANGED <<shellVars, typed, size, shownFinal, lifeVars, envVars>>

\* Unix: signalling a process group that is gone is an error other than
\* NotFound, for terminate and for the fallback killer.
GroupGone == shell = "reaped" /\ "same" \notin kids

\* The processes terminate reaches: the job object holds every descendant, the
\* signals go to the shell's own group, which a background job of an interactive
\* shell is not in.
Reached == IF TermPlatform = "unix" THEN {"same"} ELSE Groups

\* ProcessTree::terminate: a job object is claimed once and cannot be missed.
TerminateFails == TermPlatform = "unix" /\ job /\ GroupGone

\* request_stop_inner: the flag, the queues (the first time) and the tree; the
\* shell's own exit leaves the master to the grace of child_worker.
StopSession(t) ==
  /\ At(t, "stop")
  /\ halt' = TRUE
  /\ typed' = 0 /\ size' = FALSE
  /\ shell' = IF job /\ shell = "running" THEN "zombie" ELSE shell
  /\ kids' = IF job THEN kids \ Reached ELSE kids
  /\ job' = (job /\ TerminateFails)
  /\ thread' = [thread EXCEPT ![t].todo = Tail(@), ![t].ok = @ /\ (t \in Closers => ~TerminateFails)]
  /\ master' = (master /\ t = "child" /\ Len(thread[t].todo) = 3)
  /\ UNCHANGED <<written, ptyBuf, events, shownFinal, life, owned, joined, envVars>>

\* drop_master of child_worker, after the grace, and the take that ends reader_finished.
DropMaster(t) ==
  /\ At(t, "drop_master")
  /\ master' = FALSE
  /\ Done(t)
  /\ UNCHANGED <<shellVars, queueVars, life, halt, job, owned, joined, envVars>>

\* WorkerTracker::wait_until: the workers are joined, or the deadline passes.
WaitWorkers(t) ==
  /\ At(t, "wait")
  /\ \/ AllEnded /\ joined' = TRUE /\ Done(t)
     \/ /\ ~AllEnded /\ late /\ UNCHANGED joined
        /\ thread' = [thread EXCEPT ![t].todo = Tail(@), ![t].ok = FALSE]
  /\ UNCHANGED <<shellVars, queueVars, life, halt, master, job, owned, envVars>>

CloseEvents(t) ==
  /\ At(t, "close_events")
  /\ events' = [events EXCEPT !.closed = TRUE]
  /\ Done(t)
  /\ UNCHANGED <<shellVars, typed, size, shownFinal, lifeVars, envVars>>

\* The events close; TerminalSupervisor::close and shutdown_until: success
\* removes the owner.
CloseReturns(t) ==
  /\ At(t, "return")
  /\ owned' = (owned /\ ~thread[t].ok) /\ events' = [events EXCEPT !.closed = TRUE]
  /\ thread' = [thread EXCEPT ![t].todo = Tail(@), ![t].pc = "end"]
  /\ UNCHANGED <<shellVars, typed, size, shownFinal, life, halt, master, job, joined, envVars>>

(***************************************************************************)
(* The workers' loops.                                                     *)
(***************************************************************************)
\* Mutant: an end of file waits for the terminal event, which waits for it.
CanFinishWhenSent == life.sent \/ life.closed

\* reader_can_finish.
CanFinish == life.sent \/ life.closed \/ life.status

\* publish_output: late output is refused, except what a dead shell left.
OutputAllowed == ~life.closed /\ ~life.sent /\ (~halt \/ life.status)

\* A process has the slave side open.
Held == shell = "running" \/ kids # {}

\* read and write of the workers' descriptors return at the end of the terminal: on
\* Unix once nobody holds the slave, whatever becomes of the master; a pseudo
\* console ends with the master.
PtyOver == IF TermPlatform = "unix" THEN ~Held ELSE ~master

ReaderReads ==
  /\ thread["reader"].pc = "run" /\ Free("reader") /\ ptyBuf > 0
  /\ ptyBuf' = ptyBuf - 1
  /\ IF OutputAllowed
     THEN thread' = [thread EXCEPT !["reader"].pc = "push"]
     ELSE Leave("reader", DrainSteps)
  /\ UNCHANGED <<shell, kids, written, typed, size, events, shownFinal, lifeVars, envVars>>

ReaderPushes ==
  /\ thread["reader"].pc = "push"
  /\ IF Accepts
     THEN /\ events' = [events EXCEPT !.q = Append(@, "output")]
          /\ thread' = [thread EXCEPT !["reader"].pc = "run"]
     ELSE Leave("reader", FailSteps \o DrainSteps) /\ UNCHANGED events
  /\ UNCHANGED <<shellVars, typed, size, shownFinal, lifeVars, envVars>>

\* A zero-byte read ends the reader only once the session is ending.
ReaderEof ==
  /\ thread["reader"].pc = "run" /\ Free("reader")
  /\ PtyOver /\ (TermPlatform = "unix" => ptyBuf = 0)
  /\ CanFinish
  /\ Leave("reader", DrainSteps)
  /\ UNCHANGED <<shellVars, queueVars, lifeVars, envVars>>

ReaderFails ==
  /\ thread["reader"].pc = "run" /\ Free("reader") /\ ptyFaults < MaxTermFaults
  /\ ptyFaults' = ptyFaults + 1
  /\ Leave("reader", IF halt \/ CanFinish THEN DrainSteps ELSE FailSteps \o DrainSteps)
  /\ UNCHANGED <<shellVars, queueVars, lifeVars, late, calls>>

\* writer_worker: a chunk is dropped by the stop, or write_all begins.
WriterPops ==
  /\ thread["writer"].pc = "run" /\ Free("writer") /\ typed > 0
  /\ typed' = typed - 1
  /\ \/ halt /\ Leave("writer", <<>>)
     \/ ~halt /\ thread' = [thread EXCEPT !["writer"].pc = "write"]
  /\ UNCHANGED <<shellVars, size, events, shownFinal, lifeVars, envVars>>

\* A failed write ends the writer, and the session unless it is stopping.
WriterLeaves == Leave("writer", IF halt THEN <<>> ELSE FailSteps)

\* write_all ends when somebody takes the input, or fails.
WriterReturns ==
  /\ thread["writer"].pc = "write" /\ Free("writer")
  /\ \/ thread' = [thread EXCEPT !["writer"].pc = "run"] /\ UNCHANGED ptyFaults
     \/ ptyFaults < MaxTermFaults /\ ptyFaults' = ptyFaults + 1 /\ WriterLeaves
  /\ UNCHANGED <<shellVars, queueVars, lifeVars, late, calls>>

\* write_all fails when nobody will.
WriterCut ==
  /\ thread["writer"].pc = "write" /\ Free("writer") /\ PtyOver
  /\ WriterLeaves
  /\ UNCHANGED <<shellVars, queueVars, lifeVars, envVars>>

\* resize_worker: the size is applied and announced; a full event queue fails
\* the session, and the loop goes on to find its queue closed.
ResizerPops ==
  /\ thread["resizer"].pc = "run" /\ Free("resizer") /\ size
  /\ size' = FALSE
  /\ IF halt \/ ~master
     THEN Leave("resizer", <<>>) /\ UNCHANGED <<events, ptyFaults>>
     ELSE \/ /\ Accepts /\ events' = [events EXCEPT !.q = Append(@, "resized")]
             /\ UNCHANGED <<thread, ptyFaults>>
          \/ /\ ~Accepts /\ thread' = [thread EXCEPT !["resizer"].todo = FailSteps]
             /\ UNCHANGED <<events, ptyFaults>>
          \/ /\ ptyFaults < MaxTermFaults /\ ptyFaults' = ptyFaults + 1
             /\ Leave("resizer", FailSteps) /\ UNCHANGED events
  /\ UNCHANGED <<shellVars, typed, shownFinal, lifeVars, late, calls>>

\* child_worker: try_wait reaps the shell.
ChildReaps ==
  /\ thread["child"].pc = "run" /\ Free("child") /\ shell = "zombie"
  /\ shell' = "reaped" /\ Leave("child", ExitSteps)
  /\ UNCHANGED <<kids, written, ptyBuf, queueVars, lifeVars, envVars>>

\* A try_wait made before the kill found the shell alive, and the deadline,
\* which runs from the session's start, has passed.
ChildLapses ==
  /\ thread["child"].pc = "run" /\ Free("child") /\ halt /\ late
  /\ Leave("child", FailSteps)
  /\ UNCHANGED <<shellVars, queueVars, lifeVars, envVars>>

(***************************************************************************)
(* The shell, the clock and the callers.                                   *)
(***************************************************************************)
\* The shell or a descendant writes.
ShellWrites ==
  /\ Held /\ written < MaxOutput
  /\ written' = written + 1 /\ ptyBuf' = ptyBuf + 1
  /\ UNCHANGED <<shell, kids, queueVars, lifeVars, envVars, thread>>

ShellExits ==
  /\ shell = "running"
  /\ shell' = "zombie"
  /\ UNCHANGED <<kids, written, ptyBuf, queueVars, lifeVars, envVars, thread>>

\* A descendant ends by itself.
KidExits(g) ==
  /\ g \in kids
  /\ kids' = kids \ {g}
  /\ UNCHANGED <<shell, written, ptyBuf, queueVars, lifeVars, envVars, thread>>

\* The deadline is read only once the session stops.
TimePasses ==
  /\ ~late /\ halt
  /\ late' = TRUE
  /\ UNCHANGED <<shellVars, queueVars, lifeVars, ptyFaults, calls, thread>>

\* validate_open of send_input and resize.
OpenToInput == ~life.closed /\ ~life.sent

SendInput ==
  /\ owned /\ OpenToInput /\ ~halt /\ calls < MaxCalls
  /\ typed' = typed + 1 /\ calls' = calls + 1
  /\ UNCHANGED <<shellVars, size, events, shownFinal, lifeVars, late, ptyFaults, thread>>

Resize ==
  /\ owned /\ OpenToInput /\ ~halt /\ calls < MaxCalls
  /\ size' = TRUE /\ calls' = calls + 1
  /\ UNCHANGED <<shellVars, typed, events, shownFinal, lifeVars, late, ptyFaults, thread>>

\* ja_terminal_poll.
Poll ==
  /\ owned /\ events.q # <<>>
  /\ events' = [events EXCEPT !.q = Tail(@)]
  /\ shownFinal' = (shownFinal \/ Head(events.q) \in Finals)
  /\ UNCHANGED <<shellVars, typed, size, lifeVars, envVars, thread>>

\* ja_terminal_close by the user, shutdown_until by the application's exit; they
\* do the same, so that the first of two is called the user's.
CloseCalled(t) ==
  /\ thread[t].pc = "idle" /\ owned /\ (t = "exit" /\ "user" \in Closers => thread["user"].pc # "idle")
  /\ thread' = [thread EXCEPT ![t].pc = "run", ![t].todo = CloseSteps]
  /\ UNCHANGED <<shellVars, queueVars, lifeVars, envVars>>

\* TerminalSupervisor::open drops sessions that ended and were joined.
Reclaim ==
  /\ owned /\ life.sent /\ joined
  /\ owned' = FALSE
  /\ UNCHANGED <<shellVars, queueVars, life, halt, master, job, joined, envVars, thread>>

ThreadStep(t) ==
  \/ MarkEnd(t) \/ MarkExit(t) \/ MarkDrained(t) \/ PublishEnd(t) \/ StopSession(t)
  \/ DropMaster(t) \/ WaitWorkers(t) \/ CloseEvents(t) \/ CloseReturns(t)

WorkerStep(t) ==
  \/ t = "reader" /\ (ReaderReads \/ ReaderPushes \/ ReaderEof)
  \/ t = "writer" /\ (WriterPops \/ WriterCut)
  \/ t = "resizer" /\ ResizerPops
  \/ t = "child" /\ (ChildReaps \/ ChildLapses)

TerminalNext ==
  \/ \E t \in Threads : ThreadStep(t) \/ WorkerStep(t)
  \/ ReaderFails \/ WriterReturns \/ ShellWrites \/ ShellExits \/ TimePasses
  \/ SendInput \/ Resize \/ Poll \/ Reclaim
  \/ \E g \in Groups : KidExits(g)
  \/ \E t \in Closers : CloseCalled(t)
  \/ \E r \in Launches : TerminalOpen(r)

\* The threads run and the deadline passes; users, shells, descendants and
\* faults owe nothing, and a blocked write ends only with the terminal.
TerminalFair ==
  /\ \A t \in Threads : WF_terminalVars(ThreadStep(t) \/ WorkerStep(t))
  /\ WF_terminalVars(TimePasses)

TerminalSpec == TerminalInit /\ [][TerminalNext]_terminalVars /\ TerminalFair

-----------------------------------------------------------------------------
\* Nothing follows a terminal event: output that races a close, a failure or
\* an exit is in front of it or dropped, and no session ends twice.
FinalIsLast ==
  /\ \A i \in 1..Len(events.q) : events.q[i] \in Finals => i = Len(events.q)
  /\ shownFinal => events.q = <<>>

\* A shell's exit is announced only when the reader has taken all that it and
\* its descendants wrote: the child's worker learns of the exit first and must
\* leave it to the reader.  Excused are a pseudo terminal that failed and, on
\* Windows, one whose grace after the exit ran out.
TailBeforeExit ==
  (\E i \in 1..Len(events.q) : events.q[i] = "exited") =>
    \/ ptyBuf = 0 /\ thread["reader"].pc # "push"
    \/ ptyFaults > 0 \/ (TermPlatform = "windows" /\ ~master)

\* A session leaves the supervisor's map only when its shell and every
\* descendant that terminate reaches are gone and its four threads have been
\* joined, whichever of two closers, a failing worker and the shell's own exit
\* came first.  A background job of the shell is reached on Windows only.
OwnedUntilGone ==
  ~owned /\ shell # "none" => shell # "running" /\ kids \cap Reached = {} /\ AllEnded

\* A session's events end with its exit, and the manager holds it until its processes
\* are gone (session.rs, session_workers.rs).
SessionIsSound == TerminalTypeOK /\ FinalIsLast /\ TailBeforeExit /\ OwnedUntilGone

\* A shell's end and a close both end every thread and the event stream, a
\* writer in the middle of a write included: nobody waits on somebody who waits
\* for him.  A job in a process group of its own holds a Unix terminal, its
\* reader and so the session open for as long as it runs; once the last one has
\* ended the session does.
SessionEnds ==
  ((shell \in {"zombie", "reaped"} \/ halt) /\ "own" \notin kids) ~> (AllEnded /\ events.closed)
=============================================================================
