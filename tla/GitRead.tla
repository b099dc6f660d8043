------------------------------ MODULE GitRead ------------------------------
(***************************************************************************)
(* The read-only Git adapter: admission of a worktree, one Git child with   *)
(* its helpers, the two bounded pipe readers, the supervising thread, and   *)
(* somebody who changes the repository meanwhile.                           *)
(***************************************************************************)
EXTENDS Naturals

CONSTANTS
  GitPlatforms,   \* the platforms considered
  MaxGitBytes,    \* what a process writes to one pipe (a bound of the model)
  GitLimit,       \* max_output_bytes and max_error_bytes
  MaxSwaps        \* changes of the repository during the call (a bound)

ASSUME GitAssumption ==
  /\ GitPlatforms \subseteq {"unix", "windows"}
  /\ MaxGitBytes \in Nat /\ GitLimit \in Nat /\ MaxSwaps \in Nat

VARIABLES
  repo,    \* what .git is now, and whether a directory above holds a repository
  swaps,   \* ghost: how often it changed since it was admitted
  saw,     \* ghost: what Git read
  leader,  \* none, running, exited, reaped
  helper,  \* none, running (holds the pipes), quiet (let go of them), gone
  wrote,   \* pipe -> units written
  got,     \* pipe -> units in the reader's buffer
  gitPump,    \* pipe -> none, reading, limited, ended
  call     \* the calling thread: where it is, its error, its answer; its platform

gitVars == <<repo, swaps, saw, leader, helper, wrote, got, gitPump, call>>

Pipes == {"stdout", "stderr"}

PlainRepo == [root |-> "same", dotGit |-> "directory", pointer |-> "inside",
              config |-> "plain", objects |-> "plain", submodules |-> FALSE, around |-> FALSE]

\* A plain repository and one deviation at a time; without a repository of its own the
\* workspace may lie in another one.
Repos ==
  {PlainRepo, [PlainRepo EXCEPT !.root = "replaced"], [PlainRepo EXCEPT !.submodules = TRUE],
   [PlainRepo EXCEPT !.dotGit = "file", !.pointer = "outside"]}
    \cup {[PlainRepo EXCEPT !.dotGit = d] : d \in {"absent", "headless", "bare", "file", "link"}}
    \cup {[PlainRepo EXCEPT !.dotGit = d, !.around = TRUE] : d \in {"absent", "headless"}}
    \cup {[PlainRepo EXCEPT !.config = c] : c \in {"indirect", "foreign", "unreadable"}}
    \cup {[PlainRepo EXCEPT !.objects = o] :
             o \in {"missing", "alternates", "listing", "promisor", "stray", "linked", "crowded"}}
    \cup {[PlainRepo EXCEPT !.dotGit = "file", !.objects = "missing"]}

\* resolve_internal_pointer: inside the root by its spelling, without links, and resolved.
PointerInside(r) == r.dotGit = "file" => r.pointer = "inside"

\* read_optional_text_file: bounded, strict text, the same file before and after.
TextReadable(r) == r.config # "unreadable"

\* validate_config_worktree: core.worktree stays inside.
ConfigLocal(r) == r.config # "foreign"

\* validate_config_text: no include, filter, hook, helper or foreign worktree.
ConfigPlain(r) == TextReadable(r) /\ ConfigLocal(r) /\ r.config # "indirect"

\* The names that may stand in an object store; a promisor pack would be fetched.
NamesKnown(r) == r.objects # "stray"
PackHolds(r) == r.objects # "promisor"

\* scan_object_file: a regular file with one name, the same after the look.
FilesPlain(r) == r.objects # "linked"

\* validate_alternates, and the listings that name packs and graphs.
NoAlternates(r) == r.objects # "alternates"
ListingsKnown(r) == r.objects # "listing"
InfoHolds(r) == NoAlternates(r) /\ ListingsKnown(r)

\* ObjectScanBudget: one budget of directories, files, bytes, depth and time.
ScanInBudget(r) == r.objects # "crowded"

\* validate_object_directory
ObjectsInside(r) == NamesKnown(r) /\ PackHolds(r) /\ InfoHolds(r) /\ FilesPlain(r) /\ ScanInBudget(r)

\* validate_repo_location; only a linked worktree's own directory may lack objects.
LocationHolds(r) ==
  /\ ConfigPlain(r) /\ ObjectsInside(r)
  /\ r.objects = "missing" => r.dotGit = "file"

\* reject_submodule_metadata
NoSubmodules(r) == ~r.submodules

\* resolve_directory("") of the admitted workspace.
GitRootHolds(r) == r.root = "same"

\* The workspace's own repository stands up to every check.
Validated(r) ==
  /\ r.dotGit \in {"directory", "headless", "file", "bare"}
  /\ PointerInside(r) /\ LocationHolds(r) /\ NoSubmodules(r)

\* validate_worktree; a workspace without a repository passes, whatever lies above it.
Admissible(r) == GitRootHolds(r) /\ (r.dotGit = "absent" \/ Validated(r))

\* External: Git takes the first repository it finds from the workspace upwards, and
\* build_command sets no ceiling; a .git without a HEAD is none to it.
Discovers(r) ==
  IF r.dotGit \notin {"absent", "headless"} THEN "own" ELSE IF r.around THEN "outer" ELSE "none"

GitInit ==
  /\ repo \in Repos /\ saw = PlainRepo /\ swaps = 0
  /\ leader = "none" /\ helper = "none"
  /\ wrote = [p \in Pipes |-> 0] /\ got = [p \in Pipes |-> 0]
  /\ gitPump = [p \in Pipes |-> "none"]
  /\ \E h \in GitPlatforms : call = [at |-> "idle", error |-> "none", answer |-> "none", host |-> h]

ProcessesKeep == UNCHANGED <<leader, helper, wrote, got, gitPump>>
TreeKeeps == UNCHANGED <<repo, swaps, saw>>
Answers(a) == call' = [call EXCEPT !.at = "returned", !.answer = a]
Goes(at) == call' = [call EXCEPT !.at = at]

\* The user, or another program, changes the repository of a call under way.
Swap(r) ==
  /\ call.at \notin {"idle", "returned"} /\ swaps < MaxSwaps /\ r # repo
  /\ repo' = r /\ swaps' = swaps + 1
  /\ UNCHANGED saw /\ ProcessesKeep /\ UNCHANGED call

\* Refused before anything runs: an unknown workspace, a path or an object name
\* out of shape, limits out of range, no Git program.
GitRefuses(reason) ==
  /\ call.at = "idle" /\ Answers(reason)
  /\ ProcessesKeep /\ TreeKeeps

\* run_os: the worktree is admitted first, and the command is built from constants.
GitAdmits ==
  /\ call.at = "idle"
  /\ IF Admissible(repo) THEN Goes("spawn") ELSE Answers("external")
  /\ ProcessesKeep /\ TreeKeeps

\* run_git: the group or the job exists before the child runs, and the child looks at
\* the repository as it starts.  A child that cannot be resumed has done nothing.
GitSpawns ==
  /\ call.at = "spawn"
  /\ \/ /\ leader' = "running" /\ gitPump' = [p \in Pipes |-> "reading"] /\ Goes("watch")
        /\ saw' = repo /\ UNCHANGED <<repo, swaps, helper, wrote, got>>
     \/ /\ \E reason \in {"spawn", "cancelled", "timed_out"} : Answers(reason)
        /\ ProcessesKeep /\ TreeKeeps

\* Git reads its repository again at some moment of its life.
LeaderLooks ==
  /\ leader = "running" /\ saw # repo
  /\ saw' = repo /\ UNCHANGED <<repo, swaps, call>> /\ ProcessesKeep

LeaderWrites(p) ==
  /\ leader = "running" \/ helper = "running"
  /\ wrote[p] < MaxGitBytes
  /\ wrote' = [wrote EXCEPT ![p] = @ + 1]
  /\ UNCHANGED <<leader, helper, got, gitPump, call>> /\ TreeKeeps

HelperForks ==
  /\ leader = "running" /\ helper = "none" /\ helper' = "running"
  /\ UNCHANGED <<leader, wrote, got, gitPump, call>> /\ TreeKeeps

HelperLeaves ==
  /\ helper = "running" /\ helper' \in {"quiet", "gone"}
  /\ UNCHANGED <<leader, wrote, got, gitPump, call>> /\ TreeKeeps

LeaderExits ==
  /\ leader = "running" /\ leader' = "exited"
  /\ UNCHANGED <<helper, wrote, got, gitPump, call>> /\ TreeKeeps

PipeHolders == leader = "running" \/ helper = "running"

\* spawn_reader: over the limit the reader says so and stops reading.
PumpReads(p) ==
  /\ gitPump[p] = "reading" /\ got[p] < wrote[p]
  /\ IF got[p] + 1 > GitLimit
     THEN gitPump' = [gitPump EXCEPT ![p] = "limited"] /\ UNCHANGED got
     ELSE got' = [got EXCEPT ![p] = @ + 1] /\ UNCHANGED gitPump
  /\ UNCHANGED <<leader, helper, wrote, call>> /\ TreeKeeps

PumpEnds(p) ==
  /\ gitPump[p] = "reading" /\ got[p] = wrote[p] /\ ~PipeHolders
  /\ gitPump' = [gitPump EXCEPT ![p] = "ended"]
  /\ UNCHANGED <<leader, helper, wrote, got, call>> /\ TreeKeeps

Limited == \E p \in Pipes : gitPump[p] = "limited"
PumpsJoined == \A p \in Pipes : gitPump[p] \in {"limited", "ended"}

\* The supervising loop: cancelled, over the limit, finished, or too late.
WatchFails(error) ==
  /\ call.at = "watch"
  /\ error = "limit" => Limited
  /\ call' = [call EXCEPT !.at = "kill", !.error = error]
  /\ ProcessesKeep /\ TreeKeeps

WatchSeesExit ==
  /\ call.at = "watch" /\ leader = "exited"
  /\ leader' = "reaped"
  /\ Goes(IF call.host = "windows" THEN "tidy" ELSE "join")
  /\ UNCHANGED <<helper, wrote, got, gitPump>> /\ TreeKeeps

\* ProcessTree::terminate on what is left of the job after the leader.
TreeTidied ==
  /\ call.at = "tidy"
  /\ \/ helper' = (IF helper = "none" THEN "none" ELSE "gone") /\ Goes("join")
     \/ UNCHANGED helper /\ Answers("cleanup")
  /\ UNCHANGED <<leader, wrote, got, gitPump>> /\ TreeKeeps

\* The tree is signalled and nobody asks whether that worked.
HelperSignalled == helper' = helper \/ (helper # "none" /\ helper' = "gone")

\* terminate_child: the tree is signalled, then the child is killed and reaped.
TreeKilled ==
  /\ call.at = "kill"
  /\ HelperSignalled
  /\ leader' = "reaped" /\ Goes("collect")
  /\ UNCHANGED <<wrote, got, gitPump>> /\ TreeKeeps

\* A cleanup deadline passes: the readers may still be blocked on their pipes, and
\* join_reader_until signals the tree once more.
GitCleanupLate ==
  /\ call.at \in {"kill", "collect", "join"} /\ (call.at # "kill" => ~PumpsJoined)
  /\ Answers("cleanup")
  /\ HelperSignalled /\ UNCHANGED <<leader, wrote, got, gitPump>> /\ TreeKeeps

\* Both readers were joined after a failure: the failure is the answer.
GitCollects ==
  /\ call.at = "collect" /\ PumpsJoined
  /\ Answers(call.error) /\ ProcessesKeep /\ TreeKeeps

\* Mutant: the limit is only looked at while the child runs.
GitJoinsUnchecked ==
  /\ call.at = "join" /\ PumpsJoined
  /\ Goes("check") /\ ProcessesKeep /\ TreeKeeps

\* Both readers were joined after a normal exit: the limit is checked once more.
GitJoins ==
  /\ call.at = "join" /\ PumpsJoined
  /\ IF Limited THEN Answers("limit") ELSE Goes("check")
  /\ ProcessesKeep /\ TreeKeeps

\* run_os: the worktree is validated again before the output or the exit code counts;
\* Git fails where it found no repository.
GitChecks ==
  /\ call.at = "check"
  /\ IF Admissible(repo)
     THEN (Discovers(saw) # "none" /\ Goes("parse")) \/ Answers("failed")
     ELSE Answers("external")
  /\ ProcessesKeep /\ TreeKeeps

\* parse_status, parse_log: all records within the limit and in shape, or none;
\* diff and show return the bytes.
GitParses ==
  /\ call.at = "parse"
  /\ Answers("ok") \/ Answers("malformed")
  /\ ProcessesKeep /\ TreeKeeps

GitNext ==
  \/ \E r \in Repos : Swap(r)
  \/ \E reason \in {"workspace", "path", "object", "policy", "program"} : GitRefuses(reason)
  \/ GitAdmits \/ GitSpawns \/ LeaderLooks \/ HelperForks \/ HelperLeaves \/ LeaderExits
  \/ \E p \in Pipes : LeaderWrites(p) \/ PumpReads(p) \/ PumpEnds(p)
  \/ \E e \in {"cancelled", "timed_out", "limit"} : WatchFails(e)
  \/ WatchSeesExit \/ TreeTidied \/ TreeKilled \/ GitCleanupLate
  \/ GitCollects \/ GitJoins \/ GitChecks \/ GitParses

GitSpec == GitInit /\ [][GitNext]_gitVars

-----------------------------------------------------------------------------
(* Properties. *)

\* An output that is returned is whole: nobody can still write to its pipe and
\* neither reader stopped at its limit, whenever the limit was met; and a failure
\* that is not a cleanup timeout leaves no child and no reader (process.rs, run_git).
GitAnswerIsWhole ==
  /\ call.answer = "ok" => ~PipeHolders /\ ~Limited /\ got = wrote
  /\ call.answer \in {"cancelled", "timed_out", "limit"} =>
       leader \in {"none", "reaped"} /\ \A p \in Pipes : gitPump[p] # "reading"

\* One change of the workspace's repository at any moment of a call cannot make Git's
\* reading of an unvalidated one count as an answer: an answer comes from the
\* workspace's own repository, validated, or, if Git found none there, from one that
\* encloses the workspace, which nothing has validated (command.rs, run_os and
\* validate_worktree).
OwnRepositoryIsValidated ==
  call.answer = "ok" /\ swaps <= 1 =>
    /\ GitRootHolds(saw) /\ Discovers(saw) # "none"
    /\ Discovers(saw) = "own" => Validated(saw)

\* Git's output is handed on only whole, and from the workspace only as validated
\* (command.rs and process.rs).
GitAnswerIsSound == GitAnswerIsWhole /\ OwnRepositoryIsValidated
=============================================================================
