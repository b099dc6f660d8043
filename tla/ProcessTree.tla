---------------------------- MODULE ProcessTree ----------------------------
(***************************************************************************)
(* The sidecar's processes and the guard that owns them: the start of the   *)
(* child, and the three threads that may end its tree at once (the terminal  *)
(* callback, the exit monitor and the supervisor's cleanup), on Unix process *)
(* groups and on Windows jobs.                                              *)
(***************************************************************************)
EXTENDS Naturals

CONSTANTS
  TreePlatforms,  \* the platforms considered: linux, macos, windows
  MaxTreeFaults,  \* system calls that fail (a bound of the model)
  MaxCleanups     \* times the owner cleans up (a bound)

ASSUME TreeAssumption ==
  /\ TreePlatforms \subseteq {"linux", "macos", "windows"}
  /\ MaxTreeFaults \in Nat /\ MaxCleanups \in Nat

VARIABLES
  spawning,       \* how far spawn_process got
  top,         \* the leader: none, suspended, running, zombie, reaped
  kin,         \* its descendants in the group or job: none, running
  treeGuard,       \* alive, failed; identity recorded; the job's handle
  ender,       \* thread -> where it is, and what its last call returned
  exited,      \* RunningProcess.exited
  treeFaults,  \* failures so far
  cleanups     \* cleanups so far

treeVars == <<spawning, top, kin, treeGuard, ender, exited, treeFaults, cleanups>>

Enders == {"callback", "monitor", "owner"}

\* A configuration by what validate looks at; one deviation at a time.
SoundConfig == [paths |-> "frozen", binary |-> "same", workspace |-> "apart", env |-> "listed",
                args |-> "clean", budgets |-> "bounded"]
SidecarConfigs ==
  {SoundConfig, [SoundConfig EXCEPT !.paths = "moved"], [SoundConfig EXCEPT !.binary = "replaced"],
   [SoundConfig EXCEPT !.workspace = "around"], [SoundConfig EXCEPT !.env = "secret"],
   [SoundConfig EXCEPT !.args = "secret"], [SoundConfig EXCEPT !.budgets = "absurd"]}

\* allowed_env_name and contains_secret_marker
EnvironmentAdmitted(c) == c.env = "listed" /\ c.args = "clean"

\* verify_executable_identity, run again right before the spawn
IdentityHolds(c) == c.binary = "same"

\* SidecarConfig::validate
ConfigAdmits(c) ==
  /\ c.paths = "frozen" /\ c.workspace = "apart" /\ c.budgets = "bounded"
  /\ EnvironmentAdmitted(c) /\ IdentityHolds(c)

TreeInit ==
  /\ spawning = [at |-> "new", config |-> SoundConfig, result |-> "none"]
  /\ top = "none" /\ kin = "none"
  /\ \E h \in TreePlatforms :
       treeGuard = [host |-> h, alive |-> TRUE, failed |-> FALSE, identified |-> FALSE, job |-> "open"]
  /\ ender = [t \in Enders |-> [at |-> "idle", tree |-> "none", result |-> "none"]]
  /\ exited = FALSE /\ treeFaults = 0 /\ cleanups = 0

EndersKeep == UNCHANGED <<ender, exited, cleanups>>
ProcessesStay == UNCHANGED <<top, kin>>

\* A call fails.
Faults == treeFaults < MaxTreeFaults /\ treeFaults' = treeFaults + 1

(* The start. *)

SpawnChecks(c) ==
  /\ spawning.at = "new"
  /\ spawning' = IF ConfigAdmits(c) THEN [spawning EXCEPT !.at = "checked", !.config = c]
              ELSE [spawning EXCEPT !.at = "over", !.result = "invalid"]
  /\ ProcessesStay /\ UNCHANGED <<treeGuard, treeFaults>> /\ EndersKeep

\* prepare and Command::spawn: its own group, or suspended before its job.
SpawnChild ==
  /\ spawning.at = "checked"
  /\ \/ /\ top' = IF treeGuard.host = "windows" THEN "suspended" ELSE "running"
        /\ spawning' = [spawning EXCEPT !.at = "spawned"] /\ UNCHANGED treeFaults
     \/ spawning' = [spawning EXCEPT !.at = "over", !.result = "spawn"] /\ UNCHANGED top /\ Faults
  /\ UNCHANGED <<kin, treeGuard>> /\ EndersKeep

\* assign and resume: the pid with its start time, or the job and a duplicated handle.
SpawnAssign ==
  /\ spawning.at = "spawned"
  /\ \/ /\ treeGuard' = [treeGuard EXCEPT !.identified = TRUE]
        /\ top' = IF top = "suspended" THEN "running" ELSE top
        /\ spawning' = [spawning EXCEPT !.at = "assigned"] /\ UNCHANGED treeFaults
     \/ treeGuard.host # "macos" /\ Faults /\ spawning' = [spawning EXCEPT !.at = "abort"] /\ UNCHANGED <<treeGuard, top>>
  /\ UNCHANGED kin /\ EndersKeep

\* Pipes, session and monitor; without one of them the child is put away again.
SpawnConnects ==
  /\ spawning.at = "assigned"
  /\ \/ spawning' = [spawning EXCEPT !.at = "up"] /\ UNCHANGED treeFaults
     \/ Faults /\ spawning' = [spawning EXCEPT !.at = "abort"]
  /\ ProcessesStay /\ UNCHANGED treeGuard /\ EndersKeep

(* Signals. *)

\* Everything in the group, or in the job, dies.
GroupDies ==
  /\ top' = IF top \in {"suspended", "running"} THEN "zombie" ELSE top
  /\ kin' = "none"

LeaderDies == top' = (IF top \in {"suspended", "running"} THEN "zombie" ELSE top)

\* Mutant: a group whose leader has been reaped is not looked for.
OwnsGroupByLeader ==
  treeGuard.host = "macos" \/ (treeGuard.identified /\ top # "reaped")

\* owns_group: the leader's start time, or a group that still answers.
OwnsGroup ==
  treeGuard.host = "macos" \/ (treeGuard.identified /\ (top # "reaped" \/ kin = "running"))

\* cleanup_spawned_child: the leader first, then the tree.  If that fails the error names
\* the tree, except where only the monitor's thread was missing.
SpawnAborts ==
  /\ spawning.at = "abort"
  /\ \/ /\ top' = "reaped"
        /\ kin' = IF treeGuard.host = "windows" \/ OwnsGroup THEN "none" ELSE kin
        /\ spawning' = [spawning EXCEPT !.at = "over", !.result = "spawn"] /\ UNCHANGED treeFaults
     \/ /\ Faults /\ top' \in {top, "reaped"} /\ kin' \in {kin, "none"}
        /\ \E error \in {"tree", "spawn"} :
             spawning' = [spawning EXCEPT !.at = "over", !.result = error]
  /\ treeGuard' = [treeGuard EXCEPT !.alive = FALSE, !.job = "closed"]
  /\ EndersKeep

(* The processes. *)

KinForks ==
  /\ top = "running" /\ kin = "none" /\ kin' = "running"
  /\ UNCHANGED <<spawning, top, treeGuard, treeFaults>> /\ EndersKeep

SidecarExits ==
  /\ top = "running" /\ top' = "zombie"
  /\ UNCHANGED <<spawning, kin, treeGuard, treeFaults>> /\ EndersKeep

(* The three threads that end the tree. *)

EnderAt(t, at) == ender' = [ender EXCEPT ![t].at = at]

\* The supervisor cleans up, the session fails, or the monitor's probe reaps the leader.
EndBegins(t) ==
  /\ spawning.at = "up" /\ ender[t].at = "idle"
  /\ CASE t = "owner" -> cleanups < MaxCleanups /\ cleanups' = cleanups + 1 /\ UNCHANGED top
       [] t = "callback" -> ender[t].result = "none" /\ UNCHANGED <<cleanups, top>>
       [] OTHER -> top \in {"zombie", "reaped"} /\ ~exited /\ top' = "reaped" /\ UNCHANGED cleanups
  /\ EnderAt(t, "claim")
  /\ UNCHANGED <<spawning, kin, treeGuard, exited, treeFaults>>

\* ProcessTreeGuard::terminate: one caller signals, the others find nothing left to do.
EndClaims(t) ==
  /\ ender[t].at = "claim"
  /\ \/ treeGuard.failed /\ ender' = [ender EXCEPT ![t] = [@ EXCEPT !.at = "reap", !.tree = "failed"]]
        /\ IF treeGuard.host = "windows"
           THEN LeaderDies /\ treeGuard' = [treeGuard EXCEPT !.job = "closed"]
                /\ kin' = IF treeGuard.job = "open" THEN "none" ELSE kin
           ELSE UNCHANGED <<top, kin, treeGuard>>
     \/ /\ ~treeGuard.failed /\ treeGuard' = [treeGuard EXCEPT !.alive = FALSE]
        /\ ender' = [ender EXCEPT ![t] = IF treeGuard.alive THEN [@ EXCEPT !.at = "signal"]
                                         ELSE [@ EXCEPT !.at = "reap", !.tree = "ok"]]
        /\ ProcessesStay
  /\ UNCHANGED <<spawning, exited, treeFaults, cleanups>>

\* killpg, after the ownership check; a refused signal fails the guard for good.
EndSignalsGroup(t) ==
  /\ ender[t].at = "signal" /\ treeGuard.host # "windows"
  /\ \/ /\ IF OwnsGroup THEN GroupDies ELSE ProcessesStay
        /\ ender' = [ender EXCEPT ![t] = [@ EXCEPT !.at = "reap", !.tree = "ok"]]
        /\ UNCHANGED <<treeGuard, treeFaults>>
     \/ /\ OwnsGroup /\ Faults /\ treeGuard' = [treeGuard EXCEPT !.failed = TRUE]
        /\ ender' = [ender EXCEPT ![t] = [@ EXCEPT !.at = "reap", !.tree = "failed"]]
        /\ ProcessesStay
  /\ UNCHANGED <<spawning, exited, cleanups>>

\* terminate_with_backend: the job is terminated and its handle closed, which kills too;
\* a failed close leaves the handle to the next call, and the leader's own handle remains.
EndSignalsJob(t) ==
  /\ ender[t].at = "signal" /\ treeGuard.host = "windows"
  /\ \/ /\ GroupDies /\ treeGuard' = [treeGuard EXCEPT !.job = "closed"] /\ UNCHANGED treeFaults
        /\ ender' = [ender EXCEPT ![t] = [@ EXCEPT !.at = "reap", !.tree = "ok"]]
     \/ /\ Faults
        /\ \/ GroupDies /\ treeGuard' = [treeGuard EXCEPT !.failed = TRUE]
           \/ GroupDies /\ treeGuard' = [treeGuard EXCEPT !.failed = TRUE, !.job = "closed"]
           \/ LeaderDies /\ UNCHANGED kin /\ treeGuard' = [treeGuard EXCEPT !.failed = TRUE]
        /\ ender' = [ender EXCEPT ![t] = [@ EXCEPT !.at = "reap", !.tree = "failed"]]
  /\ UNCHANGED <<spawning, exited, cleanups>>

\* bounded_reap_child through the original handle; the monitor has reaped already.
EndReaps(t) ==
  /\ ender[t].at = "reap"
  /\ \/ /\ top' = "reaped" /\ UNCHANGED treeFaults
        /\ ender' = [ender EXCEPT ![t] = [@ EXCEPT !.at = IF t = "monitor" THEN "publish" ELSE "idle",
                                                   !.result = ender[t].tree]]
     \/ /\ t # "monitor" /\ Faults /\ UNCHANGED top
        /\ ender' = [ender EXCEPT ![t] = [@ EXCEPT !.at = "idle", !.result = "failed"]]
  /\ UNCHANGED <<spawning, kin, treeGuard, exited, cleanups>>

\* mark_exited: the exit is published with what the tree's end returned.
ExitPublished ==
  /\ ender["monitor"].at = "publish"
  /\ exited' = TRUE /\ EnderAt("monitor", "done")
  /\ UNCHANGED <<spawning, top, kin, treeGuard, treeFaults, cleanups>>

TreeNext ==
  \/ \E c \in SidecarConfigs : SpawnChecks(c)
  \/ SpawnChild \/ SpawnAssign \/ SpawnConnects \/ SpawnAborts
  \/ KinForks \/ SidecarExits \/ ExitPublished
  \/ \E t \in Enders : EndBegins(t) \/ EndClaims(t) \/ EndSignalsGroup(t) \/ EndSignalsJob(t) \/ EndReaps(t)

TreeSpec == TreeInit /\ [][TreeNext]_treeVars

-----------------------------------------------------------------------------
(* Properties. *)

NobodyEnds == \A t \in Enders : ender[t].at \in {"idle", "done"}

\* Once nobody is ending the tree any more, a tree that is not gone has been reported as
\* a failure by somebody: a caller that found the work claimed and returned at once may
\* rely on the one that claimed it (ProcessTreeGuard::terminate, bounded_reap_child).
SurvivorIsReported ==
  NobodyEnds /\ (\E t \in Enders : ender[t].result # "none") /\ (\A t \in Enders : ender[t].result # "failed")
    => kin = "none" /\ top = "reaped"
=============================================================================
