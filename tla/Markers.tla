------------------------------ MODULE Markers -------------------------------
(***************************************************************************)
(* The marker evidence of the macOS sandbox spike: the owner of a helper   *)
(* process leaves marker files that name it, and a later clean-up pass     *)
(* kills the helper and retires the evidence through tombstones, backups   *)
(* and aliases that must survive a failure at every system call.           *)
(*                                                                         *)
(* A transaction is a sequence of operations; every file operation may     *)
(* fail before or after it took effect, the process may be killed between  *)
(* two of them, and the machine may stop, which leaves one of the          *)
(* directories the last sync allows.  The one marker of the model stands   *)
(* for the primary, fallback and emergency files, which are handled alike. *)
(***************************************************************************)
EXTENDS Naturals, Sequences, FiniteSets

CONSTANT MaxFaults     \* failures of operations, kills and machine stops
ASSUME MarkersAssumption == MaxFaults \in Nat

\* The names derived from one marker.
Cleaned == {"cleaned", "recovery"}
Aliases == {"pcleaned", "precovery"}
Names == {"active", "pending"} \cup Cleaned \cup Aliases

\* recovery_backup_names and pending_state_names: the opposite of a name.
Twin(n) == CASE n = "cleaned" -> "recovery" [] n = "recovery" -> "cleaned"
             [] n = "pcleaned" -> "precovery" [] n = "precovery" -> "pcleaned"

VARIABLES
  dir,      \* what each name holds: absent, prepared, part, soft (whole, not synced), full
  markerDisk, \* the directories a machine stop may leave
  helperProc, \* none, running, gone
  phase,    \* owner, idle, pass
  seen,     \* the directory the pass has scanned
  fresh,    \* names written since the scan: their inode is not the scanned one
  todo,     \* scanned names still to be handled
  plan,     \* operations of the transaction that runs: <<op, name, on failure>>
  target,   \* the name it is about
  troubled, \* report_categories is not empty
  result,   \* of the last pass: none, ok, err, abort
  faults

markersVars == <<dir, markerDisk, helperProc, phase, seen, fresh, todo, plan, target, troubled, result, faults>>

Whole(d, n) == d[n] \in {"full", "soft"}
Present(d, n) == d[n] # "absent"
Empty == [n \in Names |-> "absent"]

MarkersTypeOK ==
  /\ dir \in [Names -> {"absent", "prepared", "part", "soft", "full"}]
  /\ dir \in markerDisk
  /\ helperProc \in {"none", "running", "gone"}
  /\ phase \in {"owner", "idle", "pass"}
  /\ todo \subseteq Names /\ fresh \subseteq Names /\ target \in Names
  /\ troubled \in BOOLEAN /\ result \in {"none", "ok", "err", "abort"}
  /\ faults \in 0..MaxFaults

(***************************************************************************)
(* Transactions, as sequences of operations.                               *)
(***************************************************************************)
Op(op, n, else) == <<op, n, else>>
Sync(else) == <<Op("dsync", "active", else)>>      \* of the directory

\* Create with O_EXCL, write, sync the file.
WriteNew(n, else) == <<Op("create", n, else), Op("write", n, else), Op("fsync", n, else)>>

\* Unlink and make it durable.
Unlink(n, else) == <<Op("unlink", n, else), Op("dsync", n, else)>>

\* prepare_helper_marker, spawn, activate_helper_marker.
OwnerPlan ==
  <<Op("prepare_marker", "active", "discard"), Op("spawn", "active", "discard")>>
  \o WriteNew("pending", "rewrite") \o <<Op("rename", "pending", "rewrite")>> \o Sync("rewrite")

\* activate_marker_file after a failure: the pending file goes, the marker is
\* rewritten in place.
Rewrite ==
  (IF Present(dir, "pending") THEN Unlink("pending", "rewrite_marker") ELSE <<>>)
  \o <<Op("truncate", "active", "end"), Op("write", "active", "end"), Op("fsync", "active", "end")>>

\* Mutant: the marker is removed first.
OwnerFinishUnreaped == Unlink("active", "end") \o <<Op("reap", "active", "end")>>

\* cleanup_child and remove_marker: the helper is reaped before its marker goes.
OwnerFinish == <<Op("reap", "active", "end")>> \o Unlink("active", "end")

\* Drop after a failed activation: the marker is left to the clean-up.
OwnerReap == <<Op("reap", "active", "end")>>

\* The helper is identified and ended, or found gone where that is allowed.
EndHelper(n) == <<Op("kill", n, "err")>>

\* unlink_verified_entry: the marker becomes a tombstone,
Tombstone == <<Op("tombstone", "active", "err")>> \o Sync("err")

\* a second image is written,
SecondImage == WriteNew("recovery", "err") \o Sync("err")

\* the tombstone goes and the image is closed like any other.
ActiveRemoval ==
  EndHelper("active") \o Tombstone \o SecondImage
  \o Unlink("cleaned", "err") \o <<Op("close", "recovery", "err")>>

\* publish_recovery_backup: a matching backup is resumed, any other refuses.
ResumeBackup(b) == IF Whole(dir, b) THEN Sync("err") ELSE <<Op("fail", b, "err")>>
NewBackup(b) == WriteNew(b, "err") \o Sync("err")

PublishBackup(t) == IF Present(dir, Twin(t)) THEN ResumeBackup(Twin(t)) ELSE NewBackup(Twin(t))

\* close_pending_after_backup.
ClosePending ==
  IF ~Present(dir, "pending") THEN <<>>
  ELSE IF Whole(dir, "pending") THEN Unlink("pending", "err")
  ELSE <<Op("fail", "pending", "err")>>

\* prepare_recovery_backup: the staging file is written only when there is no
\* backup, and one that is incomplete is left alone.
StageBackup ==
  IF ~Present(dir, "pending") THEN WriteNew("pending", "err")
  ELSE IF Whole(dir, "pending") THEN <<Op("fsync", "pending", "err")>>
  ELSE <<Op("fail", "pending", "err")>>

FinishBackup(t) == <<Op("publish", t, "err"), Op("close_pending", t, "err")>>

PrepareBackup(t) ==
  (IF Present(dir, Twin(t)) THEN <<>> ELSE StageBackup) \o FinishBackup(t)

\* unlink_cleaned_evidence: the backup outlives the target.
CloseEvidence(t) ==
  <<Op("backup", t, "err")>> \o Unlink(t, "restore") \o Unlink(Twin(t), "last_copy")

\* restore_recovery_evidence: one candidate, then the other; then
\* finalize_durable_restore_candidate and remove_restore_candidate.
RestoreInto(n, else) ==
  IF Present(dir, n) THEN <<Op("fsync", n, else)>> \o Sync(else)
  ELSE WriteNew(n, else) \o Sync(else)

FinalizeRestore(t) == Sync("abort")

RemoveCandidate(t) == IF Present(dir, t) THEN Unlink(t, "err") ELSE <<>>

Restore(t) ==
  IF Present(dir, t) /\ ~Whole(dir, t) THEN <<Op("restore_twin", t, "abort")>>
  ELSE RestoreInto(t, "restore_twin") \o FinalizeRestore(t) \o <<Op("fail", t, "err")>>

RestoreTwin(t) ==
  IF Present(dir, Twin(t)) /\ ~Whole(dir, Twin(t)) THEN <<Op("abort", t, "abort")>>
  ELSE RestoreInto(Twin(t), "abort") \o FinalizeRestore(t) \o RemoveCandidate(t)
       \o <<Op("fail", t, "err")>>

\* isolate_damaged_sibling, then the entry itself: remove_pending_marker kills
\* a helper that still runs.
Isolate(n) ==
  IF Present(seen, Twin(n)) /\ ~Whole(seen, Twin(n))
  THEN <<Op("fsync", n, "err")>> \o Sync("err") \o <<Op("isolate", Twin(n), "err")>> \o Sync("err")
  ELSE <<>>

CleanedRemoval(n) ==
  Isolate(n) \o EndHelper(n) \o <<Op("close", n, "err"), Op("ok", Twin(n), "err")>>

\* remove_pending_evidence: a synced sibling is found or written, the entry goes,
\* then the sibling, whose unlink can be undone.
Clash(m) == Present(dir, m) /\ ~Whole(dir, m)

EnsureAlias(m) ==
  IF Present(dir, m) THEN <<Op("fsync", m, "err")>> ELSE WriteNew(m, "err") \o Sync("err")

RemovePair(n, m) ==
  EnsureAlias(m) \o Unlink(n, "err") \o Unlink(m, "put_back") \o <<Op("ok", m, "err")>>

RemoveStaging ==
  IF (\A a \in Aliases : Present(dir, a)) \/ (\E a \in Aliases : Clash(a))
  THEN <<Op("fail", "pending", "err")>>
  ELSE RemovePair("pending", IF Present(dir, "pcleaned") THEN "pcleaned" ELSE "precovery")

RemoveAlias(n) ==
  IF Present(dir, "pending")
  THEN IF Clash("pending") \/ Present(dir, Twin(n)) THEN <<Op("fail", n, "err")>>
       ELSE Unlink(n, "err")
  ELSE IF Clash(Twin(n)) THEN <<Op("fail", n, "err")>> ELSE RemovePair(n, Twin(n))

PendingRemoval(n) ==
  IF ~Whole(dir, n) THEN <<Op("fail", n, "err")>>
  ELSE IF n = "pending" THEN RemoveStaging ELSE RemoveAlias(n)

\* ensure_pending_alias with the captured image, after the last unlink failed.
PutBack(n) ==
  IF Present(dir, n) THEN Sync("abort") \o <<Op("fail", n, "err")>>
  ELSE WriteNew(n, "abort") \o Sync("abort") \o <<Op("fail", n, "err")>>

(***************************************************************************)
(* What an operation does to the directory and to the disk.                *)
(***************************************************************************)
Effect(op, n) ==
  CASE op = "create"         -> [dir EXCEPT ![n] = "part"]
    [] op = "truncate"       -> [dir EXCEPT ![n] = "part"]
    [] op = "prepare_marker" -> [dir EXCEPT ![n] = "prepared"]
    [] op = "write"          -> [dir EXCEPT ![n] = "soft"]
    [] op = "fsync"          -> [dir EXCEPT ![n] = "full"]
    [] op \in {"unlink", "isolate"} -> [dir EXCEPT ![n] = "absent"]
    [] op = "rename"         -> [dir EXCEPT !["active"] = dir[n], ![n] = "absent"]
    [] op = "tombstone"      -> [dir EXCEPT !["cleaned"] = dir[n], ![n] = "absent"]
    [] OTHER                 -> dir

OnDisk(op, n, after) ==
  CASE op = "dsync" -> {dir}
    [] op = "fsync" -> {[d EXCEPT ![n] = IF @ = "absent" THEN @ ELSE "full"] : d \in markerDisk} \cup {after}
    [] OTHER        -> markerDisk \cup {after}

\* The conditions under which the call itself fails.
Refused(op, n) ==
  \/ op = "create" /\ Present(dir, n)
  \/ op \in {"unlink", "rename", "fsync", "tombstone", "truncate"} /\ ~Present(dir, n)
  \/ op = "isolate" /\ (~Present(dir, n) \/ n \in fresh)
  \/ op = "kill" /\ n = "active" /\ helperProc # "running"
  \/ op = "close" /\ ~Whole(dir, n)

Expands == {"close", "backup", "publish", "close_pending", "restore_twin"}

Expansion(op, n) ==
  CASE op = "close"         -> CloseEvidence(n)
    [] op = "backup"        -> PrepareBackup(n)
    [] op = "publish"       -> PublishBackup(n)
    [] op = "close_pending" -> ClosePending
    [] op = "restore_twin"  -> RestoreTwin(n)

\* Where a failed operation leads, in the directory it leaves.
Handler(else, n) ==
  CASE else = "end"        -> <<Op("end", n, "end")>>
    [] else = "discard"    -> Unlink("active", "end")
    [] else = "rewrite"    -> <<Op("rewrite", n, "end")>>
    [] else = "rewrite_marker" -> <<Op("rewrite", n, "end")>>
    [] else = "err"        -> <<Op("fail", n, "err")>>
    [] else = "restore"    -> <<Op("restore", target, "abort")>>
    [] else = "restore_twin" -> <<Op("restore_twin", target, "abort")>>
    [] else = "last_copy"  -> <<Op("last_copy", target, "abort")>>
    [] else = "put_back"   -> <<Op("put_back", n, "abort")>>
    [] else = "abort"      -> <<Op("abort", n, "abort")>>

\* What a handler does once the directory shows what is left.
Recovery(op, n) ==
  CASE op = "rewrite"   -> Rewrite
    [] op = "restore"   -> IF Present(dir, n) THEN <<Op("fail", n, "err")>> ELSE Restore(n)
    [] op = "last_copy" -> IF Present(dir, Twin(n)) THEN <<Op("fail", n, "err")>> ELSE Restore(n)
    [] op = "put_back"  -> PutBack(n)

Recoveries == {"rewrite", "restore", "last_copy", "put_back"}
Ends == {"end", "fail", "stale", "abort", "ok"}

-----------------------------------------------------------------------------
MarkersInit ==
  /\ dir = Empty /\ markerDisk = {Empty} /\ helperProc = "none" /\ phase = "owner"
  /\ seen = Empty /\ fresh = {} /\ todo = {} /\ plan = OwnerPlan /\ target = "active"
  /\ troubled = FALSE /\ result = "none" /\ faults = 0

Running == plan # <<>>
PassAt == Head(plan)

\* One operation succeeds.
Step ==
  /\ Running /\ PassAt[1] \notin Expands \cup Recoveries \cup Ends
  /\ ~Refused(PassAt[1], PassAt[2])
  /\ dir' = Effect(PassAt[1], PassAt[2])
  /\ markerDisk' = OnDisk(PassAt[1], PassAt[2], dir')
  /\ fresh' = fresh \cup {m \in Names : dir'[m] # dir[m]}
  /\ helperProc' = CASE PassAt[1] = "spawn" -> "running"
                 [] PassAt[1] \in {"kill", "reap"} /\ helperProc = "running" -> "gone"
                 [] OTHER -> helperProc
  /\ plan' = Tail(plan)
  /\ UNCHANGED <<phase, seen, todo, target, troubled, result, faults>>

\* A transaction goes into one of its parts.
Enter ==
  /\ Running /\ PassAt[1] \in Expands /\ ~Refused(PassAt[1], PassAt[2])
  /\ plan' = Expansion(PassAt[1], PassAt[2]) \o (IF PassAt[1] = "restore_twin" THEN <<>> ELSE Tail(plan))
  /\ target' = IF PassAt[1] = "close" THEN PassAt[2] ELSE target
  /\ UNCHANGED <<dir, markerDisk, helperProc, phase, seen, fresh, todo, troubled, result, faults>>

Recover ==
  /\ Running /\ PassAt[1] \in Recoveries
  /\ plan' = Recovery(PassAt[1], PassAt[2])
  /\ UNCHANGED <<dir, markerDisk, helperProc, phase, seen, fresh, todo, target, troubled, result, faults>>

\* A call is refused by what the directory holds.
Refuse ==
  /\ Running /\ Refused(PassAt[1], PassAt[2])
  /\ plan' = Handler(PassAt[3], PassAt[2])
  /\ UNCHANGED <<dir, markerDisk, helperProc, phase, seen, fresh, todo, target, troubled, result, faults>>

\* What a call that writes leaves when it fails halfway, and any other when it fails late.
HalfDone(op, n) ==
  IF op \in {"write", "prepare_marker"} THEN [dir EXCEPT ![n] = "part"] ELSE Effect(op, n)

\* A system call, a check after it, the deadline or the budget fails; the call
\* may have done its work, or half of it.
Fail ==
  /\ Running /\ faults < MaxFaults
  /\ PassAt[1] \notin Expands \cup Recoveries \cup Ends /\ ~Refused(PassAt[1], PassAt[2])
  /\ faults' = faults + 1
  /\ \/ UNCHANGED <<dir, markerDisk, helperProc>>
     \/ /\ PassAt[1] \notin {"spawn", "kill", "reap"}
        /\ dir' = HalfDone(PassAt[1], PassAt[2])
        /\ markerDisk' = OnDisk(PassAt[1], PassAt[2], dir')
        /\ UNCHANGED helperProc
     \/ /\ PassAt[1] \in {"kill", "reap"} /\ helperProc = "running"
        /\ helperProc' = "gone" /\ UNCHANGED <<dir, markerDisk>>
  /\ fresh' = fresh \cup {m \in Names : dir'[m] # dir[m]}
  /\ plan' = Handler(PassAt[3], PassAt[2])
  /\ UNCHANGED <<phase, seen, todo, target, troubled, result>>

\* A transaction reports its end, and the sibling it completed need not be
\* handled again; abort takes the process with it.
TransactionEnds ==
  /\ Running /\ PassAt[1] \in Ends
  /\ plan' = <<>>
  /\ troubled' = (troubled \/ PassAt[1] \in {"fail", "stale"})
  /\ phase' = IF PassAt[1] = "abort" THEN "idle" ELSE phase
  /\ result' = IF PassAt[1] = "abort" THEN "abort" ELSE result
  /\ todo' = IF PassAt[1] = "ok" THEN todo \ {PassAt[2]} ELSE IF PassAt[1] = "abort" THEN {} ELSE todo
  /\ UNCHANGED <<dir, markerDisk, helperProc, seen, fresh, target, faults>>

\* The owner's work is over: it ends its helper, or reaps one that exited; whether its
\* activation failed, which keeps the marker, is left open.
OwnerEnds ==
  /\ phase = "owner" /\ ~Running
  /\ \/ helperProc # "none" /\ plan' \in {OwnerFinish, OwnerReap} /\ UNCHANGED phase
     \/ helperProc # "running" /\ phase' = "idle" /\ UNCHANGED plan
  /\ UNCHANGED <<dir, markerDisk, helperProc, seen, fresh, todo, target, troubled, result, faults>>

\* Owner or cleaner is killed.
ProcessDies ==
  /\ phase # "idle" /\ faults < MaxFaults
  /\ faults' = faults + 1
  /\ phase' = "idle" /\ plan' = <<>> /\ todo' = {}
  /\ result' = "none" /\ troubled' = FALSE
  /\ dir' = dir
  /\ UNCHANGED <<markerDisk, helperProc, seen, fresh, target>>

\* The machine stops: every process is gone, troubled data may be torn.
MachineStops ==
  /\ faults < MaxFaults
  /\ faults' = faults + 1
  /\ \E d \in markerDisk : \E torn \in SUBSET {n \in Names : d[n] = "soft"} :
       dir' = [n \in Names |-> IF n \in torn THEN "part"
                               ELSE IF d[n] = "soft" THEN "full" ELSE d[n]]
  /\ markerDisk' = {dir'}
  /\ helperProc' = IF helperProc = "running" THEN "gone" ELSE helperProc
  /\ phase' = "idle" /\ plan' = <<>> /\ todo' = {} /\ fresh' = {}
  /\ result' = "none" /\ troubled' = FALSE
  /\ UNCHANGED <<seen, target>>

\* A helper may exit by itself.
HelperExits ==
  /\ helperProc = "running"
  /\ helperProc' = "gone"
  /\ UNCHANGED <<dir, markerDisk, phase, seen, fresh, todo, plan, target, troubled, result, faults>>

(***************************************************************************)
(* The pass.                                                               *)
(***************************************************************************)
\* scan_root_from_directory; a marker that does not parse is only reported.
Listed == {n \in Names : Present(dir, n) /\ (n = "active" => Whole(dir, n))}

Scan ==
  /\ phase = "idle" /\ result # "ok"
  /\ phase' = "pass" /\ seen' = dir /\ fresh' = {}
  /\ todo' = Listed
  /\ troubled' = (Present(dir, "active") /\ ~Whole(dir, "active"))
  /\ result' = "none"
  /\ UNCHANGED <<dir, markerDisk, helperProc, plan, target, faults>>

\* open_verified_root_directory_until refuses: nothing is scanned.
RootRefused ==
  /\ phase = "idle" /\ result # "ok" /\ faults < MaxFaults
  /\ faults' = faults + 1 /\ result' = "err"
  /\ UNCHANGED <<dir, markerDisk, helperProc, phase, seen, fresh, todo, plan, target, troubled>>

Order(n) == IF n = "active" THEN 0 ELSE IF n \in Cleaned THEN 1 ELSE 2

\* The scanned inode must still be there.
Stale(n) == n \in fresh \/ ~Present(dir, n)

\* The next entry, markers before tombstones before pending files, runs its
\* transaction on the inode that was scanned.
PassBegins(n, transaction) ==
  /\ phase = "pass" /\ ~Running /\ n \in todo
  /\ \A m \in todo : Order(n) <= Order(m)
  /\ target' = n /\ todo' = todo \ {n}
  /\ plan' = IF Stale(n) THEN <<Op("stale", n, "err")>> ELSE transaction
  /\ UNCHANGED <<dir, markerDisk, helperProc, phase, seen, fresh, troubled, result, faults>>

HandleActive == PassBegins("active", ActiveRemoval)

HandleCleaned(n) == Whole(seen, n) /\ PassBegins(n, CleanedRemoval(n))

HandlePending(n) == PassBegins(n, PendingRemoval(n))

\* A damaged tombstone is left to its sibling; without one it is a failure.
HandleDamaged(n) ==
  /\ phase = "pass" /\ ~Running /\ n \in todo /\ ~Whole(seen, n)
  /\ \A m \in todo : Order(n) <= Order(m)
  /\ Twin(n) \in todo => ~Whole(seen, Twin(n))
  /\ todo' = todo \ {n} /\ troubled' = (troubled \/ ~Whole(seen, Twin(n)))
  /\ target' = n
  /\ UNCHANGED <<dir, markerDisk, helperProc, phase, seen, fresh, plan, result, faults>>

\* The last sync and the report.
PassEnds ==
  /\ phase = "pass" /\ ~Running /\ todo = {}
  /\ phase' = "idle"
  /\ \/ markerDisk' = {dir} /\ result' = (IF troubled THEN "err" ELSE "ok") /\ UNCHANGED faults
     \/ faults < MaxFaults /\ faults' = faults + 1 /\ result' = "err" /\ UNCHANGED markerDisk
  /\ UNCHANGED <<dir, helperProc, seen, fresh, todo, plan, target, troubled>>

Work ==
  \/ Step \/ Enter \/ Recover \/ Refuse \/ TransactionEnds \/ OwnerEnds
  \/ Scan \/ PassEnds \/ HandleActive
  \/ \E n \in Cleaned : HandleCleaned(n) \/ HandleDamaged(n)
  \/ \E n \in {"pending"} \cup Aliases : HandlePending(n)

MarkersNext == Work \/ Fail \/ RootRefused \/ ProcessDies \/ MachineStops \/ HelperExits

MarkersSpec == MarkersInit /\ [][MarkersNext]_markersVars

-----------------------------------------------------------------------------
\* A pass that reports success is right: no helper runs, and nothing that
\* names one would come back after the machine stops.
CleanReportIsTrue ==
  result = "ok" /\ phase = "idle" => helperProc # "running" /\ markerDisk = {Empty}

\* A running helper is never without a trace: once its owner is gone, whatever
\* failed or died, some file of it is in the directory (cleanup_child reaps before
\* it unlinks, and a pass kills before it does).  It may be a prepared or a torn
\* file, which shows that a helper was started and not which.
HelperIsTraceable ==
  helperProc = "running" /\ phase # "owner" => \E n \in Names : Present(dir, n)

\* A transaction that fails leaves a whole image for the next pass, whichever
\* of its system calls failed and whether or not that call took effect (the
\* restore candidates and the last-copy publisher).  It speaks of targets that were
\* whole when the pass looked: the close of an active one works on the record that
\* the pass itself has written, and is held to this when a later pass closes it.
FailureIsVisible ==
  phase = "pass" /\ Running /\ PassAt[1] = "fail" /\ Whole(seen, target)
    => \E n \in Names : Whole(dir, n)

\* What a pass reports, and what it leaves behind, is what is there (cleanup_markers_until).
CleanupIsHonest == MarkersTypeOK /\ CleanReportIsTrue /\ HelperIsTraceable /\ FailureIsVisible
=============================================================================
