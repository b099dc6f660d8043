----------------------------- MODULE MCServices -----------------------------
(***************************************************************************)
(* The desktop's services beside the runtime and the sandbox's clean-up,    *)
(* one part per behaviour.  They share no state: each is composed with its  *)
(* own environment (a shell, a page, a crash) in its module, and here they  *)
(* only share a run.                                                        *)
(***************************************************************************)
EXTENDS Terminal, Markers, GroupKill, Preview, Desktop, MCSettings

VARIABLE part

Parts == {"terminal", "markers", "groupkill", "preview", "desktop", "settings"}

\* A part that does not run stands in one of its initial states.
Pinned ==
  /\ part # "groupkill" => hooked /\ \A p \in Pids : pidSlot[p] = "captured"
  /\ part # "settings" => file["primary"] = Missing

MCInit ==
  /\ part \in Parts
  /\ TerminalInit /\ MarkersInit /\ GroupKillInit /\ PreviewInit
  /\ DesktopInit /\ SettingsInit /\ Pinned

\* Bounds: the second closer comes to sessions without input and faults, input to
\* those with one kind of descendants, and input and faults meet in sessions without
\* output and background jobs.
Calm ==
  /\ thread'["exit"].pc # "idle" => calls' = 0 /\ ptyFaults' = 0
  /\ calls' > 0 => kids' # Groups
  /\ calls' > 0 /\ ptyFaults' > 0 => written' = 0 /\ "own" \notin kids'

MCNext ==
  /\ UNCHANGED part
  /\ IF part = "terminal" THEN TerminalNext /\ Calm ELSE UNCHANGED terminalVars
  /\ IF part = "markers" THEN MarkersNext ELSE UNCHANGED markersVars
  /\ IF part = "groupkill" THEN GroupKillNext ELSE UNCHANGED killVars
  /\ IF part = "preview" THEN PreviewNext ELSE UNCHANGED previewVars
  /\ IF part = "desktop" THEN DesktopNext ELSE UNCHANGED desktopVars
  /\ IF part = "settings" THEN SettingsNext ELSE UNCHANGED settingsVars

\* The fairness of TerminalSpec, for the part that runs.
MCSpec ==
  MCInit /\ [][MCNext]_<<part, terminalVars, markersVars, killVars, previewVars, desktopVars, settingsVars>>
         /\ \A t \in Threads : WF_terminalVars(part = "terminal" /\ (ThreadStep(t) \/ WorkerStep(t)))
         /\ WF_terminalVars(part = "terminal" /\ TimePasses)
=============================================================================
