----------------------------- MODULE MCSidecar ------------------------------
(***************************************************************************)
(* The machinery around one sidecar process, one part per behaviour: the    *)
(* supervisor with its lifecycle, the handle of a session's writer, the     *)
(* handshake, the process tree, the secrets the sidecar is told of, and the *)
(* reads, searches, changes and Git reads of the workspace it works in.     *)
(* The parts share no state here; Bridge composes them at the level of      *)
(* their promises.                                                          *)
(***************************************************************************)
EXTENDS Supervisor, SessionHandle, Handshake, ProcessTree, Secrets, ChangeDetector,
        GitRead, WorkspaceRead, TextSearch

\* Settings for two profiles and two servers: with one revision or two, in any
\* combination of the two ways to refer to a credential, one of them switched off.
Server(rev, explicit, ref, on) ==
  [rev |-> rev, explicit |-> explicit, auth |-> IF explicit THEN ref ELSE NoRef,
   alias |-> IF explicit THEN NoRef ELSE ref, enabled |-> on]
MCDocuments ==
  {[active |-> p, model |-> [p1 |-> "r1", p2 |-> "r2"], mcp |-> <<Server("s", TRUE, "r1", TRUE), second>>,
    all |-> c = {}, chosen |-> c] :
     p \in {"p1", "p2"}, c \in {{}, {"s"}},
     second \in {Server("s", FALSE, "r2", TRUE), Server("t", FALSE, "r2", TRUE),
                Server("t", TRUE, "r2", FALSE)}}

VARIABLE part

allVars == <<part, vars, handleVars, hsVars, treeVars, secretsVars, detectorVars, gitVars,
             workspaceReadVars, searchVars>>

\* A part that does not run stands in one of its initial states.
MCInit ==
  /\ part \in {"supervisor", "handle", "handshake", "tree", "secrets", "changes", "git",
              "reader", "search"}
  /\ Init /\ HandleInit /\ HandshakeInit /\ DetectorInit
  /\ TreeInit /\ (part # "tree" => treeGuard.host = CHOOSE h \in TreePlatforms : TRUE)
  /\ SecretsInit /\ (part # "secrets" => draft = CHOOSE d \in Documents : Validates(d))
  /\ GitInit
  /\ part # "git" => repo = PlainRepo /\ call.host = CHOOSE h \in GitPlatforms : TRUE
  /\ WorkspaceReadInit /\ (part # "reader" => \A n \in EntryNames : entries[n] = NoEntry)
  /\ SearchInit
  /\ part # "search" => /\ tree.top = <<"d">> /\ tree.d = <<>> /\ kindOf["f"] = kindOf["g"]
                        /\ kindOf["f"] = CHOOSE k \in FileKinds : TRUE

\* Bounds: a repository that changes is, before or after, the plain one or the one of an
\* enclosing directory, and the call writes at most one unit; the output of calls on the
\* plain one runs into its limit.
Enclosed == [PlainRepo EXCEPT !.dotGit = "absent", !.around = TRUE]
Terse ==
  /\ repo' # repo => {repo, repo'} \cap {PlainRepo, Enclosed} # {}
  /\ repo' # PlainRepo \/ swaps' > 0 => wrote'["stdout"] <= 1 /\ wrote'["stderr"] = 0

MCNext ==
  /\ UNCHANGED part
  /\ IF part = "supervisor" THEN Next ELSE UNCHANGED vars
  /\ IF part = "handle" THEN HandleNext ELSE UNCHANGED handleVars
  /\ IF part = "handshake" THEN HandshakeNext ELSE UNCHANGED hsVars
  /\ IF part = "tree" THEN TreeNext ELSE UNCHANGED treeVars
  /\ IF part = "secrets" THEN SecretsNext ELSE UNCHANGED secretsVars
  /\ IF part = "changes" THEN DetectorNext ELSE UNCHANGED detectorVars
  /\ IF part = "git" THEN GitNext /\ Terse ELSE UNCHANGED gitVars
  /\ IF part = "reader" THEN WorkspaceReadNext ELSE UNCHANGED workspaceReadVars
  /\ IF part = "search" THEN SearchNext ELSE UNCHANGED searchVars

\* The fairness of HandleFairSpec, HandshakeSpec and DetectorSpec, for the part that runs.
MCSpec ==
  /\ MCInit /\ [][MCNext]_allVars
  /\ \A h \in Holders : WF_handleVars(part = "handle" /\ HolderRuns(h))
  /\ WF_hsVars(part = "handshake" /\ StarterNext) /\ WF_hsVars(part = "handshake" /\ PenNext)
  /\ WF_hsVars(part = "handshake" /\ DogNext) /\ WF_hsVars(part = "handshake" /\ EarsNext)
  /\ WF_hsVars(part = "handshake" /\ MonitorCloses)
  /\ WF_detectorVars(part = "changes" /\ DetectorStep)
=============================================================================
