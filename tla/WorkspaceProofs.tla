---------------------------- MODULE WorkspaceProofs ----------------------------
(***************************************************************************)
(* Proofs about the readers of a workspace that somebody changes meanwhile: *)
(* the Git adapter's answers are whole and come from an admitted            *)
(* repository, a file or a listing that is handed out is one state of the   *)
(* workspace, and a search that calls itself complete has every match.      *)
(***************************************************************************)
EXTENDS GitRead, WorkspaceRead, TextSearch, FiniteSetTheorems, SequenceTheorems, TLAPS

(***************************************************************************)
(* The Git adapter.                                                        *)
(***************************************************************************)
PumpStates == {"none", "reading", "limited", "ended"}

CallPlaces == {"idle", "spawn", "watch", "kill", "collect", "tidy", "join", "check", "parse", "returned"}
CallWords == {"none", "workspace", "path", "object", "policy", "program", "external", "spawn", "cleanup",
              "cancelled", "timed_out", "limit", "failed", "malformed", "ok"}
Calls == [at : CallPlaces, error : CallWords, answer : CallWords, host : {"unix", "windows"}]

\* How far a call has come, and the forms of the rest.
GitTypes ==
  /\ call \in Calls
  /\ call.answer # "none" => call.at = "returned"
  /\ call.at \in {"kill", "collect"} => call.error \in {"cancelled", "timed_out", "limit"}
  /\ gitPump \in [Pipes -> PumpStates]
  /\ got \in [Pipes -> Nat] /\ wrote \in [Pipes -> Nat] /\ swaps \in Nat

\* A reader that has ended has read everything, for nobody holds its pipe.
PumpsAccount ==
  /\ \A p \in Pipes : gitPump[p] = "ended" => ~PipeHolders /\ got[p] = wrote[p]
  /\ call.at \in {"idle", "spawn"} => leader = "none" /\ helper = "none" /\ \A p \in Pipes : gitPump[p] = "none"
  /\ call.at \in {"collect", "tidy", "join", "check", "parse"} => leader = "reaped"
  /\ call.at \in {"check", "parse"} => \A p \in Pipes : gitPump[p] = "ended"

\* What Git may have read for an answer: a repository that was admitted, and one it found.
Answerable(r) == Admissible(r) /\ Discovers(r) # "none"

\* With one change at most Git has seen an admitted repository or the present one.
SightIsRecent ==
  /\ call.at \notin {"idle", "returned"} /\ swaps = 0 => Admissible(repo)
  /\ call.at \notin {"idle", "spawn", "returned"} /\ swaps <= 1 => saw = repo \/ Admissible(saw)
  /\ call.at = "parse" /\ swaps <= 1 => Answerable(saw)

\* What a call that has answered leaves behind.
AnswerStands ==
  /\ call.answer = "ok" => (\A p \in Pipes : gitPump[p] = "ended") /\ (swaps <= 1 => Answerable(saw))
  /\ call.answer \in {"cancelled", "timed_out", "limit"} =>
       leader \in {"none", "reaped"} /\ \A p \in Pipes : gitPump[p] # "reading"

GitInv == GitTypes /\ PumpsAccount /\ SightIsRecent /\ AnswerStands

\* A step of the repository's editor or of Git's own look at it.
LEMMA SightStep ==
  ASSUME GitInv, LeaderLooks \/ \E r \in Repos : Swap(r)
  PROVE  GitInv'
<1>1. UNCHANGED <<leader, helper, wrote, got, gitPump, call>> /\ swaps' \in Nat
  BY DEF GitInv, GitTypes, LeaderLooks, Swap, ProcessesKeep
<1>2. GitTypes' /\ PumpsAccount'
  BY <1>1 DEF GitInv, GitTypes, PumpsAccount, PipeHolders
<1>3. SightIsRecent' /\ AnswerStands'
  <2>1. CASE LeaderLooks
    <3>1. leader = "running" /\ saw' = repo /\ UNCHANGED <<repo, swaps>>
      BY <2>1 DEF LeaderLooks
    <3>2. call.at # "parse" /\ ~(\A p \in Pipes : gitPump[p] = "ended")
      BY <3>1 DEF GitInv, PumpsAccount, PipeHolders, Pipes
    <3> QED BY <1>1, <3>1, <3>2 DEF GitInv, SightIsRecent, AnswerStands
  <2>2. CASE \E r \in Repos : Swap(r)
    <3>1. /\ swaps' = swaps + 1 /\ saw' = saw /\ swaps \in Nat
          /\ call.at \notin {"idle", "returned"} /\ call.answer = "none"
      BY <2>2 DEF GitInv, GitTypes, Swap
    <3>2. swaps' # 0 /\ (swaps' <= 1 => swaps = 0)
      BY <3>1
    <3> QED BY <1>1, <3>1, <3>2 DEF GitInv, SightIsRecent, AnswerStands
  <2> QED BY <2>1, <2>2
<1> QED BY <1>2, <1>3 DEF GitInv

\* A step of the call that touches no process.
LEMMA CallStep ==
  ASSUME GitInv, ProcessesKeep, TreeKeeps, call' \in Calls,
         call'.at \in {"spawn", "kill", "check", "parse", "returned"},
         call'.answer # "none" => call'.at = "returned",
         call.at # "returned",
         call'.at = "spawn" => call.at = "idle" /\ Admissible(repo),
         call'.at # "spawn" /\ call'.at # "returned" => call.at \notin {"idle", "spawn"},
         call'.at = "kill" => call'.error \in {"cancelled", "timed_out", "limit"},
         call'.at = "check" => call.at = "join" /\ \A p \in Pipes : gitPump[p] = "ended",
         call'.at = "parse" => call.at = "check" /\ (swaps <= 1 => Answerable(saw)),
         call'.answer = "ok" => call.at = "parse",
         call'.answer \in {"cancelled", "timed_out", "limit"} =>
           leader \in {"none", "reaped"} /\ \A p \in Pipes : gitPump[p] # "reading"
  PROVE  GitInv'
<1>1. GitTypes' /\ PumpsAccount'
  BY DEF GitInv, GitTypes, PumpsAccount, ProcessesKeep, TreeKeeps, PipeHolders
<1>2. SightIsRecent' /\ AnswerStands'
  BY DEF GitInv, SightIsRecent, AnswerStands, PumpsAccount, ProcessesKeep, TreeKeeps
<1> QED BY <1>1, <1>2 DEF GitInv

\* Where a call goes and what it answers, as records.
LEMMA CallMoves ==
  ASSUME call \in Calls, NEW at \in CallPlaces, NEW x \in CallWords
  PROVE  /\ Goes(at) => call' \in Calls /\ call'.at = at /\ call'.error = call.error /\ call'.answer = call.answer
         /\ Answers(x) => call' \in Calls /\ call'.at = "returned" /\ call'.error = call.error /\ call'.answer = x
         /\ call' = [call EXCEPT !.at = at, !.error = x] =>
              call' \in Calls /\ call'.at = at /\ call'.error = x /\ call'.answer = call.answer
BY DEF Calls, CallPlaces, Goes, Answers

\* A call refuses, admits, gives up, ends or answers.
LEMMA CallerStep ==
  ASSUME GitInv,
         \/ \E reason \in {"workspace", "path", "object", "policy", "program"} : GitRefuses(reason)
         \/ GitAdmits \/ GitCollects \/ GitJoins \/ GitChecks \/ GitParses
         \/ \E e \in {"cancelled", "timed_out", "limit"} : WatchFails(e)
  PROVE  GitInv'
<1>0. call \in Calls
  BY DEF GitInv, GitTypes
<1>1. ASSUME NEW reason \in {"workspace", "path", "object", "policy", "program"}, GitRefuses(reason)
      PROVE  GitInv'
  BY <1>0, <1>1, CallMoves, CallStep DEF CallPlaces, CallWords, GitRefuses
<1>2. CASE GitAdmits
  BY <1>0, <1>2, CallMoves, CallStep DEF CallPlaces, CallWords, GitAdmits, GitInv, GitTypes
<1>4. CASE GitCollects
  BY <1>0, <1>4, CallMoves, CallStep DEF CallPlaces, CallWords, GitCollects, GitInv, GitTypes,
     PumpsAccount, PumpsJoined
<1>5. CASE GitJoins
  <2>1. leader = "reaped" /\ PumpsJoined /\ call.answer = "none" /\ call.at = "join"
    BY <1>5 DEF GitJoins, GitInv, GitTypes, PumpsAccount
  <2>2. /\ ~Limited => \A p \in Pipes : gitPump[p] = "ended"
        /\ \A p \in Pipes : gitPump[p] # "reading"
    BY <2>1 DEF PumpsJoined, Limited
  <2> QED BY <1>0, <1>5, <2>1, <2>2, CallMoves, CallStep DEF CallPlaces, CallWords, GitJoins
<1>6. CASE GitChecks
  <2>1. call.answer = "none" /\ call.at = "check"
    BY <1>6 DEF GitChecks, GitInv, GitTypes
  <2>2. Admissible(repo) /\ Discovers(saw) # "none" /\ swaps <= 1 => Answerable(saw)
    BY <2>1 DEF GitInv, SightIsRecent, Answerable
  <2> QED BY <1>0, <1>6, <2>1, <2>2, CallMoves, CallStep DEF CallPlaces, CallWords, GitChecks
<1>7. CASE GitParses
  BY <1>0, <1>7, CallMoves, CallStep DEF CallPlaces, CallWords, GitParses
<1>8. ASSUME NEW e \in {"cancelled", "timed_out", "limit"}, WatchFails(e)
      PROVE  GitInv'
  <2>1. call.at = "watch" /\ call.answer = "none" /\ ProcessesKeep /\ TreeKeeps
    BY <1>8 DEF WatchFails, GitInv, GitTypes
  <2>2. call'.at = "kill" /\ call'.error = e /\ call'.answer = "none" /\ call' \in Calls
    BY <1>0, <1>8, <2>1, CallMoves DEF CallPlaces, CallWords, WatchFails
  <2> QED BY <2>1, <2>2, CallStep
<1> QED BY <1>1, <1>2, <1>4, <1>5, <1>6, <1>7, <1>8

\* A process writes, forks or ends while the call watches.
LEMMA ChildStep ==
  ASSUME GitInv,
         HelperForks \/ HelperLeaves \/ LeaderExits \/ \E p \in Pipes : LeaderWrites(p)
  PROVE  GitInv'
<1>1. UNCHANGED <<got, gitPump, call, repo, swaps, saw>> /\ (leader = "running" \/ helper = "running")
  BY DEF HelperForks, HelperLeaves, LeaderExits, LeaderWrites, TreeKeeps
<1>2. wrote' \in [Pipes -> Nat] /\ leader' \in {leader, "exited"} /\ (leader # leader' => leader = "running")
  BY DEF HelperForks, HelperLeaves, LeaderExits, LeaderWrites, GitInv, GitTypes
<1>3. call.at \notin {"idle", "spawn"} /\ \A p \in Pipes : gitPump[p] # "ended"
  BY <1>1 DEF GitInv, PumpsAccount, PipeHolders
<1>4. GitTypes' /\ PumpsAccount'
  BY <1>1, <1>2, <1>3 DEF GitInv, GitTypes, PumpsAccount
<1>5. SightIsRecent' /\ AnswerStands'
  BY <1>1, <1>2, <1>3 DEF GitInv, SightIsRecent, AnswerStands, PumpsJoined
<1> QED BY <1>4, <1>5 DEF GitInv

\* A reader takes what was written, stops at its limit or finds the end.
LEMMA PumpStep ==
  ASSUME GitInv, NEW p \in Pipes, PumpReads(p) \/ PumpEnds(p)
  PROVE  GitInv'
<1>1. UNCHANGED <<leader, helper, wrote, call, repo, swaps, saw>> /\ gitPump[p] = "reading"
  BY DEF PumpReads, PumpEnds, TreeKeeps
<1>2. /\ gitPump' \in [Pipes -> PumpStates] /\ got' \in [Pipes -> Nat]
      /\ gitPump'[p] = "ended" => ~PipeHolders /\ got'[p] = wrote[p]
      /\ \A q \in Pipes \ {p} : gitPump'[q] = gitPump[q] /\ got'[q] = got[q]
  BY DEF PumpReads, PumpEnds, PumpStates, GitInv, GitTypes
<1>3. /\ call.at \notin {"idle", "spawn", "check", "parse"} /\ ~PumpsJoined
      /\ ~(\A q \in Pipes : gitPump[q] = "ended")
  BY <1>1 DEF GitInv, PumpsAccount, PumpsJoined
<1>4. GitTypes' /\ PumpsAccount'
  BY <1>1, <1>2, <1>3 DEF GitInv, GitTypes, PumpsAccount, PipeHolders
<1>5. SightIsRecent' /\ AnswerStands'
  BY <1>1, <1>3 DEF GitInv, SightIsRecent, AnswerStands
<1> QED BY <1>4, <1>5 DEF GitInv

\* The call starts, reaps or kills the processes.
LEMMA ReaperStep ==
  ASSUME GitInv, GitSpawns \/ WatchSeesExit \/ TreeTidied \/ TreeKilled \/ GitCleanupLate
  PROVE  GitInv'
<1>0. call \in Calls /\ call.at # "returned" /\ call.answer = "none"
  BY DEF GitInv, GitTypes, GitSpawns, WatchSeesExit, TreeTidied, TreeKilled, GitCleanupLate
<1>1. CASE GitSpawns
  <2>1. ASSUME NEW reason \in {"spawn", "cancelled", "timed_out"}, Answers(reason), ProcessesKeep, TreeKeeps
        PROVE  GitInv'
    <3>1. leader = "none" /\ \A p \in Pipes : gitPump[p] = "none"
      BY <1>1 DEF GitSpawns, GitInv, PumpsAccount
    <3>2. reason \in CallWords /\ call'.at = "returned" /\ call'.answer = reason /\ call' \in Calls
      BY <1>0, <2>1, CallMoves DEF CallPlaces, CallWords
    <3> QED BY <1>0, <2>1, <3>1, <3>2, CallStep
  <2>2. CASE Goes("watch") /\ gitPump' = [p \in Pipes |-> "reading"] /\ saw' = repo
             /\ leader' = "running" /\ UNCHANGED <<repo, swaps, helper, wrote, got>>
    <3>1. call'.at = "watch" /\ call'.answer = "none" /\ call' \in Calls
      BY <1>0, <2>2, CallMoves DEF CallPlaces, CallWords
    <3>2. call.at = "spawn"
      BY <1>1 DEF GitSpawns
    <3> QED BY <2>2, <3>1, <3>2 DEF GitInv, GitTypes, PumpStates, PumpsAccount, SightIsRecent, AnswerStands
  <2> QED BY <1>1, <2>1, <2>2 DEF GitSpawns
<1>2. CASE WatchSeesExit \/ TreeKilled
  <2>1. /\ call'.at \in {"tidy", "join", "collect"} /\ call'.answer = "none" /\ call' \in Calls
        /\ call'.error = call.error /\ (call'.at = "collect" => call.at = "kill")
        /\ leader' = "reaped" /\ (helper' = "running" => helper = "running")
        /\ call.at \in {"watch", "kill"}
        /\ UNCHANGED <<gitPump, wrote, got, repo, swaps, saw>>
    BY <1>0, <1>2, CallMoves DEF CallPlaces, CallWords, WatchSeesExit, TreeKilled, TreeKeeps,
       HelperSignalled
  <2>2. GitTypes'
    BY <2>1 DEF GitInv, GitTypes
  <2>3. PumpsAccount'
    BY <2>1 DEF GitInv, PumpsAccount, PipeHolders
  <2>4. SightIsRecent'
    BY <2>1 DEF GitInv, SightIsRecent
  <2>5. AnswerStands'
    BY <2>1 DEF AnswerStands
  <2> QED BY <2>2, <2>3, <2>4, <2>5 DEF GitInv
<1>3. CASE TreeTidied
  <2>1. /\ call'.at \in {"join", "returned"} /\ call'.answer \in {"none", "cleanup"} /\ call' \in Calls
        /\ call'.answer # "none" => call'.at = "returned"
        /\ leader' = leader /\ leader = "reaped" /\ (helper' = "running" => helper = "running")
        /\ call.at = "tidy"
        /\ UNCHANGED <<gitPump, wrote, got, repo, swaps, saw>>
    BY <1>0, <1>3, CallMoves DEF CallPlaces, CallWords, TreeTidied, TreeKeeps, GitInv,
       PumpsAccount
  <2>2. GitTypes'
    BY <2>1 DEF GitInv, GitTypes
  <2>3. PumpsAccount'
    BY <2>1 DEF GitInv, PumpsAccount, PipeHolders
  <2>4. SightIsRecent'
    BY <2>1 DEF GitInv, SightIsRecent
  <2>5. AnswerStands'
    BY <2>1 DEF AnswerStands
  <2> QED BY <2>2, <2>3, <2>4, <2>5 DEF GitInv
<1>4. CASE GitCleanupLate
  <2>1. /\ call'.at = "returned" /\ call'.answer = "cleanup" /\ call' \in Calls
        /\ leader' = leader /\ (helper' = "running" => helper = "running")
        /\ UNCHANGED <<gitPump, wrote, got, repo, swaps, saw>>
    BY <1>0, <1>4, CallMoves DEF CallPlaces, CallWords, GitCleanupLate, TreeKeeps, HelperSignalled
  <2>2. GitTypes'
    BY <2>1 DEF GitInv, GitTypes
  <2>3. PumpsAccount'
    BY <2>1 DEF GitInv, PumpsAccount, PipeHolders
  <2>4. SightIsRecent'
    BY <2>1 DEF GitInv, SightIsRecent
  <2>5. AnswerStands'
    BY <2>1 DEF AnswerStands
  <2> QED BY <2>2, <2>3, <2>4, <2>5 DEF GitInv
<1> QED BY <1>1, <1>2, <1>3, <1>4

\* The invariant of the Git adapter.
LEMMA GitIsConsistent == GitSpec => []GitInv
<1>1. ASSUME GitInit
      PROVE  GitInv
  <2>1. PICK h \in GitPlatforms : call = [at |-> "idle", error |-> "none", answer |-> "none", host |-> h]
    BY <1>1 DEF GitInit
  <2>2. h \in {"unix", "windows"}
    BY GitAssumption
  <2>3. GitTypes
    BY <1>1, <2>1, <2>2 DEF GitInit, GitTypes, Calls, CallPlaces, CallWords, PumpStates
  <2>4. PumpsAccount /\ SightIsRecent /\ AnswerStands
    BY <1>1, <2>1 DEF GitInit, PumpsAccount, SightIsRecent, AnswerStands
  <2> QED BY <2>3, <2>4 DEF GitInv
<1>2. ASSUME GitInv, [GitNext]_gitVars
      PROVE  GitInv'
  <2>1. CASE GitNext
    BY <1>2, <2>1, SightStep, CallerStep, ChildStep, PumpStep, ReaperStep DEF GitNext
  <2>2. CASE UNCHANGED gitVars
    BY <1>2, <2>2 DEF gitVars, GitInv, GitTypes, PumpsAccount, PipeHolders, SightIsRecent,
       AnswerStands
  <2> QED BY <1>2, <2>1, <2>2
<1> QED BY <1>1, <1>2, PTL DEF GitSpec

\* Git's output is handed on only whole, with no process left that could add to it, and,
\* if the workspace changed once at most, from the workspace's own repository as it was
\* validated, or else from one that encloses a workspace without a repository of its own
\* (process.rs, run_git; command.rs, run_os).
THEOREM GitAnswersAreSound == GitSpec => []GitAnswerIsSound
<1>1. ASSUME GitInv
      PROVE  GitAnswerIsSound
  <2>1. call.answer = "ok" => ~PipeHolders /\ ~Limited /\ got = wrote
    BY <1>1 DEF GitInv, GitTypes, PumpsAccount, AnswerStands, Limited, Pipes
  <2>2. OwnRepositoryIsValidated
    BY <1>1 DEF GitInv, AnswerStands, Answerable, Admissible, Discovers, OwnRepositoryIsValidated
  <2> QED BY <1>1, <2>1, <2>2 DEF GitInv, AnswerStands, GitAnswerIsSound, GitAnswerIsWhole
<1> QED BY <1>1, GitIsConsistent, PTL

(***************************************************************************)
(* The file reader.                                                        *)
(***************************************************************************)
EntryKinds == {"none", "file", "link", "hard"}
EntryBodies == Bodies \cup {"none"}
EntryRecords == [kind : EntryKinds, id : Nat, body : EntryBodies, mtime : Nat]
Revisions == [kind : EntryKinds, huge : BOOLEAN, mtime : Nat, sha : EntryBodies]
ReadPlaces == {"idle", "verified", "open", "large", "stat again", "compare", "error", "too large", "text", "binary"}
Reads == [pc : ReadPlaces, chain : [dir : Nat, id : Nat], before : Revisions, after : Revisions,
          bytes : EntryBodies \cup {"outside"}, since : Nat]

TheEntry == entries[TheFile]

ReadTypes ==
  /\ dirId \in [id : Nat, link : BOOLEAN] /\ admitted \in [in : BOOLEAN, root : Nat]
  /\ entries \in [EntryNames -> EntryRecords]
  /\ fileEdits \in Nat /\ fileRead \in Reads /\ fileRead.since <= fileEdits

\* What a read knows of the entry, if nothing or one thing was edited since it began:
\* the edit fell before the first revision, or the first revision is the old file's.
ReadKnows ==
  /\ fileRead.pc \in {"open", "stat again", "compare"} => ~fileRead.before.huge
  /\ fileRead.pc = "verified" /\ fileEdits = fileRead.since => TheEntry.kind = "file"
  /\ fileRead.pc \in {"open", "stat again", "compare"} /\ fileEdits = fileRead.since =>
       /\ TheEntry.kind = "file" /\ fileRead.before = Revision(TheEntry)
       /\ fileRead.pc # "open" => fileRead.bytes = TheEntry.body
       /\ fileRead.pc = "compare" => fileRead.after = Revision(TheEntry)
  /\ fileRead.pc \in {"open", "stat again", "compare"} /\ fileEdits = fileRead.since + 1 =>
       \/ /\ fileRead.before = Revision(TheEntry)
          /\ fileRead.pc # "open" => fileRead.bytes = BytesOf(TheEntry)
          /\ fileRead.pc = "compare" => fileRead.after = Revision(TheEntry)
       \/ /\ fileRead.before.kind = "file"
          /\ fileRead.pc # "open" => \/ fileRead.bytes = fileRead.before.sha
                                     \/ /\ fileRead.bytes = BytesOf(TheEntry)
                                        /\ fileRead.pc = "compare" => fileRead.after = Revision(TheEntry)

ReadInv == ReadTypes /\ ReadKnows /\ ReadIsConsistent

(***************************************************************************)
(* The paged listing.                                                      *)
(***************************************************************************)
\* The numbers of a finite set in their order, as Listing computes it.
Rank(S, n) == Cardinality({m \in S : m < n})
Sorted(S) == [i \in 1..Cardinality(S) |-> CHOOSE n \in S : Rank(S, n) = i - 1]

NamesIn(s) == {s[i] : i \in 1..Len(s)}
NamesOf(token) == {t[1] : t \in token}

\* s is the beginning of the listing of S.
Begins(s, S) ==
  /\ S \subseteq EntryNames /\ s \in Seq(EntryNames) /\ Len(s) <= Len(Sorted(S))
  /\ \A i \in 1..Len(s) : s[i] = Sorted(S)[i]

\* A page under way holds a whole listing, its token names that listing, and it goes on
\* where the browser is; what the browser has is the beginning of its token's listing.
PageInv ==
  /\ page = [pc |-> page.pc, dir |-> page.dir, names |-> page.names, stats |-> page.stats,
             token |-> page.token, start |-> page.start, out |-> page.out]
  /\ page.pc \in {"idle", "hash", "check", "take", "error"}
  /\ page.pc \in {"hash", "check", "take"} =>
       /\ NamesIn(page.names) \subseteq EntryNames /\ page.names = Sorted(NamesIn(page.names))
       /\ page.start = Len(browser.got)
  /\ page.pc \in {"check", "take"} => NamesOf(page.token) = NamesIn(page.names)
  /\ page.pc = "take" =>
       /\ TokenAgrees
       /\ page.out = SubSeq(page.names, page.start + 1,
                            IF page.start + PageSize < Len(page.names)
                            THEN page.start + PageSize ELSE Len(page.names))
  /\ Begins(browser.got, NamesOf(browser.token))
  /\ browser.whole => Len(browser.got) = Len(Sorted(NamesOf(browser.token)))

-----------------------------------------------------------------------------
\* Records of entries and of revisions.
LEMMA EntryForms ==
  ASSUME NEW e \in EntryRecords
  PROVE  /\ Revision(e) \in Revisions /\ BytesOf(e) \in EntryBodies \cup {"outside"}
         /\ Revision(e).kind = e.kind /\ (Revision(e).huge <=> e.body = "huge")
         /\ e.kind = "file" /\ e.body # "huge" => Revision(e).sha = e.body
         /\ e.kind = "file" => BytesOf(e) = e.body
BY DEF EntryRecords, Revisions, Revision, BytesOf, EntryBodies, Bodies

\* An edit leaves an entry of one of the forms an entry has.
LEMMA EditedForms ==
  ASSUME NEW e \in EntryRecords, fileEdits \in Nat, NEW f \in Edited(e)
  PROVE  f \in EntryRecords
<1>1. CASE f = NoEntry
  BY <1>1 DEF NoEntry, EntryRecords, EntryKinds, EntryBodies
<1>2. CASE f \in [kind : {"file", "link", "hard"}, id : {fileEdits + 2}, body : {"b"}, mtime : {fileEdits + 1}]
  BY <1>2 DEF EntryRecords, EntryKinds, EntryBodies, Bodies
<1>3. CASE f \in [kind : {"file"} \cap {e.kind}, id : {e.id}, body : Bodies, mtime : {e.mtime, fileEdits + 1}]
  BY <1>3 DEF EntryRecords, EntryKinds, EntryBodies
<1> QED BY <1>1, <1>2, <1>3 DEF Edited

\* Somebody edits: a read that was not disturbed yet has the old file's revision.
LEMMA EditStep ==
  ASSUME ReadInv, ReplaceDirectory \/ \E n \in EntryNames : EditEntry(n)
  PROVE  ReadInv'
<1>1. fileEdits' = fileEdits + 1 /\ fileRead' = fileRead /\ admitted' = admitted /\ fileEdits \in Nat
  BY DEF ReplaceDirectory, EditEntry, ReadInv, ReadTypes
<1>2. dirId' \in [id : Nat, link : BOOLEAN]
  BY DEF ReplaceDirectory, EditEntry, ReadInv, ReadTypes
<1>3. entries' \in [EntryNames -> EntryRecords]
  <2>1. CASE ReplaceDirectory
    BY <2>1 DEF ReplaceDirectory, ReadInv, ReadTypes
  <2>2. ASSUME NEW n \in EntryNames, EditEntry(n)
        PROVE  entries' \in [EntryNames -> EntryRecords]
    <3>1. PICK f \in Edited(entries[n]) : entries' = [entries EXCEPT ![n] = f]
      BY <2>2 DEF EditEntry
    <3>2. f \in EntryRecords
      BY <1>1, EditedForms DEF ReadInv, ReadTypes
    <3> QED BY <3>1, <3>2 DEF ReadInv, ReadTypes
  <2> QED BY <2>1, <2>2
<1>4. ReadTypes'
  BY <1>1, <1>2, <1>3 DEF ReadInv, ReadTypes, Reads
<1> DEFINE since == fileRead.since
<1>5. since \in Nat /\ since <= fileEdits
  BY DEF ReadInv, ReadTypes, Reads
<1>6. (fileEdits' = since + 1 <=> fileEdits = since) /\ fileEdits' # since /\ (fileEdits' <= since + 1 => fileEdits <= since + 1)
  BY <1>1, <1>5
<1> HIDE DEF since
<1>7. ReadIsConsistent'
  BY <1>1, <1>6 DEF ReadInv, ReadIsConsistent, since
<1>8. ReadKnows'
  <2>1. TheEntry \in EntryRecords
    BY WorkspaceReadAssumption DEF ReadInv, ReadTypes, TheEntry
  <2>2. /\ Revision(TheEntry).kind = TheEntry.kind /\ (Revision(TheEntry).huge <=> TheEntry.body = "huge")
        /\ TheEntry.kind = "file" /\ TheEntry.body # "huge" => Revision(TheEntry).sha = TheEntry.body
    BY <2>1, EntryForms
  <2> QED BY <1>1, <1>6, <2>2 DEF ReadInv, ReadKnows, since
<1> QED BY <1>4, <1>7, <1>8 DEF ReadInv

\* A read resolves its file, or starts over.
LEMMA ResolveStep ==
  ASSUME ReadInv, ReadAgain \/ \E shape \in PathShapes : ReadResolves(shape)
  PROVE  ReadInv'
<1>1. UNCHANGED <<dirId, admitted, entries, fileEdits>>
  BY DEF ReadAgain, ReadResolves, KeepOthers
<1>2. Idle \in Reads /\ fileEdits \in Nat /\ admitted.root \in Nat /\ TheEntry \in EntryRecords
  BY WorkspaceReadAssumption
  DEF Idle, Reads, ReadPlaces, Revisions, Revision, NoEntry, EntryKinds, EntryBodies, Bodies,
  ReadInv, ReadTypes, TheEntry
<1>3. CASE ReadAgain
  <2>1. fileRead' = Idle /\ Idle.pc = "idle" /\ Idle.since = 0
    BY <1>3 DEF ReadAgain, Idle
  <2>2. ReadTypes'
    BY <1>1, <1>2, <2>1 DEF ReadInv, ReadTypes
  <2>3. ReadKnows' /\ ReadIsConsistent'
    BY <2>1 DEF ReadKnows, ReadIsConsistent
  <2> QED BY <2>2, <2>3 DEF ReadInv
<1>4. ASSUME NEW shape \in PathShapes, ReadResolves(shape)
      PROVE  ReadInv'
  <2>1. PICK place \in {"verified", "error"} :
          /\ fileRead' = [Idle EXCEPT !.pc = place,
                                      !.chain = [dir |-> admitted.root,
                                      id |-> PhysicalIdentity(entries[TheFile])],
                                      !.since = fileEdits]
          /\ place = "verified" => TheEntry.kind = "file"
    BY <1>4 DEF ReadResolves, TheEntry
  <2>2. PhysicalIdentity(entries[TheFile]) \in Nat
    BY <1>2 DEF PhysicalIdentity, TheEntry, EntryRecords
  <2>3. fileRead' \in Reads /\ fileRead'.pc = place /\ fileRead'.since = fileEdits
    BY <1>2, <2>1, <2>2 DEF Reads, ReadPlaces, Idle
  <2>4. ReadTypes'
    BY <1>1, <1>2, <2>3 DEF ReadInv, ReadTypes
  <2>5. ReadKnows' /\ ReadIsConsistent'
    BY <1>1, <1>2, <2>1, <2>3 DEF ReadKnows, ReadIsConsistent, TheEntry
  <2> QED BY <2>4, <2>5 DEF ReadInv
<1> QED BY <1>3, <1>4

\* A read takes a revision, the bytes or the second revision.
LEMMA ReadStep ==
  ASSUME ReadInv, ReadStats \/ ReadBytes \/ ReadStatsAgain
  PROVE  ReadInv'
<1>1. UNCHANGED <<dirId, admitted, entries, fileEdits>>
  BY DEF ReadStats, ReadBytes, ReadStatsAgain, KeepOthers
<1>2. TheEntry \in EntryRecords /\ fileRead \in Reads
  BY WorkspaceReadAssumption DEF ReadInv, ReadTypes, TheEntry
<1> DEFINE rev == Revision(TheEntry)
           bytes == BytesOf(TheEntry)
<1>3. /\ rev \in Revisions /\ bytes \in EntryBodies \cup {"outside"}
      /\ rev.kind = TheEntry.kind /\ (TheEntry.kind = "file" => bytes = TheEntry.body)
      /\ TheEntry.kind = "file" /\ ~rev.huge => rev.sha = TheEntry.body
  BY <1>2, EntryForms
<1>4. CASE ReadTo("error")
  <2>1. fileRead' \in Reads /\ fileRead'.pc = "error" /\ fileRead'.since = fileRead.since
    BY <1>2, <1>4 DEF ReadTo, Reads, ReadPlaces
  <2> QED BY <1>1, <2>1 DEF ReadInv, ReadTypes, ReadKnows, ReadIsConsistent
<1>5. CASE ReadStats /\ ~ReadTo("error")
  <2>1. fileRead.pc = "verified" /\ fileRead' = [fileRead EXCEPT !.before = rev, !.pc = IF rev.huge THEN "large" ELSE "open"]
    BY <1>5 DEF ReadStats, TheEntry
  <2> HIDE DEF rev, bytes
  <2>2. /\ fileRead' \in Reads /\ fileRead'.pc \in {"large", "open"} /\ fileRead'.since = fileRead.since
        /\ fileRead'.before = rev /\ (fileRead'.pc = "open" => ~rev.huge)
    BY <1>2, <1>3, <2>1 DEF Reads, ReadPlaces
  <2> QED BY <1>1, <2>1, <2>2 DEF ReadInv, ReadTypes, ReadKnows, ReadIsConsistent, TheEntry, rev
<1>6. CASE ReadBytes /\ ~ReadTo("error")
  <2>1. fileRead.pc = "open" /\ fileRead' = [fileRead EXCEPT !.bytes = bytes, !.pc = "stat again"]
    BY <1>6 DEF ReadBytes, TheEntry
  <2> HIDE DEF rev, bytes
  <2>2. /\ fileRead' \in Reads /\ fileRead'.pc = "stat again" /\ fileRead'.since = fileRead.since
        /\ fileRead'.before = fileRead.before /\ fileRead'.bytes = bytes
    BY <1>2, <1>3, <2>1 DEF Reads, ReadPlaces
  <2> QED BY <1>1, <1>3, <2>1, <2>2 DEF ReadInv, ReadTypes, ReadKnows, ReadIsConsistent, TheEntry, bytes
<1>7. CASE ReadStatsAgain /\ ~ReadTo("error")
  <2>1. fileRead.pc = "stat again" /\ fileRead' = [fileRead EXCEPT !.after = rev, !.pc = "compare"]
    BY <1>7 DEF ReadStatsAgain, TheEntry
  <2> HIDE DEF rev, bytes
  <2>2. /\ fileRead' \in Reads /\ fileRead'.pc = "compare" /\ fileRead'.since = fileRead.since
        /\ fileRead'.before = fileRead.before /\ fileRead'.bytes = fileRead.bytes /\ fileRead'.after = rev
    BY <1>2, <1>3, <2>1 DEF Reads, ReadPlaces
  <2> QED BY <1>1, <2>1, <2>2 DEF ReadInv, ReadTypes, ReadKnows, ReadIsConsistent, TheEntry, rev
<1> QED BY <1>4, <1>5, <1>6, <1>7

\* A read ends: it hands out text only if both revisions agree.
LEMMA EndStep ==
  ASSUME ReadInv, ReadLarge \/ ReadEnds
  PROVE  ReadInv'
<1>1. UNCHANGED <<dirId, admitted, entries, fileEdits>>
  BY DEF ReadLarge, ReadEnds, KeepOthers
<1>2. TheEntry \in EntryRecords /\ fileRead \in Reads
  BY WorkspaceReadAssumption DEF ReadInv, ReadTypes, TheEntry
<1>3. PICK place \in {"error", "too large", "text", "binary"} :
        /\ ReadTo(place)
        /\ place = "text" => /\ fileRead.pc = "compare" /\ fileRead.before = fileRead.after
                             /\ TheEntry.kind = "file" /\ fileRead.bytes # "huge"
  BY DEF ReadLarge, ReadEnds, SameRevision, StillThere, TextDecoded, TheEntry
<1>4. /\ fileRead' \in Reads /\ fileRead'.pc = place /\ fileRead'.since = fileRead.since
      /\ fileRead'.bytes = fileRead.bytes /\ fileRead'.after = fileRead.after
  BY <1>2, <1>3 DEF ReadTo, Reads, ReadPlaces
<1>5. ReadTypes' /\ ReadKnows'
  BY <1>1, <1>4 DEF ReadInv, ReadTypes, ReadKnows
<1>6. place = "text" /\ fileEdits <= fileRead.since + 1 => fileRead.bytes = fileRead.after.sha
  <2> SUFFICES ASSUME place = "text", fileEdits <= fileRead.since + 1
               PROVE  fileRead.bytes = fileRead.after.sha
    OBVIOUS
  <2>1. fileEdits = fileRead.since \/ fileEdits = fileRead.since + 1
    BY DEF ReadInv, ReadTypes, Reads
  <2>2. /\ Revision(TheEntry).kind = TheEntry.kind /\ (Revision(TheEntry).huge <=> TheEntry.body = "huge")
        /\ TheEntry.kind = "file" /\ TheEntry.body # "huge" => Revision(TheEntry).sha = TheEntry.body
        /\ TheEntry.kind = "file" => BytesOf(TheEntry) = TheEntry.body
    BY <1>2, EntryForms
  <2> QED BY <1>3, <2>1, <2>2 DEF ReadInv, ReadKnows
<1>7. ReadIsConsistent'
  BY <1>1, <1>4, <1>6 DEF ReadIsConsistent
<1> QED BY <1>5, <1>7 DEF ReadInv

\* The steps of the listing and of the registry are no business of a read.
LEMMA OtherStep ==
  ASSUME ReadInv,
         \/ Register \/ Unregister \/ PageRequested \/ PageHashed \/ PageChecked \/ PageTaken \/ BrowseAgain
         \/ UNCHANGED workspaceReadVars
  PROVE  ReadInv'
<1>1. UNCHANGED <<dirId, entries, fileEdits, fileRead>>
  BY DEF Register, Unregister, PageRequested, PageHashed, PageChecked, PageTaken, BrowseAgain,
     KeepPageOthers,
         workspaceReadVars
<1>2. admitted' \in [in : BOOLEAN, root : Nat]
  <2>1. admitted \in [in : BOOLEAN, root : Nat] /\ dirId.id \in Nat
    BY DEF ReadInv, ReadTypes
  <2>2. CASE UNCHANGED admitted
    BY <2>1, <2>2
  <2>3. CASE Register
    BY <2>1, <2>3 DEF Register, PhysicalIdentity
  <2>4. CASE Unregister
    BY <2>1, <2>4 DEF Unregister
  <2> QED BY <2>2, <2>3, <2>4 DEF PageRequested, PageHashed, PageChecked, PageTaken, BrowseAgain, KeepPageOthers, workspaceReadVars
<1> QED BY <1>1, <1>2 DEF ReadInv, ReadTypes, ReadKnows, ReadIsConsistent, TheEntry

\* A read under way knows what the revision it holds says (read_file).
LEMMA ReadsAreConsistent == WorkspaceReadSpec => []ReadInv
<1>1. ASSUME WorkspaceReadInit
      PROVE  ReadInv
  <2>1. NoEntry \in EntryRecords /\ [kind |-> "file", id |-> 1, body |-> "a", mtime |-> 0] \in EntryRecords
    BY DEF NoEntry, EntryRecords, EntryKinds, EntryBodies, Bodies
  <2>2. Idle \in Reads /\ Idle.pc = "idle" /\ Idle.since = 0
    BY DEF Idle, Reads, ReadPlaces, Revisions, Revision, NoEntry, EntryKinds, EntryBodies, Bodies
  <2>3. /\ dirId \in [id : Nat, link : BOOLEAN] /\ admitted \in [in : BOOLEAN, root : Nat]
        /\ entries \in [EntryNames -> EntryRecords] /\ fileEdits = 0 /\ fileRead = Idle
    BY <1>1, <2>1 DEF WorkspaceReadInit
  <2>4. ReadTypes
    BY <2>2, <2>3 DEF ReadTypes
  <2>5. ReadKnows /\ ReadIsConsistent
    BY <2>2, <2>3 DEF ReadKnows, ReadIsConsistent
  <2> QED BY <2>4, <2>5 DEF ReadInv
<1>2. ASSUME ReadInv, [WorkspaceReadNext]_workspaceReadVars
      PROVE  ReadInv'
  BY <1>2, EditStep, ResolveStep, ReadStep, EndStep, OtherStep DEF WorkspaceReadNext
<1> QED BY <1>1, <1>2, PTL DEF WorkspaceReadSpec

-----------------------------------------------------------------------------
\* Listing puts the names of a finite set of numbers in their order: the rank of a
\* name is how many are before it, and the ranks are the numbers from 0 on.
LEMMA SortedIsListing ==
  ASSUME NEW S \in SUBSET Nat, IsFiniteSet(S)
  PROVE  /\ Cardinality(S) \in Nat /\ Sorted(S) \in Seq(S) /\ Len(Sorted(S)) = Cardinality(S)
         /\ \A i, j \in 1..Cardinality(S) : i < j => Sorted(S)[i] < Sorted(S)[j]
         /\ \A n \in S : \E i \in 1..Cardinality(S) : Sorted(S)[i] = n
<1> DEFINE C == Cardinality(S)
           below(n) == {m \in S : m < n}
           R == {Rank(S, n) : n \in S}
<1>1. C \in Nat /\ \A n \in S : IsFiniteSet(below(n)) /\ Cardinality(below(n)) \in Nat /\ Cardinality(below(n)) <= C
  BY FS_CardinalityType, FS_Subset
<1>2. \A n \in S : Rank(S, n) \in 0..(C - 1)
  <2> TAKE n \in S
  <2>1. below(n) # S /\ below(n) \in SUBSET S
    OBVIOUS
  <2>2. Cardinality(below(n)) # C
    BY <2>1, FS_Subset
  <2> QED BY <1>1, <2>2 DEF Rank
<1>3. \A m, n \in S : m < n => Rank(S, m) < Rank(S, n)
  <2> SUFFICES ASSUME NEW m \in S, NEW n \in S, m < n
               PROVE  Rank(S, m) < Rank(S, n)
    OBVIOUS
  <2>0. m \in Nat /\ n \in Nat /\ \A k \in S : k \in Nat /\ (k < m => k < n)
    OBVIOUS
  <2>a. below(m) \in SUBSET below(n)
    BY <2>0
  <2>b. m \in below(n)
    OBVIOUS
  <2>c. m \notin below(m)
    BY <2>0
  <2>1. below(m) # below(n)
    BY <2>b, <2>c
  <2>2. Cardinality(below(m)) <= Cardinality(below(n)) /\ Cardinality(below(m)) # Cardinality(below(n))
    BY <1>1, <2>a, <2>1, FS_Subset
  <2> QED BY <1>1, <2>2 DEF Rank
<1>4. Cardinality(R) = C /\ IsFiniteSet(R)
  <2> DEFINE f == [n \in S |-> Rank(S, n)]
  <2>1. \A m, n \in S : Rank(S, m) = Rank(S, n) => m = n
    <3>1. \A m, n \in S : m < n \/ n < m \/ m = n
      OBVIOUS
    <3>2. \A m, n \in S : Rank(S, m) = Rank(S, n) => ~(m < n) /\ ~(n < m)
      BY <1>2, <1>3
    <3> QED BY <3>1, <3>2
  <2>2. f \in Bijection(S, R)
    BY <2>1 DEF Bijection, Injection, Surjection, IsInjective
  <2>3. ExistsBijection(S, R)
    BY <2>2 DEF ExistsBijection
  <2> QED BY <2>3, FS_Bijection
<1>5. R = 0..(C - 1)
  <2>1. IsFiniteSet(0..(C - 1)) /\ Cardinality(0..(C - 1)) = C
    <3>1. 0 \in Int /\ C - 1 \in Int
      BY <1>1
    <3>2. IsFiniteSet(0..(C - 1)) /\ Cardinality(0..(C - 1)) = IF 0 > C - 1 THEN 0 ELSE (C - 1) - 0 + 1
      BY ONLY <3>1, FS_Interval
    <3> HIDE DEF C
    <3> QED BY <1>1, <3>2
  <2>2. R \in SUBSET (0..(C - 1))
    BY <1>2
  <2> QED BY <1>4, <2>1, <2>2, FS_Subset
<1>6. \A i \in 1..C : Sorted(S)[i] \in S /\ Rank(S, Sorted(S)[i]) = i - 1
  <2> TAKE i \in 1..C
  <2>1. i - 1 \in R
    <3>1. i - 1 \in 0..(C - 1)
      <4> HIDE DEF C
      <4> QED BY <1>1
    <3> QED BY <1>5, <3>1
  <2>2. \E n \in S : Rank(S, n) = i - 1
    BY <2>1
  <2>3. Sorted(S)[i] = CHOOSE n \in S : Rank(S, n) = i - 1
    BY DEF Sorted
  <2> QED BY <2>2, <2>3
<1>7. Sorted(S) \in Seq(S) /\ Len(Sorted(S)) = C
  BY <1>1, <1>6 DEF Sorted
<1>8. \A i, j \in 1..C : i < j => Sorted(S)[i] < Sorted(S)[j]
  <2> SUFFICES ASSUME NEW i \in 1..C, NEW j \in 1..C, i < j
               PROVE  Sorted(S)[i] < Sorted(S)[j]
    OBVIOUS
  <2> DEFINE m == Sorted(S)[i]
             n == Sorted(S)[j]
  <2>1. m \in S /\ n \in S /\ Rank(S, m) = i - 1 /\ Rank(S, n) = j - 1
    BY <1>6
  <2> HIDE DEF m, n
  <2>2. ~(n < m) /\ n # m
    <3>1. n < m => Rank(S, n) < Rank(S, m)
      BY <1>3, <2>1
    <3> QED BY <1>1, <2>1, <3>1
  <2>3. m \in Nat /\ n \in Nat
    BY <2>1
  <2>4. m < n
    BY <2>2, <2>3
  <2> QED BY <2>4 DEF m, n
<1>9. \A n \in S : \E i \in 1..C : Sorted(S)[i] = n
  <2> TAKE n \in S
  <2>1. Rank(S, n) + 1 \in 1..C /\ Rank(S, n) \in Nat
    BY <1>1, <1>2
  <2> DEFINE m == Sorted(S)[Rank(S, n) + 1]
  <2>2. m \in S /\ Rank(S, m) = Rank(S, n)
    BY <1>6, <2>1
  <2> HIDE DEF m
  <2>3. ~(m < n) /\ ~(n < m)
    BY <1>2, <1>3, <2>2
  <2>4. m = n
    BY <2>2, <2>3
  <2> QED BY <2>1, <2>4 DEF m
<1> QED BY <1>1, <1>7, <1>8, <1>9

\* Every set of names has a listing, and it is the listing of its own names.
LEMMA ListingOfNames ==
  ASSUME NEW S \in SUBSET EntryNames
  PROVE  /\ Cardinality(S) \in Nat /\ Sorted(S) \in Seq(S) /\ Len(Sorted(S)) = Cardinality(S)
         /\ Sorted(S) \in Seq(EntryNames)
         /\ \A i, j \in 1..Len(Sorted(S)) : i < j => Sorted(S)[i] < Sorted(S)[j]
         /\ NamesIn(Sorted(S)) = S
<1>1. S \in SUBSET Nat /\ IsFiniteSet(S)
  BY WorkspaceReadAssumption, FS_Subset
<1>2. /\ Cardinality(S) \in Nat /\ Sorted(S) \in Seq(S) /\ Len(Sorted(S)) = Cardinality(S)
      /\ \A i, j \in 1..Cardinality(S) : i < j => Sorted(S)[i] < Sorted(S)[j]
      /\ \A n \in S : \E i \in 1..Cardinality(S) : Sorted(S)[i] = n
  BY <1>1, SortedIsListing
<1>3. NamesIn(Sorted(S)) = S
  BY <1>2 DEF NamesIn
<1>4. Sorted(S) \in Seq(EntryNames)
  BY <1>2
<1> QED BY <1>2, <1>3, <1>4

\* A page fails.
LEMMA PageErrorStep ==
  ASSUME PageInv, PageTo("error"), UNCHANGED browser
  PROVE  PageInv'
<1>1. /\ page'.pc = "error"
      /\ page' = [pc |-> page'.pc, dir |-> page'.dir, names |-> page'.names, stats |-> page'.stats,
                  token |-> page'.token, start |-> page'.start, out |-> page'.out]
  BY DEF PageTo, PageInv
<1> QED BY <1>1 DEF PageInv

\* A page is asked for: the names that are there, in their order.
LEMMA PageRequestStep ==
  ASSUME PageInv, PageRequested
  PROVE  PageInv'
<1>1. CASE PageTo("error")
  BY <1>1, PageErrorStep DEF PageRequested
<1>2. CASE ~PageTo("error")
  <2> DEFINE there == {n \in EntryNames : entries[n].kind # "none"}
  <2>1. Listing = Sorted(there)
    BY DEF Listing, Sorted, Rank
  <2>2. there \in SUBSET EntryNames
    OBVIOUS
  <2> HIDE DEF there
  <2>3. NamesIn(Listing) = there
    BY <2>1, <2>2, ListingOfNames
  <2>4. /\ page'.pc = "hash" /\ page'.names = Listing /\ page'.start = Len(browser.got) /\ browser' = browser
        /\ page' = [pc |-> page'.pc, dir |-> page'.dir, names |-> page'.names, stats |-> page'.stats,
                    token |-> page'.token, start |-> page'.start, out |-> page'.out]
    BY <1>2 DEF PageRequested, NoPage
  <2> QED BY <2>1, <2>2, <2>3, <2>4 DEF PageInv
<1> QED BY <1>1, <1>2

\* The token names the listing it was computed from.
LEMMA PageHashStep ==
  ASSUME PageInv, PageHashed
  PROVE  PageInv'
<1>1. CASE PageTo("error")
  BY <1>1, PageErrorStep DEF PageHashed
<1>2. CASE ~PageTo("error")
  <2> DEFINE token == {<<n, Revision(entries[n])>> : n \in NamesIn(page.names)}
  <2>1. page.pc = "hash" /\ page' = [page EXCEPT !.pc = "check", !.token = token] /\ browser' = browser
    BY <1>2 DEF PageHashed, NamesIn
  <2>2. NamesOf(token) = NamesIn(page.names)
    <3>1. ASSUME NEW n \in NamesIn(page.names)
          PROVE  n \in NamesOf(token)
      <4>1. <<n, Revision(entries[n])>> \in token /\ <<n, Revision(entries[n])>>[1] = n
        BY <3>1
      <4> HIDE DEF token
      <4> QED BY <4>1 DEF NamesOf
    <3>2. ASSUME NEW n \in NamesOf(token)
          PROVE  n \in NamesIn(page.names)
      <4>1. PICK t \in token : n = t[1]
        BY <3>2 DEF NamesOf
      <4>2. PICK m \in NamesIn(page.names) : t = <<m, Revision(entries[m])>>
        BY <4>1
      <4> QED BY <4>1, <4>2
    <3> QED BY <3>1, <3>2
  <2> HIDE DEF token
  <2>3. /\ page'.pc = "check" /\ page'.token = token /\ page'.names = page.names /\ page'.start = page.start
        /\ page' = [pc |-> page'.pc, dir |-> page'.dir, names |-> page'.names, stats |-> page'.stats,
                    token |-> page'.token, start |-> page'.start, out |-> page'.out]
    BY <2>1 DEF PageInv
  <2> QED BY <2>1, <2>2, <2>3 DEF PageInv
<1> QED BY <1>1, <1>2

\* The page's token agrees with the browser's, or it is the first page.
LEMMA PageCheckStep ==
  ASSUME PageInv, PageChecked
  PROVE  PageInv'
<1>1. CASE PageTo("error")
  BY <1>1, PageErrorStep DEF PageChecked
<1>2. CASE ~PageTo("error")
  <2> DEFINE out == SubSeq(page.names, page.start + 1,
                           IF page.start + PageSize < Len(page.names)
                           THEN page.start + PageSize ELSE Len(page.names))
  <2>1. page.pc = "check" /\ page' = [page EXCEPT !.pc = "take", !.out = out] /\ browser' = browser /\ TokenAgrees
    BY <1>2 DEF PageChecked
  <2>2. /\ page'.pc = "take" /\ page'.out = out /\ page'.token = page.token
        /\ page'.names = page.names /\ page'.start = page.start
        /\ page' = [pc |-> page'.pc, dir |-> page'.dir, names |-> page'.names, stats |-> page'.stats,
                    token |-> page'.token, start |-> page'.start, out |-> page'.out]
    <3> HIDE DEF out
    <3> QED BY <2>1 DEF PageInv
  <2>3. TokenAgrees'
    BY <2>1, <2>2 DEF TokenAgrees
  <2> QED BY <2>1, <2>2, <2>3 DEF PageInv
<1> QED BY <1>1, <1>2

\* The browser goes on with the same listing: what it has and the page's entries are
\* the beginning of it.
LEMMA PageTakeStep ==
  ASSUME PageInv, PageTaken
  PROVE  PageInv'
<1>1. CASE PageTo("error") /\ UNCHANGED browser
  BY <1>1, PageErrorStep
<1>2. CASE ~(PageTo("error") /\ UNCHANGED browser)
  <2> DEFINE S == NamesOf(page.token)
             L == Sorted(S)
             k == page.start
             last == IF k + PageSize < Len(L) THEN k + PageSize ELSE Len(L)
             had == browser.got
  <2>1. /\ page.pc = "take" /\ page' = NoPage
        /\ browser' = [got |-> had \o page.out, token |-> page.token, whole |-> k + Len(page.out) >= Len(page.names)]
    BY <1>2 DEF PageTaken
  <2>2. S \in SUBSET EntryNames /\ page.names = L /\ k = Len(had) /\ page.out = SubSeq(L, k + 1, last)
    BY <2>1 DEF PageInv
  <2>3. L \in Seq(EntryNames) /\ Len(L) \in Nat
    BY <2>2, ListingOfNames
  <2>4. had \in Seq(EntryNames) /\ k \in Nat /\ k <= Len(L) /\ \A i \in 1..k : had[i] = L[i]
    <3>1. CASE had = <<>>
      BY <2>2, <2>3, <3>1 DEF PageInv, Begins
    <3>2. CASE had # <<>>
      <4>1. browser.token = page.token
        BY <2>1, <3>2 DEF PageInv, TokenAgrees
      <4> QED BY <2>2, <4>1 DEF PageInv, Begins
    <3> QED BY <3>1, <3>2
  <2> HIDE DEF S, L, k, had
  <2>5. PageSize \in Nat /\ last \in Nat /\ k <= last /\ last <= Len(L)
    BY <2>3, <2>4, WorkspaceReadAssumption
  <2> HIDE DEF last
  <2>6. /\ page.out \in Seq(EntryNames) /\ Len(page.out) = last - k
        /\ \A i \in 1..(last - k) : page.out[i] = L[k + i]
    <3>1. k + 1 \in Int /\ last \in Int /\ \A i \in (k + 1)..last : L[i] \in EntryNames
      BY <2>3, <2>4, <2>5
    <3>2. /\ SubSeq(L, k + 1, last) \in Seq(EntryNames)
          /\ Len(SubSeq(L, k + 1, last)) = IF k + 1 <= last THEN last - (k + 1) + 1 ELSE 0
          /\ \A i \in 1..(last - (k + 1) + 1) : SubSeq(L, k + 1, last)[i] = L[(k + 1) + i - 1]
      BY <3>1, SubSeqProperties
    <3> QED BY <2>2, <2>4, <2>5, <3>2
  <2>7. /\ had \o page.out \in Seq(EntryNames) /\ Len(had \o page.out) = last
        /\ \A i \in 1..last : (had \o page.out)[i] = L[i]
    <3>1. /\ had \o page.out \in Seq(EntryNames) /\ Len(had \o page.out) = Len(had) + Len(page.out)
          /\ \A i \in 1..(Len(had) + Len(page.out)) :
               (had \o page.out)[i] = IF i <= Len(had) THEN had[i] ELSE page.out[i - Len(had)]
      BY <2>4, <2>6, ConcatProperties
    <3>2. Len(had) = k /\ Len(had) + Len(page.out) = last
      BY <2>2, <2>4, <2>5, <2>6
    <3>3. ASSUME NEW i \in 1..last
          PROVE  (had \o page.out)[i] = L[i]
      <4>1. CASE i <= k
        BY <2>4, <3>1, <3>2, <3>3, <4>1
      <4>2. CASE ~(i <= k)
        <5>1. i - k \in 1..(last - k) /\ k + (i - k) = i
          BY <2>4, <2>5, <3>3, <4>2
        <5> QED BY <2>6, <3>1, <3>2, <3>3, <4>2, <5>1
      <4> QED BY <4>1, <4>2
    <3> QED BY <3>1, <3>2, <3>3
  <2>8. Begins(browser'.got, S) /\ (browser'.whole => Len(browser'.got) = Len(Sorted(S)))
    <3>1. (k + Len(page.out) >= Len(L)) => last = Len(L)
      <4>1. k + Len(page.out) = last
        BY <2>4, <2>5, <2>6
      <4> QED BY <2>3, <2>5, <4>1
    <3>2. browser'.got = had \o page.out /\ browser'.whole = (k + Len(page.out) >= Len(L))
      BY <2>1, <2>2
    <3>3. Len(browser'.got) = last /\ \A i \in 1..Len(browser'.got) : browser'.got[i] = L[i]
      BY <2>7, <3>2
    <3>4. browser'.whole => Len(browser'.got) = Len(L)
      BY <3>1, <3>2, <3>3
    <3>5. browser'.got \in Seq(EntryNames) /\ Len(browser'.got) <= Len(L)
      BY <2>5, <2>7, <3>2, <3>3
    <3> QED BY <2>2, <3>3, <3>4, <3>5 DEF Begins, L
  <2>9. browser'.token = page.token
    BY <2>1
  <2> QED BY <2>1, <2>8, <2>9 DEF PageInv, NoPage, S
<1> QED BY <1>1, <1>2

\* The listing starts over.
LEMMA BrowseAgainStep ==
  ASSUME PageInv, BrowseAgain
  PROVE  PageInv'
<1>1. page' = NoPage /\ browser'.got = <<>> /\ browser'.token = {} /\ browser'.whole = FALSE
  BY DEF BrowseAgain
<1>2. Begins(<<>>, NamesOf({}))
  <2>1. NamesOf({}) = {}
    BY DEF NamesOf
  <2>2. Len(Sorted({})) \in Nat
    BY ListingOfNames
  <2> QED BY <2>1, <2>2 DEF Begins
<1> QED BY <1>1, <1>2 DEF PageInv, NoPage

\* Pages are one listing through every step (read_directory_page, browse).
LEMMA PagesAreConsistent == WorkspaceReadSpec => []PageInv
<1>1. ASSUME WorkspaceReadInit
      PROVE  PageInv
  <2>1. page = NoPage /\ browser = [got |-> <<>>, token |-> {}, whole |-> FALSE]
    BY <1>1 DEF WorkspaceReadInit
  <2>2. Begins(<<>>, NamesOf({}))
    <3>1. NamesOf({}) = {}
      BY DEF NamesOf
    <3>2. Len(Sorted({})) \in Nat
      BY ListingOfNames
    <3> QED BY <3>1, <3>2 DEF Begins
  <2> QED BY <2>1, <2>2 DEF PageInv, NoPage
<1>2. ASSUME PageInv, [WorkspaceReadNext]_workspaceReadVars
      PROVE  PageInv'
  <2>1. CASE UNCHANGED <<page, browser>>
    BY <1>2, <2>1 DEF PageInv, TokenAgrees
  <2>2. CASE PageRequested \/ PageHashed \/ PageChecked \/ PageTaken \/ BrowseAgain
    BY <1>2, <2>2, PageRequestStep, PageHashStep, PageCheckStep, PageTakeStep, BrowseAgainStep
  <2> QED BY <1>2, <2>1, <2>2
          DEF WorkspaceReadNext, workspaceReadVars, EditEntry, ReplaceDirectory, Register,
          Unregister, ReadResolves,
              ReadStats, ReadLarge, ReadBytes, ReadStatsAgain, ReadEnds, ReadAgain, KeepOthers
<1> QED BY <1>1, <1>2, PTL DEF WorkspaceReadSpec

\* Whatever is edited meanwhile, a text handed out is the one its revision names (if
\* one edit at most fell into the read), and pages put together are one listing.
THEOREM AnswersStaySnapshots == WorkspaceReadSpec => []AnswersAreSnapshots
<1>1. ASSUME PageInv
      PROVE  PagesAreOneListing
  <2> SUFFICES ASSUME browser.whole
               PROVE  /\ NamesIn(browser.got) = NamesOf(browser.token)
                      /\ \A i, j \in 1..Len(browser.got) : i < j => browser.got[i] < browser.got[j]
    BY DEF PagesAreOneListing, NamesIn, NamesOf
  <2> DEFINE S == NamesOf(browser.token)
  <2>1. /\ S \in SUBSET EntryNames /\ Len(browser.got) = Len(Sorted(S))
        /\ \A i \in 1..Len(browser.got) : browser.got[i] = Sorted(S)[i]
    BY <1>1 DEF PageInv, Begins
  <2> HIDE DEF S
  <2>2. NamesIn(Sorted(S)) = S /\ \A i, j \in 1..Len(Sorted(S)) : i < j => Sorted(S)[i] < Sorted(S)[j]
    BY <2>1, ListingOfNames
  <2>3. NamesIn(browser.got) = NamesIn(Sorted(S))
    BY <2>1 DEF NamesIn
  <2> QED BY <2>1, <2>2, <2>3 DEF S
<1>2. ASSUME ReadInv, PageInv
      PROVE  AnswersAreSnapshots
  BY <1>1, <1>2 DEF ReadInv, AnswersAreSnapshots
<1> QED BY <1>2, ReadsAreConsistent, PagesAreConsistent, PTL

-----------------------------------------------------------------------------
(***************************************************************************)
(* The text search.                                                        *)
(***************************************************************************)

At0 == [dir |-> "top", depth |-> 0]
At1 == [dir |-> "d", depth |-> 1]
At2 == [dir |-> "e", depth |-> 2]

\* The matches a complete search owes to a file.
Owed(x) == IF x \in Searchable THEN Matches[kindOf[x]] ELSE 0

TopListings == {<<"d">>, <<"f", "d">>, <<"d", "f">>}
DirListings == {<<>>, <<"g">>, <<"e">>}

\* Where a search that has reported nothing missing stands: what it has found is what
\* the files it has passed owe.
SearchStage ==
  \/ /\ walk.hits = 0
     /\ \/ walk.pc = "next" /\ walk.queue = <<At0>>
        \/ walk.pc = "entry" /\ walk.queue = <<>> /\ walk.left = tree.top /\ walk.depth = 0
        \/ /\ walk.pc = "entry" /\ walk.queue = <<At1>> /\ walk.left = <<"f">> /\ walk.depth = 0
           /\ tree.top = <<"d", "f">>
  \/ /\ walk.hits = Owed("f")
     /\ \/ /\ walk.pc = "entry" /\ walk.queue = <<>> /\ walk.left = <<"d">> /\ walk.depth = 0
        \/ walk.pc = "entry" /\ walk.queue = <<At1>> /\ walk.left = <<>>
        \/ walk.pc = "next" /\ walk.queue = <<At1>>
        \/ walk.pc = "entry" /\ walk.queue = <<>> /\ walk.left = tree.d /\ walk.depth = 1
  \/ /\ walk.hits = Owed("f") + Owed("g")
     /\ \/ walk.pc = "entry" /\ walk.queue \in {<<>>, <<At2>>} /\ walk.left = <<>>
        \/ walk.pc = "next" /\ walk.queue \in {<<>>, <<At2>>}
        \/ walk.pc = "ok"

SearchInv ==
  /\ tree \in [top : TopListings, d : DirListings, e : {<<>>}] /\ kindOf \in [{"f", "g"} -> FileKinds]
  /\ walk = [pc |-> walk.pc, queue |-> walk.queue, left |-> walk.left, depth |-> walk.depth,
             hits |-> walk.hits, scanned |-> walk.scanned, truncated |-> walk.truncated]
  /\ walk.truncated \in BOOLEAN
  /\ walk.truncated \/ walk.pc = "error" \/ (SearchStage /\ walk.hits <= MaxResults)

\* What a file owes, by its kind and whether it is in the tree.
LEMMA FilesOwe ==
  ASSUME SearchInv
  PROVE  /\ Owed("f") \in Nat /\ Owed("g") \in Nat
         /\ Owed("f") = IF tree.top # <<"d">> /\ kindOf["f"] \in {"one", "two", "none"}
                        THEN Matches[kindOf["f"]] ELSE 0
         /\ Owed("g") = IF tree.d = <<"g">> /\ kindOf["g"] \in {"one", "two", "none"}
                        THEN Matches[kindOf["g"]] ELSE 0
<1>1. /\ tree.top \in TopListings /\ tree.d \in DirListings /\ tree["top"] = tree.top /\ tree["d"] = tree.d
  BY DEF SearchInv
<1>2. DOMAIN Matches = {"one", "two", "none"} /\ \A k \in {"one", "two", "none"} : Matches[k] \in Nat
  BY DEF Matches
<1>3. "f" \in Searchable <=> kindOf["f"] \in {"one", "two", "none"} /\ tree.top # <<"d">>
  <2>1. (\E i \in DOMAIN tree["top"] : tree["top"][i] = "f") <=> tree.top # <<"d">>
    <3>1. CASE tree.top = <<"d">>
      BY <3>1
    <3>2. CASE tree.top = <<"f", "d">>
      BY <3>2
    <3>3. CASE tree.top = <<"d", "f">>
      BY <3>3
    <3> QED BY <1>1, <3>1, <3>2, <3>3 DEF TopListings
  <2>2. ~(\E i \in DOMAIN tree["d"] : tree["d"][i] = "f")
    BY <1>1 DEF DirListings
  <2> QED BY <1>2, <2>1, <2>2 DEF Searchable
<1>4. "g" \in Searchable <=> kindOf["g"] \in {"one", "two", "none"} /\ tree.d = <<"g">>
  <2>1. (\E i \in DOMAIN tree["d"] : tree["d"][i] = "g") <=> tree.d = <<"g">>
    <3>1. CASE tree.d = <<"g">>
      BY <3>1
    <3>2. CASE tree.d = <<>>
      BY <3>2
    <3>3. CASE tree.d = <<"e">>
      BY <3>3
    <3> QED BY <1>1, <3>1, <3>2, <3>3 DEF DirListings
  <2>2. ~(\E i \in DOMAIN tree["top"] : tree["top"][i] = "g")
    BY <1>1 DEF TopListings
  <2> QED BY <1>2, <2>1, <2>2 DEF Searchable
<1> QED BY <1>2, <1>3, <1>4 DEF Owed

\* What one entry does to the search, if it leaves nothing out.
EntryTaken(e) ==
  /\ walk'.pc = "entry" /\ walk'.left = Tail(walk.left) /\ walk'.depth = walk.depth
  /\ \/ /\ e \in {"d", "e"} /\ walk'.hits = walk.hits
        /\ walk'.queue = Append(walk.queue, [dir |-> e, depth |-> walk.depth + 1])
     \/ /\ e \notin {"d", "e"} /\ kindOf[e] \in {"link", "binary"} /\ walk'.hits = walk.hits
        /\ walk'.queue = walk.queue
     \/ /\ e \notin {"d", "e"} /\ kindOf[e] \notin {"link", "binary", "hard", "big"}
        /\ (walk'.hits = walk.hits + Matches[kindOf[e]]) /\ walk'.hits <= MaxResults
        /\ walk'.queue = walk.queue

WalkRecord == walk = [pc |-> walk.pc, queue |-> walk.queue, left |-> walk.left, depth |-> walk.depth,
                      hits |-> walk.hits, scanned |-> walk.scanned, truncated |-> walk.truncated]

\* An entry is taken, or the search says that something is missing.
LEMMA EntryOutcome ==
  ASSUME SearchInv, SearchEntry, ~walk.truncated, walk.hits \in Nat, walk.hits <= MaxResults,
         Head(walk.left) \in {"d", "e", "f", "g"}
  PROVE  /\ WalkRecord' /\ walk'.truncated \in BOOLEAN
         /\ walk'.truncated \/ walk'.pc = "error" \/ EntryTaken(Head(walk.left))
<1> DEFINE e == Head(walk.left)
<1>1. PICK w : /\ w = [walk EXCEPT !.left = Tail(@), !.scanned = @ + 1]
               /\ walk' = (IF w.scanned > MaxEntries THEN OverBudget(w)
                           ELSE IF e \in {"d", "e"} THEN
                             IF w.depth < MaxDepth
                             THEN [w EXCEPT !.queue = Append(@, [dir |-> e, depth |-> w.depth + 1])]
                             ELSE [w EXCEPT !.truncated = TRUE]
                           ELSE IF kindOf[e] = "link" \/ kindOf[e] = "binary" THEN w
                           ELSE IF kindOf[e] = "hard" THEN [w EXCEPT !.pc = "error"]
                           ELSE IF kindOf[e] = "big" THEN [w EXCEPT !.truncated = TRUE]
                           ELSE Found(w, Matches[kindOf[e]]))
  BY DEF SearchEntry, Walk
<1>2. /\ w = [pc |-> w.pc, queue |-> w.queue, left |-> w.left, depth |-> w.depth,
              hits |-> w.hits, scanned |-> w.scanned, truncated |-> w.truncated]
      /\ w.pc = "entry" /\ w.queue = walk.queue /\ w.left = Tail(walk.left) /\ w.depth = walk.depth
      /\ w.hits = walk.hits /\ w.truncated = FALSE
  BY <1>1 DEF SearchInv, SearchEntry
<1> HIDE DEF e
<1>3. CASE w.scanned > MaxEntries
  BY <1>1, <1>2, <1>3 DEF OverBudget, WalkRecord
<1>4. CASE ~(w.scanned > MaxEntries) /\ e \in {"d", "e"}
  <2>1. CASE w.depth < MaxDepth
    <3>1. PICK q : q = Append(walk.queue, [dir |-> e, depth |-> walk.depth + 1])
      OBVIOUS
    <3>2. walk' = [w EXCEPT !.queue = q]
      BY <1>1, <1>2, <1>4, <2>1, <3>1
    <3> QED BY <1>2, <1>4, <3>1, <3>2 DEF EntryTaken, WalkRecord, e
  <2>2. CASE ~(w.depth < MaxDepth)
    BY <1>1, <1>2, <1>4, <2>2 DEF WalkRecord
  <2> QED BY <2>1, <2>2
<1>5. CASE ~(w.scanned > MaxEntries) /\ e \notin {"d", "e"}
  <2>1. CASE kindOf[e] \in {"link", "binary"}
    <3>1. walk' = w
      BY <1>1, <1>5, <2>1
    <3> QED BY <1>2, <1>5, <2>1, <3>1 DEF EntryTaken, WalkRecord, e
  <2>2. CASE kindOf[e] \in {"hard", "big"}
    BY <1>1, <1>2, <1>5, <2>2 DEF WalkRecord
  <2>3. CASE kindOf[e] \notin {"link", "binary", "hard", "big"}
    <3> DEFINE n == Matches[kindOf[e]]
    <3>1. walk' = Found(w, n) /\ e \in {"f", "g"}
      BY <1>1, <1>5, <2>3 DEF e
    <3>2. n \in Nat
      BY <2>3, <3>1 DEF SearchInv, FileKinds, Matches
    <3> HIDE DEF n
    <3>3. PICK h, tr, pp :
            /\ h = (IF w.hits + n > MaxResults THEN MaxResults ELSE w.hits + n)
            /\ tr = (w.truncated \/ (n > 0 /\ w.hits + n >= MaxResults))
            /\ pp = (IF n > 0 /\ w.hits + n >= MaxResults THEN "ok" ELSE "entry")
            /\ walk' = [w EXCEPT !.hits = h, !.truncated = tr, !.pc = pp]
      BY <3>1 DEF Found
    <3>4. /\ walk'.hits = h /\ walk'.truncated = tr /\ walk'.pc = pp /\ walk'.queue = w.queue /\ walk'.left = w.left
          /\ walk'.depth = w.depth /\ WalkRecord'
      BY <1>2, <3>3 DEF WalkRecord
    <3>5. tr \in BOOLEAN
      BY <1>2, <3>3
    <3>6. ~tr => pp = "entry" /\ h = walk.hits + n /\ h <= MaxResults
      <4>1. MaxResults \in Nat \ {0}
        BY TextSearchAssumption
      <4>2. ~tr => ~(n > 0 /\ walk.hits + n >= MaxResults)
        BY <1>2, <3>3
      <4>3. ASSUME ~(n > 0 /\ walk.hits + n >= MaxResults)
            PROVE  pp = "entry" /\ walk.hits + n <= MaxResults
        <5>1. pp = "entry"
          BY <1>2, <3>3, <4>3
        <5>2. walk.hits + n <= MaxResults
          <6> DEFINE m == walk.hits
          <6>1. m \in Nat /\ m <= MaxResults /\ ~(n > 0 /\ m + n >= MaxResults)
            BY <4>3
          <6> HIDE DEF m
          <6>2. m + n <= MaxResults
            BY <3>2, <4>1, <6>1
          <6> QED BY <6>2 DEF m
        <5> QED BY <5>1, <5>2
      <4>4. ASSUME walk.hits + n <= MaxResults
            PROVE  h = walk.hits + n
        <5>1. walk.hits + n \in Nat
          BY <3>2
        <5>2. ~(walk.hits + n > MaxResults)
          BY <4>1, <4>4, <5>1
        <5> QED BY <1>2, <3>3, <5>2
      <4> QED BY <4>2, <4>3, <4>4
    <3> QED BY <1>2, <1>5, <2>3, <3>4, <3>5, <3>6 DEF EntryTaken, e, n
  <2> QED BY <2>1, <2>2, <2>3
<1> QED BY <1>3, <1>4, <1>5 DEF e

\* The search goes on through one entry.
LEMMA SearchEntryStep ==
  ASSUME SearchInv, SearchEntry
  PROVE  SearchInv'
<1>1. tree' = tree /\ kindOf' = kindOf /\ walk.pc = "entry" /\ walk.left # <<>>
  BY DEF SearchEntry, Walk
<1>2. Owed("f")' = Owed("f") /\ Owed("g")' = Owed("g")
  BY <1>1 DEF Owed, Searchable
<1>3. CASE walk.truncated
  <2>1. PICK w : w = [walk EXCEPT !.left = Tail(@), !.scanned = @ + 1]
    OBVIOUS
  <2>2. /\ w = [pc |-> w.pc, queue |-> w.queue, left |-> w.left, depth |-> w.depth,
                hits |-> w.hits, scanned |-> w.scanned, truncated |-> w.truncated]
        /\ w.truncated = TRUE
    BY <1>3, <2>1 DEF SearchInv
  <2>3. \/ walk' = OverBudget(w) \/ walk' = w \/ walk' = [w EXCEPT !.truncated = TRUE]
        \/ walk' = [w EXCEPT !.pc = "error"]
        \/ \E q : walk' = [w EXCEPT !.queue = q]
        \/ \E h, p : walk' = [w EXCEPT !.hits = h, !.truncated = TRUE, !.pc = p]
    <3>1. \A n : \E h, p : Found(w, n) = [w EXCEPT !.hits = h, !.truncated = TRUE, !.pc = p]
      BY <2>2 DEF Found
    <3> DEFINE e == Head(walk.left)
               into == Append(w.queue, [dir |-> e, depth |-> w.depth + 1])
    <3>2. walk' = (IF w.scanned > MaxEntries THEN OverBudget(w)
                   ELSE IF e \in {"d", "e"} THEN
                     IF w.depth < MaxDepth THEN [w EXCEPT !.queue = into] ELSE [w EXCEPT !.truncated = TRUE]
                   ELSE IF kindOf[e] = "link" \/ kindOf[e] = "binary" THEN w
                   ELSE IF kindOf[e] = "hard" THEN [w EXCEPT !.pc = "error"]
                   ELSE IF kindOf[e] = "big" THEN [w EXCEPT !.truncated = TRUE]
                   ELSE Found(w, Matches[kindOf[e]]))
      BY <2>1 DEF SearchEntry, Walk
    <3> HIDE DEF e, into
    <3>3. \/ walk' = OverBudget(w) \/ walk' = w \/ walk' = [w EXCEPT !.truncated = TRUE]
          \/ walk' = [w EXCEPT !.pc = "error"] \/ walk' = [w EXCEPT !.queue = into]
          \/ walk' = Found(w, Matches[kindOf[e]])
      BY <3>2, Zenon
    <3>4. CASE walk' = Found(w, Matches[kindOf[e]])
      BY <3>1, <3>4, ZenonT(60)
    <3>5. CASE walk' = [w EXCEPT !.queue = into]
      <4>1. \E q : walk' = [w EXCEPT !.queue = q]
        BY <3>5
      <4> QED BY <4>1
    <3> QED BY <3>3, <3>4, <3>5
  <2>4. WalkRecord' /\ walk'.truncated = TRUE
    BY <2>2, <2>3 DEF OverBudget, WalkRecord
  <2> QED BY <1>1, <2>4 DEF SearchInv, WalkRecord
<1>4. CASE ~walk.truncated
  <2>1. /\ SearchStage /\ walk.hits <= MaxResults /\ tree.top \in TopListings /\ tree.d \in DirListings
    BY <1>1, <1>4 DEF SearchInv
  <2>2. walk.hits \in Nat /\ Owed("f") \in Nat /\ Owed("g") \in Nat
    BY <2>1, FilesOwe DEF SearchStage
  <2>3. \/ /\ walk.hits = 0 /\ walk.queue = <<>> /\ walk.left = tree.top /\ walk.depth = 0
        \/ /\ walk.hits = 0 /\ walk.queue = <<At1>> /\ walk.left = <<"f">> /\ tree.top = <<"d", "f">>
        \/ /\ walk.hits = Owed("f") /\ walk.queue = <<>> /\ walk.left = <<"d">> /\ walk.depth = 0
        \/ /\ walk.hits = Owed("f") /\ walk.queue = <<>> /\ walk.left = tree.d /\ walk.depth = 1
    BY <1>1, <2>1 DEF SearchStage
  <2>4. /\ Head(<<"d">>) = "d" /\ Head(<<"f">>) = "f" /\ Head(<<"g">>) = "g" /\ Head(<<"e">>) = "e"
        /\ Head(<<"f", "d">>) = "f" /\ Head(<<"d", "f">>) = "d"
        /\ Tail(<<"d">>) = <<>> /\ Tail(<<"f">>) = <<>> /\ Tail(<<"g">>) = <<>> /\ Tail(<<"e">>) = <<>>
        /\ Tail(<<"f", "d">>) = <<"d">> /\ Tail(<<"d", "f">>) = <<"f">>
    OBVIOUS
  <2>5. Head(walk.left) \in {"d", "e", "f", "g"}
    BY <1>1, <2>1, <2>3, <2>4 DEF TopListings, DirListings
  <2>6. /\ WalkRecord' /\ walk'.truncated \in BOOLEAN
        /\ walk'.truncated \/ walk'.pc = "error" \/ EntryTaken(Head(walk.left))
    BY <1>4, <2>1, <2>2, <2>5, EntryOutcome
  <2>7. ASSUME EntryTaken(Head(walk.left))
        PROVE  SearchStage' /\ walk'.hits <= MaxResults
    <3>1. Append(<<>>, At1) = <<At1>> /\ Append(<<>>, At2) = <<At2>>
      OBVIOUS
    <3>2. At1 = [dir |-> "d", depth |-> 0 + 1] /\ At2 = [dir |-> "e", depth |-> 1 + 1]
      BY DEF At1, At2
    <3>3. /\ kindOf["f"] \in {"link", "binary"} => Owed("f") = 0
          /\ tree.top = <<"d">> => Owed("f") = 0
          /\ tree.top # <<"d">> /\ kindOf["f"] \notin {"link", "binary", "hard", "big"} => Owed("f") = Matches[kindOf["f"]]
          /\ kindOf["g"] \in {"link", "binary"} => Owed("g") = 0
          /\ tree.d # <<"g">> => Owed("g") = 0
          /\ tree.d = <<"g">> /\ kindOf["g"] \notin {"link", "binary", "hard", "big"} => Owed("g") = Matches[kindOf["g"]]
      <4>1. kindOf["f"] \in FileKinds /\ kindOf["g"] \in FileKinds
        BY DEF SearchInv
      <4> QED BY <4>1, FilesOwe DEF FileKinds
    <3>4. walk'.hits <= MaxResults
      BY <2>1, <2>7 DEF EntryTaken
    <3>5. <<"d">> # <<"f", "d">> /\ <<"d">> # <<"d", "f">> /\ <<"e">> # <<"g">> /\ <<"f", "d">> # <<"d", "f">>
      OBVIOUS
    <3> HIDE DEF At1, At2
    <3>6. CASE walk.hits = 0 /\ walk.queue = <<>> /\ walk.left = tree.top /\ walk.depth = 0
      <4>1. CASE tree.top = <<"d">>
        <5>1. walk'.hits = Owed("f")
          BY <2>4, <2>7, <3>3, <3>6, <4>1 DEF EntryTaken
        <5>2. walk'.pc = "entry" /\ walk'.queue = <<At1>> /\ walk'.left = <<>>
          BY <2>4, <2>7, <3>1, <3>2, <3>6, <4>1 DEF EntryTaken
        <5> QED BY <1>2, <3>4, <5>1, <5>2 DEF SearchStage
      <4>2. CASE tree.top = <<"f", "d">>
        <5>1. walk'.hits = Owed("f")
          BY <2>2, <2>4, <2>7, <3>3, <3>5, <3>6, <4>2 DEF EntryTaken
        <5>2. walk'.pc = "entry" /\ walk'.queue = <<>> /\ walk'.left = <<"d">> /\ walk'.depth = 0
          BY <2>4, <2>7, <3>6, <4>2 DEF EntryTaken
        <5> QED BY <1>2, <3>4, <5>1, <5>2 DEF SearchStage
      <4>3. CASE tree.top = <<"d", "f">>
        <5>1. walk'.hits = 0 /\ walk'.depth = 0
          BY <2>4, <2>7, <3>6, <4>3 DEF EntryTaken
        <5>2. walk'.pc = "entry" /\ walk'.queue = <<At1>> /\ walk'.left = <<"f">>
          BY <2>4, <2>7, <3>1, <3>2, <3>6, <4>3 DEF EntryTaken
        <5> QED BY <1>1, <3>4, <4>3, <5>1, <5>2 DEF SearchStage
      <4> QED BY <2>1, <3>4, <4>1, <4>2, <4>3 DEF TopListings
    <3>7. CASE walk.hits = 0 /\ walk.queue = <<At1>> /\ walk.left = <<"f">> /\ tree.top = <<"d", "f">>
      <4>1. walk'.hits = Owed("f")
        BY <2>2, <2>4, <2>7, <3>3, <3>5, <3>7 DEF EntryTaken
      <4> QED BY <1>1, <1>2, <2>4, <2>7, <3>4, <3>7, <4>1 DEF EntryTaken, SearchStage
    <3>8. CASE walk.hits = Owed("f") /\ walk.queue = <<>> /\ walk.left = <<"d">> /\ walk.depth = 0
      BY <1>1, <1>2, <2>4, <2>7, <3>1, <3>2, <3>4, <3>8 DEF EntryTaken, SearchStage
    <3>9. CASE walk.hits = Owed("f") /\ walk.queue = <<>> /\ walk.left = tree.d /\ walk.depth = 1
      <4>1. CASE tree.d = <<"g">>
        <5>1. walk'.hits = Owed("f") + Owed("g")
          BY <2>2, <2>4, <2>7, <3>3, <3>9, <4>1 DEF EntryTaken
        <5>2. walk'.pc = "entry" /\ walk'.queue = <<>> /\ walk'.left = <<>>
          BY <2>4, <2>7, <3>9, <4>1 DEF EntryTaken
        <5> QED BY <1>2, <3>4, <5>1, <5>2 DEF SearchStage
      <4>2. CASE tree.d = <<"e">>
        <5>1. walk'.hits = Owed("f") + Owed("g")
          BY <2>2, <2>4, <2>7, <3>3, <3>5, <3>9, <4>2 DEF EntryTaken
        <5>2. walk'.pc = "entry" /\ walk'.queue = <<At2>> /\ walk'.left = <<>>
          BY <2>4, <2>7, <3>1, <3>2, <3>9, <4>2 DEF EntryTaken
        <5> QED BY <1>2, <3>4, <5>1, <5>2 DEF SearchStage
      <4> QED BY <1>1, <2>1, <3>9, <4>1, <4>2 DEF DirListings
    <3> QED BY <2>3, <3>6, <3>7, <3>8, <3>9
  <2> QED BY <1>1, <2>6, <2>7 DEF SearchInv, WalkRecord
<1> QED BY <1>3, <1>4 DEF SearchInv

\* The invariant holds through every step of the search.
LEMMA SearchIsConsistent == SearchSpec => []SearchInv
<1>1. ASSUME SearchInit
      PROVE  SearchInv
  <2>1. walk = [pc |-> "next", queue |-> <<At0>>, left |-> <<>>,
                depth |-> 0, hits |-> 0, scanned |-> 0, truncated |-> FALSE]
    BY <1>1 DEF SearchInit, At0
  <2>2. SearchStage
    <3> HIDE DEF At0
    <3> QED BY <2>1 DEF SearchStage
  <2> QED BY <1>1, <2>1, <2>2, TextSearchAssumption DEF SearchInit, SearchInv, TopListings, DirListings
<1>2. ASSUME SearchInv, [SearchNext]_searchVars
      PROVE  SearchInv'
  <2>1. ASSUME tree' = tree /\ kindOf' = kindOf
        PROVE  Owed("f")' = Owed("f") /\ Owed("g")' = Owed("g")
    BY <2>1 DEF Owed, Searchable
  <2>2. CASE UNCHANGED searchVars
    BY <1>2, <2>1, <2>2 DEF SearchInv, SearchStage, searchVars
  <2>3. CASE SearchDirectory
    <3>1. PICK q, l, k :
            /\ q = Tail(walk.queue) /\ l = tree[Head(walk.queue).dir] /\ k = Head(walk.queue).depth
            /\ walk' = [walk EXCEPT !.pc = "entry", !.queue = q, !.left = l, !.depth = k]
      BY <2>3 DEF SearchDirectory, Walk
    <3>2. /\ WalkRecord' /\ walk'.pc = "entry" /\ walk'.queue = q /\ walk'.left = l /\ walk'.depth = k
          /\ walk'.hits = walk.hits /\ walk'.truncated = walk.truncated
      BY <1>2, <3>1 DEF SearchInv, WalkRecord
    <3>3. tree' = tree /\ kindOf' = kindOf /\ walk.pc = "next" /\ walk.queue # <<>>
      BY <2>3 DEF SearchDirectory, Walk
    <3>4. CASE walk.truncated
      BY <1>2, <3>2, <3>3, <3>4 DEF SearchInv, WalkRecord
    <3>5. CASE ~walk.truncated
      <4>1. SearchStage /\ walk.hits <= MaxResults /\ tree.e = <<>>
        BY <1>2, <3>3, <3>5 DEF SearchInv
      <4>2. \/ walk.hits = 0 /\ walk.queue = <<At0>>
            \/ walk.hits = Owed("f") /\ walk.queue = <<At1>>
            \/ walk.hits = Owed("f") + Owed("g") /\ walk.queue = <<At2>>
        BY <3>3, <4>1 DEF SearchStage
      <4>3. /\ Tail(<<At0>>) = <<>> /\ Tail(<<At1>>) = <<>> /\ Tail(<<At2>>) = <<>>
            /\ Head(<<At0>>) = At0 /\ Head(<<At1>>) = At1 /\ Head(<<At2>>) = At2
        OBVIOUS
      <4>4. /\ At0.dir = "top" /\ At1.dir = "d" /\ At2.dir = "e" /\ At0.depth = 0 /\ At1.depth = 1
            /\ tree["top"] = tree.top /\ tree["d"] = tree.d /\ tree["e"] = tree.e
        BY DEF At0, At1, At2
      <4> HIDE DEF At0, At1, At2
      <4>5. SearchStage'
        BY <2>1, <3>1, <3>2, <3>3, <4>1, <4>2, <4>3, <4>4, ZenonT(60) DEF SearchStage
      <4> QED BY <1>2, <3>2, <3>3, <4>1, <4>5 DEF SearchInv, WalkRecord
    <3> QED BY <1>2, <3>4, <3>5 DEF SearchInv
  <2>4. CASE SearchDirectoryEnds
    <3>1. PICK p : /\ p = (IF walk.truncated /\ walk.scanned >= MaxEntries THEN "ok" ELSE "next")
                   /\ walk' = [walk EXCEPT !.pc = p]
      BY <2>4 DEF SearchDirectoryEnds, Walk
    <3>2. /\ WalkRecord' /\ walk'.pc = p /\ walk'.queue = walk.queue /\ walk'.left = walk.left
          /\ walk'.hits = walk.hits /\ walk'.truncated = walk.truncated
      BY <1>2, <3>1 DEF SearchInv, WalkRecord
    <3>3. tree' = tree /\ kindOf' = kindOf /\ walk.pc = "entry" /\ walk.left = <<>>
      BY <2>4 DEF SearchDirectoryEnds, Walk
    <3>4. CASE walk.truncated
      BY <1>2, <3>2, <3>3, <3>4 DEF SearchInv, WalkRecord
    <3>5. CASE ~walk.truncated
      <4>1. SearchStage /\ walk.hits <= MaxResults /\ p = "next" /\ tree.top \in TopListings /\ tree.d \in DirListings
        BY <1>2, <3>1, <3>3, <3>5 DEF SearchInv
      <4>2. tree.top # <<>> /\ <<"f">> # <<>> /\ <<"d">> # <<>>
        BY <4>1 DEF TopListings
      <4>3. \/ walk.hits = Owed("f") /\ walk.queue = <<At1>>
            \/ walk.hits = Owed("f") /\ walk.queue = <<>> /\ tree.d = <<>>
            \/ walk.hits = Owed("f") + Owed("g") /\ walk.queue \in {<<>>, <<At2>>}
        BY <3>3, <4>1, <4>2 DEF SearchStage
      <4>4. tree.d = <<>> => Owed("g") = 0 /\ Owed("f") \in Nat
        <5>1. <<>> # <<"g">>
          OBVIOUS
        <5> QED BY <1>2, <5>1, FilesOwe
      <4>5. SearchStage'
        <5>1. \/ walk'.hits = Owed("f") /\ walk'.queue = <<At1>>
              \/ walk'.hits = Owed("f") + Owed("g") /\ walk'.queue \in {<<>>, <<At2>>}
          BY <3>2, <4>3, <4>4
        <5> QED BY <2>1, <3>2, <3>3, <4>1, <5>1 DEF SearchStage
      <4> QED BY <1>2, <3>2, <3>3, <4>1, <4>5 DEF SearchInv, WalkRecord
    <3> QED BY <1>2, <3>4, <3>5 DEF SearchInv
  <2>5. CASE SearchEnds
    <3>1. walk' = [walk EXCEPT !.pc = "ok"] /\ tree' = tree /\ kindOf' = kindOf /\ walk.pc = "next" /\ walk.queue = <<>>
      BY <2>5 DEF SearchEnds, Walk
    <3>2. /\ WalkRecord' /\ walk'.pc = "ok" /\ walk'.hits = walk.hits /\ walk'.truncated = walk.truncated
      BY <1>2, <3>1 DEF SearchInv, WalkRecord
    <3>3. CASE walk.truncated
      BY <1>2, <3>1, <3>2, <3>3 DEF SearchInv, WalkRecord
    <3>4. CASE ~walk.truncated
      <4>1. walk.hits = Owed("f") + Owed("g") /\ walk.hits <= MaxResults
        BY <1>2, <3>1, <3>4 DEF SearchInv, SearchStage
      <4> QED BY <1>2, <2>1, <3>1, <3>2, <4>1 DEF SearchInv, WalkRecord, SearchStage
    <3> QED BY <1>2, <3>3, <3>4 DEF SearchInv
  <2>6. CASE SearchTimesOut
    <3>1. /\ walk' = [walk EXCEPT !.pc = "ok", !.truncated = TRUE] \/ walk' = [walk EXCEPT !.pc = "error"]
          /\ tree' = tree /\ kindOf' = kindOf
      BY <2>6 DEF SearchTimesOut, Walk
    <3>2. WalkRecord' /\ walk'.truncated \in BOOLEAN /\ (walk'.truncated \/ walk'.pc = "error")
      BY <1>2, <3>1 DEF SearchInv, WalkRecord
    <3> QED BY <1>2, <3>1, <3>2 DEF SearchInv, WalkRecord
  <2> QED BY <1>2, <2>2, <2>3, <2>4, <2>5, <2>6, SearchEntryStep DEF SearchNext
<1> QED BY <1>1, <1>2, PTL DEF SearchSpec

\* For any budgets and any listing order, a search that does not say it is incomplete
\* has found every match of every file it may read (TextSearch::search).
THEOREM SearchesAreHonest == SearchSpec => []SearchIsHonest
<1>1. ASSUME SearchInv
      PROVE  SearchIsHonest
  BY <1>1 DEF SearchInv, SearchStage, SearchIsHonest, Owed
<1> QED BY <1>1, SearchIsConsistent, PTL
=============================================================================
