--------------------------- MODULE ChangeDetector ---------------------------
(***************************************************************************)
(* The polling change detector, the editor that changes files under it and  *)
(* the client that keeps a view from the batches.                           *)
(***************************************************************************)
EXTENDS Naturals, FiniteSets

CONSTANTS
  MaxChanges,    \* max_changes of a batch
  Paths,         \* files the detector watches
  MaxPathEdits,  \* edits of the watched files (a bound of the model)
  MaxBadScans    \* scans that fail, overflow or run out of time (a bound)

ASSUME ChangeDetectorAssumption ==
  MaxChanges \in Nat \ {0} /\ IsFiniteSet(Paths) /\ MaxPathEdits \in Nat /\ MaxBadScans \in Nat

VARIABLES
  revision,  \* path -> revision on disk
  pathEdits,
  baseline,  \* PollingChangeDetector.snapshot
  scan,      \* a poll or a rescan in progress: why, left, seen
  view,      \* client: the revisions it shows
  dirty,     \* client: a batch asked it to rescan
  badScans

detectorVars == <<revision, pathEdits, baseline, scan, view, dirty, badScans>>

NoScan == [why |-> "none", left |-> {}, seen |-> <<>>]

DetectorInit ==
  /\ revision = [p \in Paths |-> 0] /\ pathEdits = 0
  /\ baseline = revision /\ view = revision
  /\ scan = NoScan /\ dirty = FALSE /\ badScans = 0

\* A revision is never seen twice: a digest or a time differs.
EditPath(p) ==
  /\ pathEdits < MaxPathEdits
  /\ pathEdits' = pathEdits + 1
  /\ revision' = [revision EXCEPT ![p] = pathEdits + 1]
  /\ UNCHANGED <<baseline, scan, view, dirty, badScans>>

\* poll when it is due, and rescan when a batch asked for it.
ScanStarts ==
  /\ scan = NoScan
  /\ scan' = [why |-> IF dirty THEN "rescan" ELSE "poll", left |-> Paths, seen |-> [p \in {} |-> 0]]
  /\ UNCHANGED <<revision, pathEdits, baseline, view, dirty, badScans>>

\* scan_workspace looks at one entry at a time.
ScanEntry(p) ==
  /\ p \in scan.left
  /\ scan' = [scan EXCEPT !.left = @ \ {p},
                          !.seen = [q \in DOMAIN @ \cup {p} |-> IF q = p THEN revision[p] ELSE scan.seen[q]]]
  /\ UNCHANGED <<revision, pathEdits, baseline, view, dirty, badScans>>

\* A budget or the deadline: an overflow batch that leaves the baseline alone;
\* an error of the file system leaves everything alone.
ScanFails ==
  /\ scan # NoScan /\ badScans < MaxBadScans
  /\ badScans' = badScans + 1 /\ scan' = NoScan
  /\ dirty' \in {dirty, TRUE}
  /\ UNCHANGED <<revision, pathEdits, baseline, view>>

\* Mutant: a batch that is exactly full is taken for the whole difference.
BatchIsCutOffByOne(n) == n > MaxChanges

\* diff_snapshots stops at max_changes, so a full batch may be cut short.
BatchIsCut(n) == n >= MaxChanges

PollEnds ==
  /\ scan.why = "poll" /\ scan.left = {}
  /\ LET differs == {p \in Paths : scan.seen[p] # baseline[p]} IN
       \E told \in SUBSET differs :
         /\ Cardinality(told) = IF Cardinality(differs) < MaxChanges THEN Cardinality(differs)
                                ELSE MaxChanges
         /\ view' = [p \in Paths |-> IF p \in told THEN scan.seen[p] ELSE view[p]]
         /\ dirty' = BatchIsCut(Cardinality(told))
  /\ baseline' = scan.seen /\ scan' = NoScan
  /\ UNCHANGED <<revision, pathEdits, badScans>>

\* rescan reports no changes: the client lists the workspace anew.
RescanEnds ==
  /\ scan.why = "rescan" /\ scan.left = {}
  /\ baseline' = scan.seen /\ scan' = NoScan
  /\ view' = revision /\ dirty' = FALSE
  /\ UNCHANGED <<revision, pathEdits, badScans>>

DetectorStep == ScanStarts \/ (\E p \in Paths : ScanEntry(p)) \/ PollEnds \/ RescanEnds

DetectorNext == DetectorStep \/ ScanFails \/ \E p \in Paths : EditPath(p)

\* The client polls as long as it lives; edits and failures owe nothing.
DetectorSpec == DetectorInit /\ [][DetectorNext]_detectorVars /\ WF_detectorVars(DetectorStep)

-----------------------------------------------------------------------------
\* Once the edits stop the client catches up with the disk: no cut batch,
\* overflow, failed scan or edit in the middle of one loses a change.
ClientCatchesUp == (pathEdits = MaxPathEdits /\ MaxPathEdits > 0) ~> (view = revision)
=============================================================================
