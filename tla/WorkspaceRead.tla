--------------------------- MODULE WorkspaceRead ---------------------------
(***************************************************************************)
(* Reading a workspace that somebody else edits: one bounded file read and  *)
(* the paged listing of one directory, against an editor that rewrites,     *)
(* replaces and removes entries between any two system calls.               *)
(***************************************************************************)
EXTENDS Naturals, Sequences, FiniteSets

CONSTANTS
  EntryNames,   \* names in the directory, as numbers: the order of a listing
  TheFile,      \* the one the file reader is asked for
  PageSize,     \* max_page_size
  OnWindows,    \* the platform
  MaxFileEdits  \* edits of the directory (a bound of the model)

ASSUME WorkspaceReadAssumption ==
  /\ EntryNames \subseteq Nat /\ IsFiniteSet(EntryNames) /\ TheFile \in EntryNames
  /\ PageSize \in Nat \ {0} /\ OnWindows \in BOOLEAN /\ MaxFileEdits \in Nat

VARIABLES
  dirId,     \* the workspace root on disk: id (physical identity), link
  admitted,  \* WorkspaceRegistry: a root is registered, and its identity
  entries,   \* name -> kind, id (physical identity), body, mtime
  fileEdits, \* edits so far
  fileRead,  \* FileReader::read: pc, the resolved chain, revisions, bytes, seen edits
  page,      \* TreeReader::read_page: pc, the request, what it holds
  browser    \* the pages the user interface has put together

workspaceReadVars == <<dirId, admitted, entries, fileEdits, fileRead, page, browser>>

NoEntry == [kind |-> "none", id |-> 0, body |-> "none", mtime |-> 0]
Bodies == {"a", "b", "huge", "blob"}

\* FileRevision: kind, size, time of change and, up to hash_limit, the digest.
\* Rewriting within one tick of the file system clock leaves the time alone.
Revision(e) ==
  [kind |-> e.kind, huge |-> e.body = "huge", mtime |-> e.mtime,
   sha |-> IF e.kind = "file" /\ e.body # "huge" THEN e.body ELSE "none"]

\* What metadata_for_path compares with the stat it was given.
Stat(e) == [kind |-> e.kind, huge |-> e.body = "huge", mtime |-> e.mtime]

\* decode_content: UTF-8 or marked UTF-16 is text, the rest has none.
TextDecoded(bytes) == IF bytes = "blob" THEN "binary" ELSE "text"

\* read_to_end through the path: File::open follows a link.
BytesOf(e) == IF e.kind = "link" THEN "outside" ELSE e.body

\* A file's physical identity survives a rewrite and not a replacement.
PhysicalIdentity(e) == e.id

\* reject_link_components: no component of the path is a link or a junction.
LinkFree(d) == ~d.link

\* verify_root_identity: the directory that was admitted, and no link to it.
RootHolds(root) == LinkFree(dirId) /\ PhysicalIdentity(dirId) = root

\* hard_link_count: a second name may be outside the workspace.
OneName(e) == e.kind # "hard"

\* verify_resolved: the same root and the same entry, neither a link nor a file
\* with a second name.
StillThere(chain) ==
  /\ RootHolds(chain.dir)
  /\ entries[TheFile].kind = "file" /\ PhysicalIdentity(entries[TheFile]) = chain.id

Idle == [pc |-> "idle", chain |-> [dir |-> 0, id |-> 0], before |-> Revision(NoEntry),
         after |-> Revision(NoEntry), bytes |-> "none", since |-> 0]

NoPage == [pc |-> "idle", dir |-> 0, names |-> <<>>, stats |-> <<>>, token |-> {}, start |-> 0, out |-> <<>>]

WorkspaceReadInit ==
  /\ dirId = [id |-> 0, link |-> FALSE] /\ admitted = [in |-> FALSE, root |-> 0]
  /\ entries \in [EntryNames -> {NoEntry, [kind |-> "file", id |-> 1, body |-> "a", mtime |-> 0]}]
  /\ fileEdits = 0 /\ fileRead = Idle /\ page = NoPage
  /\ browser = [got |-> <<>>, token |-> {}, whole |-> FALSE]

(***************************************************************************)
(* The editor.                                                             *)
(***************************************************************************)
\* Rewritten in place, replaced by a rename, or removed.
Edited(e) ==
  {NoEntry}
    \cup [kind : {"file"} \cap {e.kind}, id : {e.id}, body : Bodies, mtime : {e.mtime, fileEdits + 1}]
    \cup [kind : {"file", "link", "hard"}, id : {fileEdits + 2}, body : {"b"}, mtime : {fileEdits + 1}]

EditEntry(n) ==
  /\ fileEdits < MaxFileEdits /\ fileEdits' = fileEdits + 1
  /\ \E e \in Edited(entries[n]) \ {entries[n]} : entries' = [entries EXCEPT ![n] = e]
  /\ UNCHANGED <<dirId, admitted, fileRead, page, browser>>

\* Another directory with the same entries, or a link, takes the root's place.
ReplaceDirectory ==
  /\ fileEdits < MaxFileEdits /\ fileEdits' = fileEdits + 1
  /\ \E link \in BOOLEAN : dirId' = [id |-> fileEdits + 1, link |-> link]
  /\ UNCHANGED <<admitted, entries, fileRead, page, browser>>

(***************************************************************************)
(* WorkspaceRegistry.                                                      *)
(***************************************************************************)
\* register: no link on the way to the root; its identity is kept.
Register ==
  /\ ~admitted.in /\ LinkFree(dirId)
  /\ admitted' = [in |-> TRUE, root |-> PhysicalIdentity(dirId)]
  /\ UNCHANGED <<dirId, entries, fileEdits, fileRead, page, browser>>

\* remove: an operation that holds a handle goes on with it.
Unregister ==
  /\ admitted.in
  /\ admitted' = [admitted EXCEPT !.in = FALSE]
  /\ UNCHANGED <<dirId, entries, fileEdits, fileRead, page, browser>>

(***************************************************************************)
(* FileReader::read.                                                       *)
(***************************************************************************)
ReadTo(pc) == fileRead' = [fileRead EXCEPT !.pc = pc]
KeepOthers == UNCHANGED <<dirId, admitted, entries, fileEdits, page, browser>>

\* A relative path by what admission looks at; "device" is a name that only
\* Windows reads as something else.
PathShapes == {"plain", "absolute", "parent", "device"}

\* validate_relative_path, is_windows_ambiguous_component.
ValidPath(shape) == shape \in {"plain"} \cup (IF OnWindows THEN {} ELSE {"device"})

\* resolve_guard: no link on the way, a regular file with one name.  A read and
\* a listing share nothing: they are taken one after the other.
ReadResolves(shape) ==
  /\ fileRead.pc = "idle" /\ page = NoPage /\ browser.got = <<>>
  /\ admitted.in
  /\ fileRead' = [Idle EXCEPT !.pc = IF /\ ValidPath(shape) /\ RootHolds(admitted.root)
                                        /\ shape = "plain" /\ entries[TheFile].kind = "file"
                                     THEN "verified" ELSE "error",
                              !.chain = [dir |-> admitted.root, id |-> PhysicalIdentity(entries[TheFile])],
                              !.since = fileEdits]
  /\ KeepOthers

ReadStats ==
  /\ fileRead.pc = "verified"
  /\ IF entries[TheFile].kind = "none" \/ ~OneName(entries[TheFile]) THEN ReadTo("error")
     ELSE fileRead' = [fileRead EXCEPT !.before = Revision(entries[TheFile]),
                                       !.pc = IF Revision(entries[TheFile]).huge THEN "large" ELSE "open"]
  /\ KeepOthers

ReadLarge ==
  /\ fileRead.pc = "large"
  /\ ReadTo(IF StillThere(fileRead.chain) THEN "too large" ELSE "error")
  /\ KeepOthers

ReadBytes ==
  /\ fileRead.pc = "open"
  /\ IF entries[TheFile].kind = "none" THEN ReadTo("error")
     ELSE fileRead' = [fileRead EXCEPT !.bytes = BytesOf(entries[TheFile]), !.pc = "stat again"]
  /\ KeepOthers

ReadStatsAgain ==
  /\ fileRead.pc = "stat again"
  /\ IF entries[TheFile].kind = "none" \/ ~OneName(entries[TheFile]) THEN ReadTo("error")
     ELSE fileRead' = [fileRead EXCEPT !.after = Revision(entries[TheFile]), !.pc = "compare"]
  /\ KeepOthers

\* Mutant: the two revisions are not compared.
SameRevisionAssumed == TRUE

SameRevision == fileRead.before = fileRead.after

ReadEnds ==
  /\ fileRead.pc = "compare"
  /\ ReadTo(IF ~SameRevision \/ ~StillThere(fileRead.chain) THEN "error"
            ELSE IF fileRead.bytes = "huge" THEN "too large" ELSE TextDecoded(fileRead.bytes))
  /\ KeepOthers

ReadAgain ==
  /\ fileRead.pc \in {"error", "text", "binary", "too large"}
  /\ fileRead' = Idle
  /\ KeepOthers

(***************************************************************************)
(* TreeReader::read_page.                                                  *)
(***************************************************************************)
PageTo(pc) == page' = [page EXCEPT !.pc = pc]
KeepPageOthers == UNCHANGED <<dirId, admitted, entries, fileEdits, fileRead>>

\* read_dir and the sort by name.
Listing ==
  LET there == {n \in EntryNames : entries[n].kind # "none"}
  IN  [i \in 1..Cardinality(there) |->
         CHOOSE n \in there : Cardinality({m \in there : m < n}) = i - 1]

\* The first page has no token; a cursor needs one.
PageRequested ==
  /\ page.pc = "idle" /\ ~browser.whole /\ fileRead.pc = "idle"
  /\ admitted.in
  /\ IF RootHolds(admitted.root)
     THEN page' = [NoPage EXCEPT !.pc = "hash", !.dir = admitted.root, !.names = Listing,
                                 !.stats = [i \in 1..Len(Listing) |-> Stat(entries[Listing[i]])],
                                 !.start = Len(browser.got)]
     ELSE PageTo("error")
  /\ KeepPageOthers /\ UNCHANGED browser

\* metadata_for_path: an entry that vanished, has a second name or is not what
\* the listing saw fails the page.
Unmoved(i) ==
  LET e == entries[page.names[i]] IN OneName(e) /\ Stat(e) = page.stats[i]

\* The token covers every name with its revision.
PageHashed ==
  /\ page.pc = "hash"
  /\ LET names == {page.names[i] : i \in 1..Len(page.names)} IN
       IF \E i \in 1..Len(page.names) : ~Unmoved(i) THEN PageTo("error")
       ELSE page' = [page EXCEPT !.pc = "check",
                                 !.token = {<<n, Revision(entries[n])>> : n \in names}]
  /\ KeepPageOthers /\ UNCHANGED browser

TokenAgrees == browser.got = <<>> \/ browser.token = page.token

PageChecked ==
  /\ page.pc = "check"
  /\ IF RootHolds(page.dir) /\ TokenAgrees
     THEN page' = [page EXCEPT !.pc = "take",
                               !.out = SubSeq(page.names, page.start + 1,
                                              IF page.start + PageSize < Len(page.names)
                                              THEN page.start + PageSize ELSE Len(page.names))]
     ELSE PageTo("error")
  /\ KeepPageOthers /\ UNCHANGED browser

\* The metadata of the page's entries is read again.
PageTaken ==
  /\ page.pc = "take"
  /\ IF \/ \E i \in page.start + 1..page.start + Len(page.out) : ~Unmoved(i)
        \/ ~RootHolds(page.dir)
     THEN PageTo("error") /\ UNCHANGED browser
     ELSE /\ page' = NoPage
          /\ browser' = [got |-> browser.got \o page.out, token |-> page.token,
                         whole |-> page.start + Len(page.out) >= Len(page.names)]
  /\ KeepPageOthers

\* A stale cursor, a failed page or a finished listing starts over.
BrowseAgain ==
  /\ page.pc = "error" \/ browser.whole
  /\ page' = NoPage
  /\ browser' = [got |-> <<>>, token |-> {}, whole |-> FALSE]
  /\ KeepPageOthers

WorkspaceReadNext ==
  \/ \E n \in EntryNames : EditEntry(n)
  \/ ReplaceDirectory \/ Register \/ Unregister
  \/ \E shape \in PathShapes : ReadResolves(shape)
  \/ ReadStats \/ ReadLarge \/ ReadBytes \/ ReadStatsAgain \/ ReadEnds \/ ReadAgain
  \/ PageRequested \/ PageHashed \/ PageChecked \/ PageTaken \/ BrowseAgain

WorkspaceReadSpec == WorkspaceReadInit /\ [][WorkspaceReadNext]_workspaceReadVars

-----------------------------------------------------------------------------
\* An edit that falls anywhere into a read makes it fail or is told by its
\* revision: the text handed out is the one the revision's digest names, and it
\* is the workspace's own.  (Two edits that undo each other within a tick are
\* not noticed.)
ReadIsConsistent ==
  (fileRead.pc = "text" /\ fileEdits <= fileRead.since + 1) =>
    fileRead.bytes = fileRead.after.sha

\* Pages put together over any number of edits are one listing: every name of
\* the snapshot once, in order.
PagesAreOneListing ==
  browser.whole =>
    /\ {browser.got[i] : i \in 1..Len(browser.got)} = {t[1] : t \in browser.token}
    /\ \A i, j \in 1..Len(browser.got) : i < j => browser.got[i] < browser.got[j]

\* Whatever is edited meanwhile, an answer describes one state of the workspace
\* (content.rs, read; tree.rs, read_page).
AnswersAreSnapshots == ReadIsConsistent /\ PagesAreOneListing
=============================================================================
