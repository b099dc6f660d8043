----------------------------- MODULE TextSearch -----------------------------
(***************************************************************************)
(* The literal text search over a workspace, with its budgets of depth,     *)
(* entries, results and time.                                               *)
(***************************************************************************)
EXTENDS Naturals, Sequences

CONSTANTS
  MaxDepth,      \* max_depth
  MaxEntries,    \* max_entries
  MaxResults     \* max_results

ASSUME TextSearchAssumption ==
  MaxDepth \in Nat /\ MaxEntries \in Nat \ {0} /\ MaxResults \in Nat \ {0}

VARIABLES
  tree,      \* directory -> its entries in read_dir order
  kindOf,    \* file -> its number of matches, or another kind
  walk       \* pc, queue of directories, entries left, counters

searchVars == <<tree, kindOf, walk>>

(***************************************************************************)
(* TextSearch::search.  The tree has a directory, perhaps next to a file, at *)
(* the top and, in the directory, a file, an empty directory or nothing.   *)
(***************************************************************************)
Matches == [one |-> 1, two |-> 2, none |-> 0]
FileKinds == {"one", "two", "none", "binary", "big", "link", "hard"}

\* A text file small enough to be read.
Searchable ==
  {e \in {"f", "g"} : /\ kindOf[e] \in DOMAIN Matches
                      /\ \E d \in {"top", "d"} : \E i \in DOMAIN tree[d] : tree[d][i] = e}

SearchInit ==
  /\ tree \in [top : {<<"d">>, <<"f", "d">>, <<"d", "f">>}, d : {<<>>, <<"g">>, <<"e">>}, e : {<<>>}]
  /\ kindOf \in [{"f", "g"} -> FileKinds]
  /\ walk = [pc |-> "next", queue |-> <<[dir |-> "top", depth |-> 0]>>, left |-> <<>>,
             depth |-> 0, hits |-> 0, scanned |-> 0, truncated |-> FALSE]

Walk(w) == walk' = w /\ UNCHANGED <<tree, kindOf>>

\* The next directory; one below max_depth is never queued.
SearchDirectory ==
  /\ walk.pc = "next" /\ walk.queue # <<>>
  /\ Walk([walk EXCEPT !.pc = "entry", !.queue = Tail(@), !.left = tree[Head(walk.queue).dir],
                       !.depth = Head(walk.queue).depth])

\* Mutant: reaching the budget is not reported.
OverBudgetSilently(w) == [w EXCEPT !.left = <<>>]

\* The entry budget ends the directory, and with it the walk.
OverBudget(w) == [w EXCEPT !.left = <<>>, !.truncated = TRUE]

\* append_hits, and the return when the result cap is reached.
Found(w, n) ==
  LET total == w.hits + n IN
    [w EXCEPT !.hits = IF total > MaxResults THEN MaxResults ELSE total,
              !.truncated = @ \/ (n > 0 /\ total >= MaxResults),
              !.pc = IF n > 0 /\ total >= MaxResults THEN "ok" ELSE "entry"]

SearchEntry ==
  /\ walk.pc = "entry" /\ walk.left # <<>>
  /\ LET e == Head(walk.left)
         w == [walk EXCEPT !.left = Tail(@), !.scanned = @ + 1]
     IN  Walk(IF w.scanned > MaxEntries THEN OverBudget(w)
              ELSE IF e \in {"d", "e"} THEN
                IF w.depth < MaxDepth
                THEN [w EXCEPT !.queue = Append(@, [dir |-> e, depth |-> w.depth + 1])]
                ELSE [w EXCEPT !.truncated = TRUE]
              ELSE IF kindOf[e] = "link" \/ kindOf[e] = "binary" THEN w
              ELSE IF kindOf[e] = "hard" THEN [w EXCEPT !.pc = "error"]
              ELSE IF kindOf[e] = "big" THEN [w EXCEPT !.truncated = TRUE]
              ELSE Found(w, Matches[kindOf[e]]))

SearchDirectoryEnds ==
  /\ walk.pc = "entry" /\ walk.left = <<>>
  /\ Walk([walk EXCEPT !.pc = IF walk.truncated /\ walk.scanned >= MaxEntries THEN "ok" ELSE "next"])

SearchEnds ==
  /\ walk.pc = "next" /\ walk.queue = <<>>
  /\ Walk([walk EXCEPT !.pc = "ok"])

\* Between entries the deadline returns what there is; within a file it fails.
SearchTimesOut ==
  /\ walk.pc \in {"next", "entry"}
  /\ \/ Walk([walk EXCEPT !.pc = "ok", !.truncated = TRUE])
     \/ Walk([walk EXCEPT !.pc = "error"])

SearchNext ==
  SearchDirectory \/ SearchEntry \/ SearchDirectoryEnds \/ SearchEnds \/ SearchTimesOut

SearchSpec == SearchInit /\ [][SearchNext]_searchVars

-----------------------------------------------------------------------------
\* A search that says it is complete is: every match of every readable text
\* file is in it, whatever the order of the listing and the budgets.
SearchIsHonest ==
  walk.pc = "ok" /\ ~walk.truncated =>
    walk.hits = (IF "f" \in Searchable THEN Matches[kindOf["f"]] ELSE 0)
                + (IF "g" \in Searchable THEN Matches[kindOf["g"]] ELSE 0)
=============================================================================
