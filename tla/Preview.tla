------------------------------ MODULE Preview ------------------------------
(***************************************************************************)
(* Preview windows: the registry of sessions, the web views that report     *)
(* navigations and titles to it, and the user interface that drains events. *)
(***************************************************************************)
EXTENDS Naturals, Sequences, FiniteSets

CONSTANTS
  PreviewIds,       \* sessions that may be opened
  Urls,             \* addresses
  BadUrls,          \* those validate_url refuses
  MaxPreviews,      \* max_sessions
  MaxPreviewEvents, \* max_event_count
  MaxNavigations,   \* of a session (a bound of the model)
  MaxTitled         \* events of a session after which its page changes no title (a bound)

ASSUME PreviewAssumption ==
  /\ BadUrls \subseteq Urls
  /\ MaxPreviews \in Nat \ {0} /\ MaxPreviewEvents \in Nat \ {0} /\ MaxNavigations \in Nat /\ MaxTitled \in Nat

VARIABLES
  preview,   \* id -> status, gen, url, title, q, next (sequence), dropped
  window,    \* id -> none, building, unwatched, open (Destroyed is watched), gone, lost
  loaded,    \* id -> the address whose page runs in the window
  shownGen,  \* id -> the generation shared by the window's callbacks
  drained    \* id -> events the user interface has taken: how many, the last number

previewVars == <<preview, window, loaded, shownGen, drained>>

NoPreview == [status |-> "none", gen |-> 0, url |-> "none", title |-> "none",
              q |-> <<>>, next |-> 1, dropped |-> 0]

PreviewInit ==
  /\ preview = [i \in PreviewIds |-> NoPreview]
  /\ window = [i \in PreviewIds |-> "none"]
  /\ loaded = [i \in PreviewIds |-> "none"]
  /\ shownGen = [i \in PreviewIds |-> 0]
  /\ drained = [i \in PreviewIds |-> [count |-> 0, last |-> 0]]

\* PreviewPolicy::validate_url: http or https, a host, no user information.
Admits(url) == url \notin BadUrls

\* Mutant: an event that makes room forgets to count what it dropped.
PushEventUncounted(s, kind) ==
  [s EXCEPT !.next = @ + 1,
            !.q = Append(IF Len(@) >= MaxPreviewEvents THEN Tail(@) ELSE @, <<s.next, kind>>)]

\* push_event: the oldest events make room and are counted.
PushEvent(s, kind) ==
  [s EXCEPT !.next = @ + 1,
            !.dropped = IF Len(s.q) >= MaxPreviewEvents THEN @ + 1 ELSE @,
            !.q = Append(IF Len(@) >= MaxPreviewEvents THEN Tail(@) ELSE @, <<s.next, kind>>)]

\* session_mut and ensure_open_generation: open, and the caller's generation.
OpenAt(i, gen) == preview[i].status = "open" /\ preview[i].gen = gen

Active == {i \in PreviewIds : preview[i].status = "open"}

\* ja_preview_open: the session first, then the window.
PreviewOpen(i, url) ==
  /\ preview[i].status = "none" /\ Admits(url)
  /\ Cardinality(Active) < MaxPreviews
  /\ preview' = [preview EXCEPT ![i] = PushEvent([NoPreview EXCEPT !.status = "open", !.gen = 1, !.url = url], "opened")]
  /\ window' = [window EXCEPT ![i] = "building"]
  /\ shownGen' = [shownGen EXCEPT ![i] = 1]
  /\ UNCHANGED <<loaded, drained>>

ClosedSession(s) == IF s.status = "open" THEN PushEvent([s EXCEPT !.status = "closed"], "closed") ELSE s

\* The window is built, or the session is closed again.
PreviewBuilt(i) ==
  /\ window[i] = "building"
  /\ \/ /\ window' = [window EXCEPT ![i] = "unwatched"]
        /\ loaded' = [loaded EXCEPT ![i] = preview[i].url]
        /\ UNCHANGED preview
     \/ /\ window' = [window EXCEPT ![i] = "gone"]
        /\ preview' = [preview EXCEPT ![i] = ClosedSession(@)]
        /\ UNCHANGED loaded
  /\ UNCHANGED <<shownGen, drained>>

\* on_window_event, a call after build: an end in between is not seen.
PreviewWatched(i) ==
  /\ window[i] = "unwatched"
  /\ window' = [window EXCEPT ![i] = "open"]
  /\ UNCHANGED <<preview, loaded, shownGen, drained>>

\* on_navigation: the callbacks' shared generation, then the commit.  The page
\* that navigates runs on until the new one has loaded.
PreviewNavigates(i, url) ==
  /\ window[i] \in {"unwatched", "open"} /\ Admits(url)
  /\ OpenAt(i, shownGen[i]) /\ shownGen[i] <= MaxNavigations
  /\ LET committed == [preview[i] EXCEPT !.gen = @ + 1, !.url = url, !.title = "none"]
     IN preview' = [preview EXCEPT ![i] = PushEvent(committed, "navigated")]
  /\ shownGen' = [shownGen EXCEPT ![i] = @ + 1]
  /\ UNCHANGED <<window, loaded, drained>>

PageLoads(i) ==
  /\ window[i] \in {"unwatched", "open"} /\ loaded[i] # preview[i].url
  /\ loaded' = [loaded EXCEPT ![i] = preview[i].url]
  /\ UNCHANGED <<preview, window, shownGen, drained>>

\* on_document_title_changed: the generation is the shared one.
PageTitled(i) ==
  /\ window[i] \in {"unwatched", "open"} /\ OpenAt(i, shownGen[i])
  /\ preview[i].next <= MaxTitled
  /\ preview' = [preview EXCEPT ![i] = PushEvent([@ EXCEPT !.title = loaded[i]], "title")]
  /\ UNCHANGED <<window, loaded, shownGen, drained>>

\* ja_preview_close and shutdown with close_preview_windows, and a window the
\* user closes.
PreviewClose(i) ==
  /\ preview[i].status # "none"
  /\ preview' = [preview EXCEPT ![i] = ClosedSession(@)]
  /\ window' = [window EXCEPT ![i] = IF @ \in {"unwatched", "open"} THEN "gone" ELSE @]
  /\ UNCHANGED <<loaded, shownGen, drained>>

PreviewDestroyed(i) ==
  /\ window[i] \in {"unwatched", "open"}
  /\ window' = [window EXCEPT ![i] = IF @ = "open" THEN "gone" ELSE "lost"]
  /\ preview' = [preview EXCEPT ![i] = IF window[i] = "open" THEN ClosedSession(@) ELSE @]
  /\ UNCHANGED <<loaded, shownGen, drained>>

\* drain_events.
PreviewDrain(i) ==
  /\ preview[i].q # <<>>
  /\ \E n \in 1..Len(preview[i].q) :
       /\ drained' = [drained EXCEPT ![i] = [count |-> @.count + n, last |-> preview[i].q[n][1]]]
       /\ preview' = [preview EXCEPT ![i].q = SubSeq(@, n + 1, Len(@))]
  /\ UNCHANGED <<window, loaded, shownGen>>

PreviewNext ==
  \E i \in PreviewIds :
    \/ PreviewBuilt(i) \/ PreviewWatched(i) \/ PageLoads(i) \/ PageTitled(i) \/ PreviewClose(i) \/ PreviewDestroyed(i)
    \/ PreviewDrain(i)
    \/ \E url \in Urls : PreviewOpen(i, url) \/ PreviewNavigates(i, url)

PreviewSpec == PreviewInit /\ [][PreviewNext]_previewVars

-----------------------------------------------------------------------------
\* However drains, drops, navigations and closes interleave, every event of a
\* session is drained, queued or counted as dropped, in order and once; a
\* closed session's last event says so, and a watched window that is gone has
\* given its place among the open sessions back.
PreviewAccounts ==
  \A i \in PreviewIds :
    LET s == preview[i]
    IN  /\ drained[i].count + Len(s.q) + s.dropped = s.next - 1
        /\ \A k \in 1..Len(s.q) : s.q[k][1] > (IF k = 1 THEN drained[i].last ELSE s.q[k - 1][1])
        /\ s.status = "closed" => s.q = <<>> \/ s.q[Len(s.q)][2] = "closed"
        /\ window[i] = "gone" => s.status = "closed"
=============================================================================
