------------------------------ MODULE Settings ------------------------------
(***************************************************************************)
(* The settings store: a primary document and one backup, replaced through  *)
(* temporary files, read back with a stricter parser than the one that      *)
(* admits a save, by windows that hold older revisions.  A crash or an I/O   *)
(* error may come between any two file operations.                          *)
(***************************************************************************)
EXTENDS Naturals, Sequences

CONSTANTS
  Windows,        \* windows that edit settings
  KeyKinds,       \* spellings of configuration keys that the windows use
  ServerShapes,   \* the tool servers they fill in
  ProfileShapes,  \* the model profiles they fill in
  MaxRevision,    \* saved revisions (a bound of the model)
  MaxDamage,      \* times something else spoils the primary file
  MaxSettingsFaults \* crashes and I/O errors (a bound of the model)

\* One tool server as an editor may fill it in: what it was given besides its
\* endpoint, its authentication, and the name and credential that goes with it.
AnyServer ==
  [transport : {"stdio", "streamable_http"}, extras : SUBSET {"local", "remote"},
   auth : {"unset", "none", "env", "bearer", "header"}, name : {"absent", "fit", "taken"},
   credential : BOOLEAN, oldCredential : BOOLEAN, enabled : BOOLEAN]

\* One model profile: its texts, its protocol and the server it selects.
AnyProfile ==
  [text : {"plain", "control"}, protocol : {"messages", "responses"},
   selects : {"all", "server", "unknown", "twice"}]

ASSUME SettingsAssumption ==
  /\ ServerShapes \subseteq AnyServer /\ ProfileShapes \subseteq AnyProfile
  /\ KeyKinds \subseteq {"plain", "underscored", "dashed"}
  /\ MaxRevision \in Nat /\ MaxDamage \in {0, 1} /\ MaxSettingsFaults \in Nat

VARIABLES
  file,     \* "primary", "backup" -> Missing, Spoiled or a document
  tx,       \* the transaction under the store's lock
  known,    \* window -> the revision it has loaded or saved
  acked,    \* ghost: the highest revision whose save was reported done
  damage,   \* ghost: times the primary was spoiled
  broken    \* crashes and I/O errors so far

settingsVars == <<file, tx, known, acked, damage, broken>>

Document(rev, key) == [rev |-> rev, key |-> key, schema |-> "current"]
Missing == [rev |-> 0, key |-> "missing", schema |-> "none"]
Spoiled == [rev |-> 0, key |-> "spoiled", schema |-> "none"]
Legacy == [rev |-> 0, key |-> "plain", schema |-> "legacy"]

NoTx == [kind |-> "none", todo |-> <<>>, at |-> "write", old |-> Missing, who |-> "none", rev |-> 0]

SettingsInit ==
  /\ file \in {[f \in {"primary", "backup"} |-> IF f = "primary" THEN p ELSE Missing] :
                  p \in {Missing, Legacy}}
  /\ tx = NoTx /\ known = [w \in Windows |-> 0]
  /\ acked = 0 /\ damage = 0 /\ broken = 0

-----------------------------------------------------------------------------
(* What a document must be. *)

\* valid_env_name, valid_header_name: a name is there, and no plain entry has it.
NameFits(server) == server.name = "fit"

\* The transport and authentication matrix of validate_mcp_shape.
AuthHolds(server) ==
  \/ server.auth = "unset"
  \/ /\ ~server.oldCredential
     /\ \/ server.auth = "none" /\ server.name = "absent" /\ ~server.credential
        \/ server.auth = "env" /\ server.transport = "stdio" /\ NameFits(server) /\ server.credential
        \/ /\ server.auth = "bearer" /\ server.transport = "streamable_http"
           /\ server.name = "absent" /\ server.credential
        \/ /\ server.auth = "header" /\ server.transport = "streamable_http"
           /\ NameFits(server) /\ server.credential

\* validate_mcp_shape: arguments and environment are stdio's, headers and queries http's.
ShapeHolds(server) ==
  /\ server.extras \subseteq (IF server.transport = "stdio" THEN {"local"} ELSE {"remote"})
  /\ AuthHolds(server)

\* validate_text, validate_revision_list: texts are plain, references unique and known.
TextHolds(profile) == profile.text = "plain"
SelectionHolds(profile, server) ==
  profile.selects = "all" \/ (profile.selects = "server" /\ server.enabled)

\* contains_sensitive_config_key looks for api_key, apikey, token ... in the
\* lower-cased key as it is spelt.
KeyHolds(key) == key # "underscored"

\* SettingsDocument::validate.
Validates(doc, server, profile) ==
  /\ TextHolds(profile) /\ SelectionHolds(profile, server)
  /\ profile.protocol # "responses"
  /\ ShapeHolds(server) /\ KeyHolds(doc.key)

\* parse_document: is_sensitive_key drops the separators before it looks.
Readable(doc) == doc \notin {Missing, Spoiled} /\ doc.key = "plain"

\* load_current_locked: the primary unless it is gone, then the backup.
Current ==
  IF file["primary"] # Missing THEN file["primary"] ELSE file["backup"]

\* load: the primary, else the backup, else a default when there is no file.
LoadResult ==
  IF Readable(file["primary"]) THEN file["primary"]
  ELSE IF Readable(file["backup"]) THEN file["backup"]
  ELSE IF file["primary"] = Missing /\ file["backup"] = Missing THEN Document(0, "plain")
  ELSE Spoiled

-----------------------------------------------------------------------------
(* Transactions: file replacements in order, then the answer. *)

Begin(w, rev, writes) ==
  /\ tx' = [NoTx EXCEPT !.kind = "write", !.todo = writes, !.who = w, !.rev = rev]
  /\ UNCHANGED <<file, known, acked, damage, broken>>

\* Mutant: the primary is replaced before the backup is taken.
PersistWritesLate(doc, backupCurrent) ==
  IF backupCurrent /\ file["primary"] # Missing
  THEN <<<<"primary", doc>>, <<"backup", file["primary"]>>>>
  ELSE <<<<"primary", doc>>>>

\* persist_document_locked: the backup of a valid primary comes first.
PersistWrites(doc, backupCurrent) ==
  IF backupCurrent /\ file["primary"] # Missing
  THEN <<<<"backup", file["primary"]>>, <<"primary", doc>>>>
  ELSE <<<<"primary", doc>>>>

\* compare_and_save: the caller's revision is the current one, the document the next.
CompareAndSave(w, key, server, profile) ==
  /\ tx = NoTx /\ known[w] < MaxRevision
  /\ Current = Missing \/ Readable(Current)
  /\ Current.rev = known[w]
  /\ LET doc == Document(known[w] + 1, key)
     IN Validates(doc, server, profile) /\ Begin(w, doc.rev, PersistWrites(doc, Current # Missing))

\* Refused: a revision conflict, an invalid document, or a primary that cannot be read.
SaveRefused(w, key, server, profile) ==
  /\ tx = NoTx
  /\ \/ Current.rev # known[w]
     \/ ~Validates(Document(known[w] + 1, key), server, profile)
     \/ Current # Missing /\ ~Readable(Current)
  /\ UNCHANGED settingsVars

\* load: a migrated primary is kept in the backup and rewritten; a backup that
\* was needed is written back over the primary.
Load(w) ==
  /\ tx = NoTx /\ LoadResult # Spoiled
  /\ LET doc == [LoadResult EXCEPT !.schema = "current"]
     IN IF file["primary"] = Legacy
        THEN Begin(w, doc.rev, <<<<"backup", Legacy>>, <<"primary", doc>>>>)
        ELSE IF ~Readable(file["primary"]) /\ Readable(file["backup"])
        THEN Begin(w, doc.rev, PersistWrites(doc, FALSE))
        ELSE /\ known' = [known EXCEPT ![w] = doc.rev]
             /\ UNCHANGED <<file, tx, acked, damage, broken>>

LoadFails ==
  /\ tx = NoTx /\ LoadResult = Spoiled
  /\ UNCHANGED settingsVars

Target == Head(tx.todo)[1]
Advance == tx' = [tx EXCEPT !.todo = Tail(@), !.at = "write"]
Busy(at) == tx.kind = "write" /\ tx.todo # <<>> /\ tx.at = at
Faulty == broken < MaxSettingsFaults /\ broken' = broken + 1

\* atomic_replace: the synced temporary file is renamed over its target.
Replace ==
  /\ Busy("write")
  /\ file' = [file EXCEPT ![Target] = Head(tx.todo)[2]]
  /\ Advance /\ UNCHANGED <<known, acked, damage, broken>>

\* replace_existing where rename cannot overwrite: the target moves aside ...
MoveAside ==
  /\ Busy("write") /\ file[Target] # Missing
  /\ file' = [file EXCEPT ![Target] = Missing]
  /\ tx' = [tx EXCEPT !.at = "place", !.old = file[Target]]
  /\ UNCHANGED <<known, acked, damage, broken>>

\* ... and the new file takes its place.
Place ==
  /\ Busy("place")
  /\ file' = [file EXCEPT ![Target] = Head(tx.todo)[2]]
  /\ Advance /\ UNCHANGED <<known, acked, damage, broken>>

\* An I/O error: nothing happened, or the old file comes back or stays aside, or
\* the new one is in place and only the directory was not synced.
ReplaceFails ==
  /\ tx.kind = "write" /\ tx.todo # <<>> /\ Faulty
  /\ \E left \in {file[Target], Head(tx.todo)[2]} \cup (IF tx.at = "place" THEN {tx.old} ELSE {}) :
       file' = [file EXCEPT ![Target] = left]
  /\ tx' = NoTx /\ UNCHANGED <<known, acked, damage>>

\* The command returns its document.
Saved ==
  /\ tx.kind = "write" /\ tx.todo = <<>>
  /\ known' = [known EXCEPT ![tx.who] = tx.rev]
  /\ acked' = IF tx.rev > acked THEN tx.rev ELSE acked
  /\ tx' = NoTx /\ UNCHANGED <<file, damage, broken>>

\* The application dies; SettingsStore::new later drops temporary and displaced files.
SettingsCrash ==
  /\ Faulty /\ tx # NoTx
  /\ tx' = NoTx /\ known' = [w \in Windows |-> 0]
  /\ UNCHANGED <<file, acked, damage>>

\* Something else truncates or rewrites the primary.
Spoil ==
  /\ tx = NoTx /\ damage < MaxDamage /\ file["primary"] # Missing
  /\ file' = [file EXCEPT !["primary"] = Spoiled]
  /\ damage' = damage + 1 /\ UNCHANGED <<tx, known, acked, broken>>

SettingsNext ==
  \/ \E w \in Windows, key \in KeyKinds, server \in ServerShapes, profile \in ProfileShapes :
       CompareAndSave(w, key, server, profile) \/ SaveRefused(w, key, server, profile)
  \/ \E w \in Windows : Load(w)
  \/ LoadFails \/ Replace \/ MoveAside \/ Place \/ ReplaceFails \/ Saved \/ SettingsCrash \/ Spoil

SettingsSpec == SettingsInit /\ [][SettingsNext]_settingsVars

-----------------------------------------------------------------------------
(* Properties. *)

\* What the next load returns is never older than a save that was reported done,
\* wherever a crash or an I/O error fell (store.rs, persist_document_locked); and
\* one spoiled primary costs at most the newest revision.
SavedSurvives ==
  /\ damage = 0 => LoadResult # Spoiled /\ LoadResult.rev >= acked
  /\ damage = 1 => LoadResult = Spoiled \/ LoadResult.rev + 1 >= acked

\* A document that validate admitted can be read back: "malformed settings cannot
\* be persisted and later interpreted inconsistently" (model.rs, validate).
AdmittedIsReadable ==
  tx = NoTx /\ damage = 0 /\ file["primary"] # Missing => Readable(file["primary"])
=============================================================================
