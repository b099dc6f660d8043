------------------------------ MODULE Secrets ------------------------------
(***************************************************************************)
(* Credentials: the native keyring, the settings that refer to it, the     *)
(* snapshot a configuration freezes, and the sidecar that asks for         *)
(* secrets.                                                                *)
(***************************************************************************)

EXTENDS Naturals, Sequences

CONSTANTS
  Refs,       \* credential references
  Profiles,   \* profile revisions
  Revisions,  \* MCP revisions
  Documents   \* settings documents the user may save (a bound of the model)

NoRef == "no_ref"

\* An MCP server of the settings; an explicit authentication and the older alias
\* exclude each other (validate_mcp_shape).
ServerSettings ==
  {v \in [rev : Revisions, explicit : BOOLEAN, auth : Refs \cup {NoRef},
          alias : Refs \cup {NoRef}, enabled : BOOLEAN] :
     IF v.explicit THEN v.alias = NoRef ELSE v.auth = NoRef}

\* What the documents hold: the active profile, each profile's reference, the servers
\* in order, and the revisions the active profile names, unless it takes them all.
\* Nothing says that two servers have two revisions.
ASSUME SecretsAssumption ==
  Documents \subseteq [active : Profiles, model : [Profiles -> Refs \cup {NoRef}],
                      mcp : Seq(ServerSettings), all : BOOLEAN, chosen : SUBSET Revisions]

VARIABLES
  keyring,   \* account -> which secret it holds
  draft,     \* the settings document
  frozen,    \* RuntimeReplayConfig of the running bridge
  told,      \* what the replay told this bridge's sidecar
  handed     \* the last answer to secret/get: its request and the secret

secretsVars == <<keyring, draft, frozen, told, handed>>

Purposes == {"model", "mcp"}
NoSecret == <<"none", NoRef>>
NoSnapshot == [profile |-> "none", model |-> NoRef, mcp |-> <<>>]
NotHanded == [purpose |-> "none", ref |-> NoRef, profile |-> "none", server |-> "none", secret |-> NoSecret]

\* account_name: the purpose separates the accounts.
AccountName(purpose, ref) == <<purpose, ref>>

Accounts == Purposes \X Refs

\* iter().find: server i is the first of servers m with that revision.
Finds(m, revision, i) ==
  /\ i \in DOMAIN m /\ m[i].rev = revision
  /\ \A j \in DOMAIN m : m[j].rev = revision => i <= j

\* SettingsDocument::validate: a profile names servers that are there and enabled.
Validates(d) ==
  \A r \in d.chosen : \E i \in DOMAIN d.mcp : Finds(d.mcp, r, i) /\ d.mcp[i].enabled

SecretsInit ==
  /\ keyring = [a \in Accounts |-> NoSecret]
  /\ draft \in {d \in Documents : Validates(d)}
  /\ frozen = NoSnapshot /\ told = NoSnapshot /\ handed = NotHanded

\* ja_settings_set_credential, ja_settings_delete_credential
SetCredential(purpose, ref) ==
  /\ keyring' = [keyring EXCEPT ![AccountName(purpose, ref)] = <<purpose, ref>>]
  /\ UNCHANGED <<draft, frozen, told, handed>>

DeleteCredential(purpose, ref) ==
  /\ keyring' = [keyring EXCEPT ![AccountName(purpose, ref)] = NoSecret]
  /\ UNCHANGED <<draft, frozen, told, handed>>

\* A saved edit of the settings.
EditSettings ==
  /\ draft' \in {d \in Documents : Validates(d)}
  /\ UNCHANGED <<keyring, frozen, told, handed>>

\* RuntimeReplayConfig::mcp_credential
Credential(server) == IF server.auth # NoRef THEN server.auth ELSE server.alias

\* The servers a new bridge runs with: those enabled, and of those the first with
\* each revision the profile names, if it names any.
Enabled(d) == {i \in DOMAIN d.mcp : d.mcp[i].enabled}
Selected(d) ==
  {i \in Enabled(d) :
     \/ d.all
     \/ /\ d.mcp[i].rev \in d.chosen
        /\ \A j \in Enabled(d) : d.mcp[j].rev = d.mcp[i].rev => i <= j}

\* RuntimeReplayConfig::from_input, for a new bridge and its new sidecar.
Freeze ==
  /\ frozen' = [profile |-> draft.active, model |-> draft.model[draft.active],
                mcp |-> [i \in Selected(draft) |-> draft.mcp[i]]]
  /\ told' = NoSnapshot /\ UNCHANGED <<keyring, draft, handed>>

\* mcp_params: an explicit authentication as it is, else one made from the alias.
ToldCredential(server) == IF server.explicit THEN server.auth ELSE server.alias

\* The replay to the sidecar: mcp_params of each server, profile_params of the profile.
Replay ==
  /\ frozen # NoSnapshot
  /\ told' = [frozen EXCEPT !.mcp = [i \in DOMAIN frozen.mcp |->
                 [rev |-> frozen.mcp[i].rev, ref |-> ToldCredential(frozen.mcp[i])]]]
  /\ UNCHANGED <<keyring, draft, frozen, handed>>

\* Mutant: a server that holds the reference is taken for the one that was named.
OwnsByReference(q) ==
  /\ frozen # NoSnapshot /\ q.profile = frozen.profile
  /\ \/ q.purpose = "model" /\ q.server = "none" /\ q.ref = frozen.model
     \/ /\ q.purpose = "mcp" /\ q.server # "none"
        /\ \E i \in DOMAIN frozen.mcp : q.ref = Credential(frozen.mcp[i])

\* resolve_secret: purpose, revision and ownership, before the keyring is asked.
Owns(q) ==
  /\ frozen # NoSnapshot /\ q.profile = frozen.profile
  /\ \/ q.purpose = "model" /\ q.server = "none" /\ q.ref = frozen.model
     \/ /\ q.purpose = "mcp"
        /\ \E i \in DOMAIN frozen.mcp :
             Finds(frozen.mcp, q.server, i) /\ q.ref = Credential(frozen.mcp[i])

\* RuntimeSecretDelivery: handed over once, unless the keyring fails, the delivery
\* expired or its bytes are no text.
Deliveries(secret) == {secret, NoSecret}

\* A sidecar may also ask in the name of a revision that was edited away.
Requests ==
  [purpose : Purposes, ref : Refs, profile : Profiles \cup {"gone"}, server : Revisions \cup {"none"}]

\* A request together with the secret it was answered with.
Answer(q, secret) ==
  [purpose |-> q.purpose, ref |-> q.ref, profile |-> q.profile, server |-> q.server, secret |-> secret]

\* respond_secret_request: the secret, SECRET_NOT_FOUND or SECRET_ACCESS_DENIED.
AskSecret(q) ==
  /\ \E secret \in Deliveries(keyring[AccountName(q.purpose, q.ref)]) :
       handed' = IF Owns(q) /\ secret # NoSecret
                 THEN Answer(q, secret)
                 ELSE NotHanded
  /\ UNCHANGED <<keyring, draft, frozen, told>>

SecretsNext ==
  \/ \E p \in Purposes, r \in Refs : SetCredential(p, r) \/ DeleteCredential(p, r)
  \/ EditSettings \/ Freeze \/ Replay
  \/ \E q \in Requests : AskSecret(q)

SecretsSpec == SecretsInit /\ [][SecretsNext]_secretsVars

\* A secret leaves the keyring only for a reference that the running snapshot
\* gives to that very purpose and revision, and it is the secret the user stored
\* for that purpose: no edit of the settings, deletion, replayed snapshot, reused
\* reference or repeated revision moves a secret from a model to a server, or from
\* one server to another (bridge.rs, resolve_secret; credentials.rs).
SecretStaysWithOwner ==
  [][handed' # handed /\ handed' # NotHanded =>
       /\ handed'.secret = <<handed'.purpose, handed'.ref>>
       /\ handed'.profile = frozen.profile
       /\ handed'.purpose = "model" => handed'.server = "none" /\ handed'.ref = frozen.model
       /\ handed'.purpose = "mcp" =>
            \E i \in DOMAIN frozen.mcp :
              /\ frozen.mcp[i].rev = handed'.server
              /\ handed'.ref \in {frozen.mcp[i].auth, frozen.mcp[i].alias}]_secretsVars

\* Every credential the sidecar was told of is one it will be granted: what
\* mcp_params writes into the replay and what resolve_secret compares with are two
\* readings of the same settings (config.rs, mcp_params and mcp_credential).  Of
\* servers that share a revision, which validate admits, only the first is granted.
ToldIsGranted ==
  /\ told.model # NoRef =>
       Owns([purpose |-> "model", ref |-> told.model, profile |-> told.profile, server |-> "none"])
  /\ \A i \in DOMAIN told.mcp :
       told.mcp[i].ref # NoRef /\ (\A j \in DOMAIN told.mcp : told.mcp[j].rev = told.mcp[i].rev => i <= j)
       => Owns([purpose |-> "mcp", ref |-> told.mcp[i].ref, profile |-> told.profile,
                server |-> told.mcp[i].rev])

\* The sidecar is granted what it was told of, and nothing else is handed to it
\* (bridge.rs, respond_secret_request).
SecretsGoToTheirOwners == SecretStaysWithOwner /\ []ToldIsGranted
=============================================================================
