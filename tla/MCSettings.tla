----------------------------- MODULE MCSettings -----------------------------
(* The settings that two windows write.                                     *)
EXTENDS Settings

\* A stdio server with a name of its own and a remote one whose name is taken.
Server(transport, extras, auth, name, credential) ==
  [transport |-> transport, extras |-> extras, auth |-> auth, name |-> name,
   credential |-> credential, oldCredential |-> FALSE, enabled |-> TRUE]
TwoServers ==
  {Server("stdio", {"local"}, "env", "fit", TRUE),
   Server("streamable_http", {"remote"}, "header", "taken", TRUE)}
TwoProfiles == [text : {"plain"}, protocol : {"messages"}, selects : {"server", "twice"}]
=============================================================================
