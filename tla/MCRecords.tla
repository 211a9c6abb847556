----------------------------- MODULE MCRecords -----------------------------
(***************************************************************************)
(* Instances of what several clients of a user change at a time and share  *)
(* no state: a document he edits, his sign-ins, a connection of his.       *)
(* A behaviour is one of a single part, the others stand still.            *)
(***************************************************************************)
EXTENDS DocCollabProperties, SessionRegistryProperties,
        ConnectorTokensProperties, TLC

Interchangeable ==
  Permutations(Client) \union Permutations(SignIn) \union Permutations(Caller)

(* Bound: connections that see two saves stay open.                        *)
Bounded ==
  /\ tally.snapshots + tally.ops <= 2
  /\ tally.snapshots + tally.ops > 1 =>
       \A c \in Client : ~conn[c].closed

VARIABLE part  \* which part moves

RecordsInit ==
  /\ part \in {"document", "sign-ins", "connection"}
  /\ DocInit /\ SignInInit /\ ConnectorInit

RecordsNext ==
  \/ /\ part = "document" /\ DocNext /\ Bounded'
     /\ UNCHANGED <<part, signInVars, connectorVars>>
  \/ /\ part = "sign-ins" /\ SignInNext
     /\ UNCHANGED <<part, docVars, connectorVars>>
  \/ /\ part = "connection" /\ ConnectorNext
     /\ UNCHANGED <<part, docVars, signInVars>>

RecordsSpec ==
  RecordsInit /\ [][RecordsNext]_<<part, docVars, signInVars, connectorVars>>
=============================================================================
