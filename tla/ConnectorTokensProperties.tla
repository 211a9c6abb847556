---------------------- MODULE ConnectorTokensProperties ----------------------
(***************************************************************************)
(* What the stored tokens of a connection are meant to be.                 *)
(***************************************************************************)
EXTENDS ConnectorTokens

(* Types; Google is only asked with a token that was given.                *)
ConnectorTypeOK ==
  /\ connector \in [there: BOOLEAN, status: {"none", "connected", "expired"},
                    access: 0..MaxConsents, refresh: 0..MaxConsents]
  /\ refresh \in [Caller -> [pc: {"idle", "asking", "granted", "refused"},
                             token: 0..MaxConsents]]
  /\ consent \in 0..MaxConsents /\ withdrawn \subseteq 1..consent
  /\ stale \in BOOLEAN
  /\ connector.there <=> connector.status # "none"
  /\ \A c \in Caller : /\ refresh[c].token <= consent
                       /\ refresh[c].pc \in {"asking", "granted"} =>
                            refresh[c].token # 0

(* A connection the user removed is not brought back by a refresh that was *)
(* under way: only a new consent creates one.                              *)
DeletedStaysDeleted ==
  [][~connector.there /\ connector'.there => consent' > consent]_connectorVars

(* A connection says expired only when Google does not honour the refresh  *)
(* token it has, or it has none, or the answer was for a token that a      *)
(* newer consent has replaced: no other failure of a refresh expires it.   *)
ExpiredForReason ==
  connector.status = "expired" =>
    connector.refresh \in {0} \union withdrawn \/ stale

(* Types, and the state the user is shown is Google's, but for late answers*)
ConnectorSound == ConnectorTypeOK /\ ExpiredForReason
=============================================================================
