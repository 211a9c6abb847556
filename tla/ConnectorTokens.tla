--------------------------- MODULE ConnectorTokens ---------------------------
(***************************************************************************)
(* One user's connection to one Google provider: its row of                *)
(* user_connectors (src/src/connectors/oauth/token-store.ts), which the    *)
(* OAuth callback writes (routes/connectors-oauth-router.ts), the settings *)
(* page deletes (routes/connectors-router.ts) and tool calls refresh       *)
(* (connectors/google/google-tool-dispatcher.ts, mcp/client-manager.ts).   *)
(*                                                                         *)
(* A token is known by the consent it stems from; Google may withdraw a    *)
(* consent, and on a repeated one it may send no refresh token.            *)
(***************************************************************************)
EXTENDS Integers, FiniteSets

CONSTANTS
  Caller,       \* tool calls that may refresh
  MaxConsents   \* bound: consents the user gives

ASSUME ConsentAssumption == MaxConsents \in Nat

VARIABLES
  connector,  \* the row: [there, status, access, refresh]
  refresh,    \* the refresh each caller has under way
  consent,    \* the last consent given
  withdrawn,  \* consents Google no longer honours
  stale       \* history: the row says expired for a token it has no more

connectorVars == <<connector, refresh, consent, withdrawn, stale>>

NoConnector == [there |-> FALSE, status |-> "none", access |-> 0, refresh |-> 0]
NoRefresh == [pc |-> "idle", token |-> 0]
Refreshing(c, pc) == refresh[c].pc = pc
EndRefresh(c) == refresh' = [refresh EXCEPT ![c] = NoRefresh]

-----------------------------------------------------------------------------
(* The user: the callback upserts, keeping the refresh token it is not     *)
(* given; disconnecting deletes; Google's settings withdraw.               *)

UpsertConnector ==
  /\ consent < MaxConsents
  /\ consent' = consent + 1
  /\ \E given \in BOOLEAN :
       connector' = [there |-> TRUE, status |-> "connected",
                     access |-> consent + 1,
                     refresh |-> IF given THEN consent + 1
                                 ELSE connector.refresh]
  /\ stale' = FALSE
  /\ UNCHANGED <<refresh, withdrawn>>

DeleteConnector ==
  /\ connector.there
  /\ connector' = NoConnector
  /\ stale' = FALSE
  /\ UNCHANGED <<refresh, consent, withdrawn>>

Withdraw ==
  \E g \in (1..consent) \ withdrawn :
    /\ withdrawn' = withdrawn \union {g}
    /\ UNCHANGED <<connector, refresh, consent, stale>>

-----------------------------------------------------------------------------
(* refreshGoogleToken: the row is read, Google is asked, the row updated by*)
(* user and provider alone.                                                *)

LoadTokens(c) ==
  /\ Refreshing(c, "idle") /\ connector.there
  /\ refresh' = [refresh EXCEPT ![c] =
       [pc |-> IF connector.refresh = 0 THEN "refused" ELSE "asking",
        token |-> connector.refresh]]
  /\ UNCHANGED <<connector, consent, withdrawn, stale>>

AnyErrorRefuses(c) ==
  /\ Refreshing(c, "asking")
  /\ \E pc \in {"refused"} \union
              (IF refresh[c].token \in withdrawn THEN {} ELSE {"granted"}) :
       refresh' = [refresh EXCEPT ![c].pc = pc]
  /\ UNCHANGED <<connector, consent, withdrawn, stale>>

(* 200, 400 or 401, or an error that leaves everything as it is.           *)
GoogleAnswers(c) ==
  /\ Refreshing(c, "asking")
  /\ \/ /\ refresh[c].token \notin withdrawn
        /\ refresh' = [refresh EXCEPT ![c].pc = "granted"]
     \/ /\ refresh[c].token \in withdrawn
        /\ refresh' = [refresh EXCEPT ![c].pc = "refused"]
     \/ EndRefresh(c)
  /\ UNCHANGED <<connector, consent, withdrawn, stale>>

StoreAccess(c) ==
  /\ Refreshing(c, "granted")
  /\ connector' = IF ~connector.there THEN connector
       ELSE [connector EXCEPT !.status = "connected",
                              !.access = refresh[c].token]
  /\ stale' = FALSE
  /\ EndRefresh(c)
  /\ UNCHANGED <<consent, withdrawn>>

MarkExpired(c) ==
  /\ Refreshing(c, "refused")
  /\ connector' = IF connector.there
       THEN [connector EXCEPT !.status = "expired"] ELSE connector
  /\ stale' = (connector.there /\ refresh[c].token # connector.refresh)
  /\ EndRefresh(c)
  /\ UNCHANGED <<consent, withdrawn>>

-----------------------------------------------------------------------------
ConnectorInit ==
  /\ connector = NoConnector /\ consent = 0 /\ withdrawn = {}
  /\ refresh = [c \in Caller |-> NoRefresh]
  /\ stale = FALSE

ConnectorNext ==
  \/ UpsertConnector \/ DeleteConnector \/ Withdraw
  \/ \E c \in Caller : \/ LoadTokens(c) \/ GoogleAnswers(c)
                       \/ StoreAccess(c) \/ MarkExpired(c)

ConnectorSpec == ConnectorInit /\ [][ConnectorNext]_connectorVars
=============================================================================
