------------------------- MODULE Credentials_proofs --------------------------
(***************************************************************************)
(* Sign-ins and connections, whose specifications share no state.          *)
(*                                                                         *)
(* Revocation for any number of sign-ins, requests and failing writes.     *)
(* SignInInv is inductive: beside the types and the two safety invariants  *)
(* it says that whoever is about to be blacklisted is revoked, and that a  *)
(* logout-all has only read the ids of rows that exist.                    *)
(*                                                                         *)
(* The connection to a provider for any number of callers and consents.    *)
(* ConnectorInv is inductive: beside ConnectorSound it says that a caller  *)
(* who was refused had no token or a withdrawn one, and that the row has a *)
(* token of a consent that was given.                                      *)
(***************************************************************************)
EXTENDS SessionRegistryProperties, ConnectorTokensProperties, TLAPS

RevokingIsRevoked == \A s \in revoking : row[s] = "revoked"

ReadIdsExist ==
  \A s, t \in SignIn :
    logout[s].pc = "read" /\ t \in logout[s].ids => row[t] # "none"

SignInInv ==
  /\ SignInTypeOK
  /\ RevokedIsShutOut
  /\ RejectedWasRevoked
  /\ RevokingIsRevoked
  /\ ReadIdsExist

-----------------------------------------------------------------------------
LEMMA SignInInitInv == SignInInit => SignInInv
  BY SignInAssumption
  DEF SignInInit, NoLogout, SignInInv, SignInTypeOK, RevokedIsShutOut,
      RejectedWasRevoked, RevokingIsRevoked, ReadIdsExist

(* A step that changes neither the blacklist nor a logout, and leaves every*)
(* revoked row revoked and every row in place, needs to account for the    *)
(* rows it revokes alone.                                                  *)
LEMMA RowStepInv ==
  ASSUME SignInInv, row' \in [SignIn -> {"none", "live", "revoked"}],
         \A t \in SignIn : row[t] = "revoked" => row'[t] = "revoked",
         \A t \in SignIn : row[t] # "none" => row'[t] # "none",
         \A t \in SignIn :
           row'[t] = "revoked" => row[t] = "revoked" \/ t \in revoking',
         revoking \subseteq revoking', revoking' \subseteq SignIn,
         \A t \in revoking' : row'[t] = "revoked",
         passed' \subseteq SignIn, requests' \in 0..MaxRequests,
         UNCHANGED <<blacklist, logout, drops, unlisted>>
  PROVE  SignInInv'
<1>1. SignInTypeOK'
  BY DEF SignInInv, SignInTypeOK
<1>2. RevokedIsShutOut'
  BY DEF SignInInv, SignInTypeOK, RevokedIsShutOut
<1>3. RejectedWasRevoked'
  BY DEF SignInInv, SignInTypeOK, RejectedWasRevoked
<1>4. RevokingIsRevoked' /\ ReadIdsExist'
  BY DEF SignInInv, SignInTypeOK, RevokingIsRevoked, ReadIdsExist
<1>. QED  BY <1>1, <1>2, <1>3, <1>4 DEF SignInInv

LEMMA RequestInv ==
  ASSUME SignInInv, NEW s \in SignIn, Request(s)
  PROVE  SignInInv'
<1>1. requests' \in 0..MaxRequests
  BY SignInAssumption DEF Request, SignInInv, SignInTypeOK
<1>. QED
  BY <1>1, RowStepInv
  DEF Request, SignInInv, SignInTypeOK, RevokingIsRevoked

LEMMA RegisterSessionInv ==
  ASSUME SignInInv, NEW s \in SignIn, RegisterSession(s)
  PROVE  SignInInv'
  BY RowStepInv
  DEF RegisterSession, SignInInv, SignInTypeOK, RevokingIsRevoked

LEMMA RevokeSessionInv ==
  ASSUME SignInInv, NEW s \in SignIn, RevokeSession(s)
  PROVE  SignInInv'
  BY RowStepInv
  DEF RevokeSession, SignInInv, SignInTypeOK, RevokingIsRevoked

-----------------------------------------------------------------------------
(* Whoever is handed to Blacklist is shut out or noted as unlisted.        *)
LEMMA BlacklistAccounts ==
  ASSUME SignInInv, NEW t \in SignIn, Blacklist(t)
  PROVE  /\ blacklist \subseteq blacklist'
         /\ blacklist' \subseteq blacklist \union {t}
         /\ unlisted \subseteq unlisted'
         /\ unlisted' \subseteq unlisted \union {t}
         /\ t \in blacklist' \union unlisted'
         /\ drops' \in 0..MaxDrops
<1>1. drops \in 0..MaxDrops /\ MaxDrops \in Nat
  BY SignInAssumption DEF SignInInv, SignInTypeOK
<1>. QED  BY <1>1 DEF Blacklist

LEMMA RevokeBlacklistsInv ==
  ASSUME SignInInv, NEW s \in SignIn, RevokeBlacklists(s)
  PROVE  SignInInv'
<1>1. /\ s \in revoking /\ row[s] = "revoked"
      /\ revoking' = revoking \ {s}
      /\ UNCHANGED <<row, passed, requests, logout>>
  BY DEF RevokeBlacklists, SignInInv, RevokingIsRevoked
<1>2. /\ blacklist \subseteq blacklist'
      /\ blacklist' \subseteq blacklist \union {s}
      /\ unlisted \subseteq unlisted'
      /\ unlisted' \subseteq unlisted \union {s}
      /\ s \in blacklist' \union unlisted'
      /\ drops' \in 0..MaxDrops
  BY BlacklistAccounts DEF RevokeBlacklists
<1>3. SignInTypeOK'
  BY <1>1, <1>2 DEF SignInInv, SignInTypeOK
<1>4. RevokedIsShutOut'
  BY <1>1, <1>2 DEF SignInInv, RevokedIsShutOut
<1>5. RejectedWasRevoked' /\ RevokingIsRevoked' /\ ReadIdsExist'
  BY <1>1, <1>2
  DEF SignInInv, RejectedWasRevoked, RevokingIsRevoked, ReadIdsExist
<1>. QED  BY <1>3, <1>4, <1>5 DEF SignInInv

LEMMA LogoutOthersInv ==
  ASSUME SignInInv, NEW s \in SignIn, LogoutOthers(s)
  PROVE  SignInInv'
<1>1. /\ logout[s].pc = "none"
      /\ logout' = [logout EXCEPT ![s] = [pc |-> "read", ids |-> LiveRows \ {s}]]
      /\ UNCHANGED <<row, blacklist, passed, requests, revoking, drops, unlisted>>
  BY DEF LogoutOthers
<1>2. logout' \in [SignIn -> [pc: {"none", "read", "updated"}, ids: SUBSET SignIn]]
  BY <1>1 DEF SignInInv, SignInTypeOK, LiveRows
<1>3. \A t \in SignIn \ {s} : logout'[t] = logout[t]
  BY <1>1, <1>2 DEF SignInInv, SignInTypeOK
<1>4. logout'[s] = [pc |-> "read", ids |-> LiveRows \ {s}]
  BY <1>1 DEF SignInInv, SignInTypeOK
<1>5. SignInTypeOK'
  BY <1>1, <1>2, <1>3, <1>4 DEF SignInInv, SignInTypeOK
<1>6. RevokedIsShutOut'
  BY <1>1, <1>3 DEF SignInInv, RevokedIsShutOut
<1>7. ReadIdsExist'
  BY <1>1, <1>3, <1>4 DEF SignInInv, ReadIdsExist, LiveRows
<1>8. RejectedWasRevoked' /\ RevokingIsRevoked'
  BY <1>1 DEF SignInInv, RejectedWasRevoked, RevokingIsRevoked
<1>. QED  BY <1>5, <1>6, <1>7, <1>8 DEF SignInInv

LEMMA RevokeRowsInv ==
  ASSUME SignInInv, NEW s \in SignIn, RevokeRows(s)
  PROVE  SignInInv'
<1>1. /\ logout[s].pc = "read"
      /\ row' = [t \in SignIn |-> IF t # s /\ row[t] = "live" THEN "revoked"
                                  ELSE row[t]]
      /\ unlisted' = unlisted \union ((LiveRows \ {s}) \ logout[s].ids)
      /\ logout' = [logout EXCEPT ![s].pc = "updated"]
      /\ UNCHANGED <<blacklist, passed, requests, revoking, drops>>
  BY DEF RevokeRows
<1>2. /\ logout' \in [SignIn -> [pc: {"none", "read", "updated"}, ids: SUBSET SignIn]]
      /\ row' \in [SignIn -> {"none", "live", "revoked"}]
      /\ unlisted' \subseteq SignIn
  BY <1>1 DEF SignInInv, SignInTypeOK, LiveRows
<1>3. /\ \A t \in SignIn \ {s} : logout'[t] = logout[t]
      /\ logout'[s].pc = "updated" /\ logout'[s].ids = logout[s].ids
  BY <1>1 DEF SignInInv, SignInTypeOK
<1>4. \A t \in SignIn : row[t] = "revoked" => row'[t] = "revoked"
  BY <1>1
<1>5. \A t \in logout[s].ids : t \in SignIn \ {s} /\ row'[t] = "revoked"
  BY <1>1 DEF SignInInv, SignInTypeOK, ReadIdsExist
<1>6. SignInTypeOK'
  <2>1. \A u \in SignIn : u \notin logout'[u].ids
    BY <1>3 DEF SignInInv, SignInTypeOK
  <2>2. \A u, v \in SignIn :
          logout'[u].pc = "updated" /\ v \in logout'[u].ids => row'[v] = "revoked"
    BY <1>3, <1>4, <1>5 DEF SignInInv, SignInTypeOK
  <2>. QED  BY <1>1, <1>2, <2>1, <2>2 DEF SignInInv, SignInTypeOK
<1>7. RevokedIsShutOut'
  <2>. SUFFICES ASSUME NEW t \in SignIn, row'[t] = "revoked"
                PROVE  \/ t \in blacklist' \union revoking' \union unlisted'
                       \/ \E u \in SignIn : logout'[u].pc = "updated"
                                            /\ t \in logout'[u].ids
    BY DEF RevokedIsShutOut
  <2>1. CASE row[t] = "revoked"
    BY <1>1, <1>3, <2>1 DEF SignInInv, RevokedIsShutOut
  <2>2. CASE row[t] # "revoked"
    BY <1>1, <1>3, <2>2 DEF LiveRows
  <2>. QED  BY <2>1, <2>2
<1>8. RejectedWasRevoked' /\ RevokingIsRevoked'
  BY <1>1, <1>4 DEF SignInInv, SignInTypeOK, RejectedWasRevoked, RevokingIsRevoked
<1>9. ReadIdsExist'
  BY <1>1, <1>3 DEF SignInInv, ReadIdsExist
<1>. QED  BY <1>6, <1>7, <1>8, <1>9 DEF SignInInv

LEMMA LogoutBlacklistsInv ==
  ASSUME SignInInv, NEW s \in SignIn, LogoutBlacklists(s)
  PROVE  SignInInv'
<1>1. PICK t \in logout[s].ids :
        /\ logout[s].pc = "updated"
        /\ logout' = [logout EXCEPT ![s] =
                        IF logout[s].ids = {t} THEN NoLogout
                        ELSE [pc |-> "updated", ids |-> logout[s].ids \ {t}]]
        /\ Blacklist(t)
        /\ UNCHANGED <<row, passed, requests, revoking>>
  BY DEF LogoutBlacklists
<1>0. /\ logout[s] \in [pc: {"none", "read", "updated"}, ids: SUBSET SignIn]
      /\ s \notin logout[s].ids
  BY DEF SignInInv, SignInTypeOK
<1>2. t \in SignIn /\ t # s /\ row[t] = "revoked"
  <2>1. t \in SignIn /\ t # s
    BY <1>0
  <2>. QED  BY <1>1, <2>1 DEF SignInInv, SignInTypeOK
<1>3. /\ blacklist \subseteq blacklist'
      /\ blacklist' \subseteq blacklist \union {t}
      /\ unlisted \subseteq unlisted'
      /\ unlisted' \subseteq unlisted \union {t}
      /\ t \in blacklist' \union unlisted'
      /\ drops' \in 0..MaxDrops
  BY <1>1, <1>2, BlacklistAccounts
<1>4. logout' \in [SignIn -> [pc: {"none", "read", "updated"}, ids: SUBSET SignIn]]
  BY <1>0, <1>1 DEF SignInInv, SignInTypeOK, NoLogout
<1>5. /\ \A u \in SignIn \ {s} : logout'[u] = logout[u]
      /\ logout'[s].ids \subseteq logout[s].ids \ {t}
      /\ logout'[s].pc # "read"
      /\ \A u \in logout[s].ids \ {t} : logout'[s].pc = "updated"
                                        /\ u \in logout'[s].ids
  BY <1>0, <1>1 DEF SignInInv, SignInTypeOK, NoLogout
<1>6. SignInTypeOK'
  <2>1. \A u \in SignIn : logout'[u].ids \subseteq logout[u].ids
    BY <1>5
  <2>2. \A u, v \in SignIn :
          logout'[u].pc = "updated" /\ v \in logout'[u].ids => row'[v] = "revoked"
    BY <1>1, <1>5, <2>1 DEF SignInInv, SignInTypeOK
  <2>. QED  BY <1>1, <1>2, <1>3, <1>4, <2>1, <2>2 DEF SignInInv, SignInTypeOK
<1>7. RevokedIsShutOut'
  <2>. SUFFICES ASSUME NEW v \in SignIn, row'[v] = "revoked"
                PROVE  \/ v \in blacklist' \union revoking' \union unlisted'
                       \/ \E u \in SignIn : logout'[u].pc = "updated"
                                            /\ v \in logout'[u].ids
    BY DEF RevokedIsShutOut
  <2>1. CASE v = t
    BY <1>3, <2>1
  <2>2. CASE v # t
    BY <1>1, <1>3, <1>5, <2>2 DEF SignInInv, RevokedIsShutOut
  <2>. QED  BY <2>1, <2>2
<1>8. RejectedWasRevoked' /\ RevokingIsRevoked'
  BY <1>1, <1>2, <1>3 DEF SignInInv, RejectedWasRevoked, RevokingIsRevoked
<1>9. ReadIdsExist'
  BY <1>1, <1>5 DEF SignInInv, ReadIdsExist
<1>. QED  BY <1>6, <1>7, <1>8, <1>9 DEF SignInInv

LEMMA LogoutDiesInv ==
  ASSUME SignInInv, NEW s \in SignIn, LogoutDies(s)
  PROVE  SignInInv'
<1>1. /\ logout' = [logout EXCEPT ![s] = NoLogout] /\ drops < MaxDrops /\ drops' = drops + 1
      /\ unlisted' = unlisted \union (IF logout[s].pc = "updated"
                                     THEN logout[s].ids \ blacklist ELSE {})
      /\ UNCHANGED <<row, blacklist, passed, requests, revoking>>
  BY DEF LogoutDies
<1>2. /\ logout \in [SignIn -> [pc: {"none", "read", "updated"}, ids: SUBSET SignIn]]
      /\ drops \in 0..MaxDrops /\ MaxDrops \in Nat /\ unlisted \subseteq SignIn
  BY SignInAssumption DEF SignInInv, SignInTypeOK
<1>3. /\ logout' \in [SignIn -> [pc: {"none", "read", "updated"}, ids: SUBSET SignIn]]
      /\ logout'[s] = NoLogout /\ \A u \in SignIn \ {s} : logout'[u] = logout[u]
  BY <1>1, <1>2 DEF NoLogout
<1>4. unlisted \subseteq unlisted' /\ unlisted' \subseteq SignIn /\ drops' \in 0..MaxDrops
  BY <1>1, <1>2
<1>5. SignInTypeOK'
  BY <1>1, <1>3, <1>4 DEF SignInInv, SignInTypeOK, NoLogout
<1>6. RevokedIsShutOut'
  <2>. SUFFICES ASSUME NEW t \in SignIn, row[t] = "revoked"
                PROVE  \/ t \in blacklist \union revoking \union unlisted'
                       \/ \E u \in SignIn : logout'[u].pc = "updated" /\ t \in logout'[u].ids
    BY <1>1 DEF RevokedIsShutOut
  <2>1. CASE logout[s].pc = "updated" /\ t \in logout[s].ids
    BY <1>1, <2>1
  <2>2. CASE ~(logout[s].pc = "updated" /\ t \in logout[s].ids)
    BY <1>3, <1>4, <2>2 DEF SignInInv, RevokedIsShutOut
  <2>. QED  BY <2>1, <2>2
<1>7. RejectedWasRevoked' /\ RevokingIsRevoked' /\ ReadIdsExist'
  BY <1>1, <1>3 DEF SignInInv, RejectedWasRevoked, RevokingIsRevoked, ReadIdsExist, NoLogout
<1>. QED  BY <1>5, <1>6, <1>7 DEF SignInInv

-----------------------------------------------------------------------------
LEMMA SignInNextInv == SignInInv /\ [SignInNext]_signInVars => SignInInv'
<1>. SUFFICES ASSUME SignInInv, [SignInNext]_signInVars
              PROVE  SignInInv'
  OBVIOUS
<1>1. ASSUME NEW s \in SignIn, Request(s)
      PROVE  SignInInv'
  BY <1>1, RequestInv
<1>2. ASSUME NEW s \in SignIn, RegisterSession(s)
      PROVE  SignInInv'
  BY <1>2, RegisterSessionInv
<1>3. ASSUME NEW s \in SignIn, RevokeSession(s)
      PROVE  SignInInv'
  BY <1>3, RevokeSessionInv
<1>4. ASSUME NEW s \in SignIn, RevokeBlacklists(s)
      PROVE  SignInInv'
  BY <1>4, RevokeBlacklistsInv
<1>5. ASSUME NEW s \in SignIn, LogoutOthers(s)
      PROVE  SignInInv'
  BY <1>5, LogoutOthersInv
<1>6. ASSUME NEW s \in SignIn, RevokeRows(s)
      PROVE  SignInInv'
  BY <1>6, RevokeRowsInv
<1>7. ASSUME NEW s \in SignIn, LogoutBlacklists(s)
      PROVE  SignInInv'
  BY <1>7, LogoutBlacklistsInv
<1>8. ASSUME NEW s \in SignIn, LogoutDies(s)
      PROVE  SignInInv'
  BY <1>8, LogoutDiesInv
<1>9. CASE UNCHANGED signInVars
  BY <1>9 DEF signInVars, SignInInv, SignInTypeOK, RevokedIsShutOut,
              RejectedWasRevoked, RevokingIsRevoked, ReadIdsExist
<1>. QED
  BY <1>1, <1>2, <1>3, <1>4, <1>5, <1>6, <1>7, <1>8, <1>9 DEF SignInNext

LEMMA SignInInvariant == SignInSpec => []SignInInv
  BY SignInInitInv, SignInNextInv, PTL DEF SignInSpec

(* Types; a logout never names its caller and blacklists revoked ids only. *)
(* However the revocations of one sign-in and of all others interleave with*)
(* late registrations, a revoked row is shut out or about to be, but for   *)
(* Redis' failures, a process that dies behind the UPDATE and the rows     *)
(* that logout-all had not read, and nobody is blacklisted whose row is    *)
(* not revoked for good.                                                   *)
THEOREM RevocationIsExact == SignInSpec => []SignInsSound
<1>1. SignInInv => SignInsSound
  BY DEF SignInInv, SignInsSound
<1>. QED  BY <1>1, SignInInvariant, PTL

-----------------------------------------------------------------------------
(* The connection *)

RefusedForReason ==
  \A c \in Caller : refresh[c].pc = "refused" =>
    refresh[c].token \in {0} \union withdrawn

TokenWasGiven == connector.refresh <= consent

ConnectorInv ==
  /\ ConnectorTypeOK
  /\ ExpiredForReason
  /\ RefusedForReason
  /\ TokenWasGiven

Connector == [there: BOOLEAN, status: {"none", "connected", "expired"},
              access: 0..MaxConsents, refresh: 0..MaxConsents]
RefreshState == [pc: {"idle", "asking", "granted", "refused"},
                 token: 0..MaxConsents]

-----------------------------------------------------------------------------
LEMMA ConnectorTypes ==
  ASSUME ConnectorInv
  PROVE  /\ connector \in Connector
         /\ refresh \in [Caller -> RefreshState]
         /\ consent \in 0..MaxConsents /\ MaxConsents \in Nat
  BY ConsentAssumption DEF ConnectorInv, ConnectorTypeOK, Connector, RefreshState

LEMMA ConnectorInitInv ==
  ASSUME ConnectorInit
  PROVE  ConnectorInv
<1>1. /\ connector = [there |-> FALSE, status |-> "none", access |-> 0, refresh |-> 0]
      /\ consent = 0 /\ withdrawn = {} /\ stale = FALSE
      /\ refresh = [c \in Caller |-> [pc |-> "idle", token |-> 0]]
  BY DEF ConnectorInit, NoConnector, NoRefresh
<1>2. connector \in [there: BOOLEAN, status: {"none", "connected", "expired"},
                     access: 0..MaxConsents, refresh: 0..MaxConsents]
  BY <1>1, ConsentAssumption
<1>3. refresh \in [Caller -> [pc: {"idle", "asking", "granted", "refused"},
                              token: 0..MaxConsents]]
  BY <1>1, ConsentAssumption
<1>4. \A c \in Caller : refresh[c].pc = "idle" /\ refresh[c].token = 0
  BY <1>1
<1>5. consent \in 0..MaxConsents /\ withdrawn \subseteq 1..consent
  BY <1>1, ConsentAssumption
<1>6. connector.there = FALSE /\ connector.status = "none"
  BY <1>1
<1>7. \A c \in Caller : /\ refresh[c].token <= consent
                        /\ refresh[c].pc \in {"asking", "granted"} =>
                             refresh[c].token # 0
  BY <1>1, <1>4
<1>8. ConnectorTypeOK
  BY <1>1, <1>2, <1>3, <1>5, <1>6, <1>7 DEF ConnectorTypeOK
<1>. QED
  BY <1>1, <1>4, <1>8
  DEF ConnectorInv, ExpiredForReason, RefusedForReason, TokenWasGiven

LEMMA UpsertConnectorInv ==
  ASSUME ConnectorInv, UpsertConnector
  PROVE  ConnectorInv'
<1>1. PICK given \in BOOLEAN :
        connector' = [there |-> TRUE, status |-> "connected",
                      access |-> consent + 1,
                      refresh |-> IF given THEN consent + 1
                                  ELSE connector.refresh]
  BY DEF UpsertConnector
<1>2. /\ consent < MaxConsents /\ consent' = consent + 1
      /\ stale' = FALSE /\ UNCHANGED <<refresh, withdrawn>>
  BY DEF UpsertConnector
<1>3. /\ connector' \in Connector /\ connector'.refresh <= consent'
      /\ connector'.there /\ connector'.status = "connected"
  <2>1. connector.refresh \in 0..MaxConsents /\ connector.refresh <= consent
    BY ConnectorTypes DEF Connector, ConnectorInv, TokenWasGiven
  <2>2. consent + 1 \in 0..MaxConsents
    BY <1>2, ConnectorTypes
  <2>. QED  BY <1>1, <1>2, <2>1, <2>2, ConnectorTypes DEF Connector
<1>4. /\ withdrawn' \subseteq 1..consent'
      /\ \A c \in Caller : refresh'[c].token <= consent'
  BY <1>2, ConnectorTypes DEF ConnectorInv, ConnectorTypeOK, RefreshState
<1>5. \A c \in Caller : refresh'[c].pc \in {"asking", "granted"} =>
                           refresh'[c].token # 0
  BY <1>2 DEF ConnectorInv, ConnectorTypeOK
<1>6. refresh' \in [Caller -> RefreshState] /\ consent' \in 0..MaxConsents
  BY <1>2, ConnectorTypes
<1>7. connector'.there <=> connector'.status # "none"
  BY <1>3
<1>8. ConnectorTypeOK'
  BY <1>2, <1>3, <1>4, <1>5, <1>6, <1>7
  DEF ConnectorTypeOK, Connector, RefreshState
<1>9. ExpiredForReason' /\ TokenWasGiven'
  BY <1>3 DEF ExpiredForReason, TokenWasGiven
<1>10. RefusedForReason'
  BY <1>2 DEF ConnectorInv, RefusedForReason
<1>. QED  BY <1>8, <1>9, <1>10 DEF ConnectorInv

LEMMA DeleteConnectorInv ==
  ASSUME ConnectorInv, DeleteConnector
  PROVE  ConnectorInv'
<1>1. /\ connector' = [there |-> FALSE, status |-> "none", access |-> 0, refresh |-> 0]
      /\ stale' = FALSE /\ UNCHANGED <<refresh, consent, withdrawn>>
  BY DEF DeleteConnector, NoConnector
<1>2. connector' \in Connector
  BY <1>1, ConnectorTypes DEF Connector
<1>3. /\ connector'.there = FALSE /\ connector'.status = "none"
      /\ connector'.refresh = 0
  BY <1>1
<1>4. ConnectorTypeOK'
  BY <1>1, <1>2, <1>3, ConnectorTypes
  DEF ConnectorInv, ConnectorTypeOK, Connector
<1>5. ExpiredForReason' /\ TokenWasGiven'
  BY <1>1, <1>3, ConnectorTypes DEF ExpiredForReason, TokenWasGiven
<1>6. RefusedForReason'
  BY <1>1 DEF ConnectorInv, RefusedForReason
<1>. QED  BY <1>4, <1>5, <1>6 DEF ConnectorInv

LEMMA WithdrawInv ==
  ASSUME ConnectorInv, Withdraw
  PROVE  ConnectorInv'
  BY ConnectorTypes
  DEF Withdraw, ConnectorInv, ConnectorTypeOK,
      ExpiredForReason, RefusedForReason, TokenWasGiven

-----------------------------------------------------------------------------
(* What a step of one caller may do to the refresh states.                 *)
LEMMA RefreshStepTypes ==
  ASSUME ConnectorInv, NEW c \in Caller, NEW r \in RefreshState,
         refresh' = [refresh EXCEPT ![c] = r],
         r.token <= consent, r.pc \in {"asking", "granted"} => r.token # 0,
         r.pc = "refused" => r.token \in {0} \union withdrawn,
         UNCHANGED <<consent, withdrawn>>
  PROVE  /\ refresh' \in [Caller -> RefreshState]
         /\ \A d \in Caller : /\ refresh'[d].token <= consent'
                              /\ refresh'[d].pc \in {"asking", "granted"} =>
                                   refresh'[d].token # 0
         /\ RefusedForReason'
<1>1. refresh' \in [Caller -> RefreshState]
  BY ConnectorTypes
<1>2. refresh'[c] = r /\ \A d \in Caller \ {c} : refresh'[d] = refresh[d]
  BY ConnectorTypes
<1>. QED
  BY <1>1, <1>2 DEF ConnectorInv, ConnectorTypeOK, RefusedForReason

LEMMA NoRefreshTypes ==
  ASSUME ConnectorInv
  PROVE  /\ NoRefresh \in RefreshState /\ NoRefresh.token <= consent
         /\ NoRefresh.pc = "idle"
  BY ConnectorTypes DEF NoRefresh, RefreshState

LEMMA LoadTokensInv ==
  ASSUME ConnectorInv, NEW c \in Caller, LoadTokens(c)
  PROVE  ConnectorInv'
<1>. DEFINE r == [pc |-> IF connector.refresh = 0 THEN "refused" ELSE "asking",
                  token |-> connector.refresh]
<1>1. refresh' = [refresh EXCEPT ![c] = r]
      /\ UNCHANGED <<connector, consent, withdrawn, stale>>
  BY DEF LoadTokens
<1>2. /\ r \in RefreshState /\ r.token <= consent
      /\ r.pc \in {"asking", "granted"} => r.token # 0
      /\ r.pc = "refused" => r.token \in {0} \union withdrawn
  BY ConnectorTypes DEF RefreshState, Connector, ConnectorInv, TokenWasGiven
<1>. HIDE DEF r
<1>3. /\ refresh' \in [Caller -> RefreshState]
      /\ \A d \in Caller : /\ refresh'[d].token <= consent'
                           /\ refresh'[d].pc \in {"asking", "granted"} =>
                                refresh'[d].token # 0
      /\ RefusedForReason'
  BY <1>1, <1>2, RefreshStepTypes
<1>. QED
  BY <1>1, <1>3
  DEF ConnectorInv, ConnectorTypeOK, RefreshState, ExpiredForReason, TokenWasGiven

LEMMA GoogleAnswersInv ==
  ASSUME ConnectorInv, NEW c \in Caller, GoogleAnswers(c)
  PROVE  ConnectorInv'
<1>1. /\ refresh[c].pc = "asking"
      /\ UNCHANGED <<connector, consent, withdrawn, stale>>
  BY DEF GoogleAnswers, Refreshing
<1>2. refresh[c] \in RefreshState /\ refresh[c].token <= consent
      /\ refresh[c].token # 0
  BY <1>1, ConnectorTypes DEF ConnectorInv, ConnectorTypeOK
<1>3. \E r \in RefreshState :
        /\ refresh' = [refresh EXCEPT ![c] = r]
        /\ r.token <= consent /\ (r.pc \in {"asking", "granted"} => r.token # 0)
        /\ r.pc = "refused" => r.token \in {0} \union withdrawn
  <2>1. CASE /\ refresh[c].token \notin withdrawn
             /\ refresh' = [refresh EXCEPT ![c].pc = "granted"]
    <3>. DEFINE r == refresh[c]
    <3>1. [r EXCEPT !.pc = "granted"] = [pc |-> "granted", token |-> r.token]
      BY <1>2 DEF RefreshState
    <3>2. refresh' = [refresh EXCEPT ![c] = [r EXCEPT !.pc = "granted"]]
      BY <2>1
    <3>3. refresh' = [refresh EXCEPT ![c] =
                        [pc |-> "granted", token |-> refresh[c].token]]
      BY <3>1, <3>2
    <3>4. [pc |-> "granted", token |-> refresh[c].token] \in RefreshState
      BY <1>2 DEF RefreshState
    <3>. QED  BY <3>4, <1>2, <3>3
  <2>2. CASE /\ refresh[c].token \in withdrawn
             /\ refresh' = [refresh EXCEPT ![c].pc = "refused"]
    <3>. DEFINE r == refresh[c]
    <3>1. [r EXCEPT !.pc = "refused"] = [pc |-> "refused", token |-> r.token]
      BY <1>2 DEF RefreshState
    <3>2. refresh' = [refresh EXCEPT ![c] = [r EXCEPT !.pc = "refused"]]
      BY <2>2
    <3>3. refresh' = [refresh EXCEPT ![c] =
                        [pc |-> "refused", token |-> refresh[c].token]]
      BY <3>1, <3>2
    <3>4. [pc |-> "refused", token |-> refresh[c].token] \in RefreshState
      BY <1>2 DEF RefreshState
    <3>. QED  BY <3>4, <1>2, <2>2, <3>3
  <2>3. CASE EndRefresh(c)
    BY <2>3, NoRefreshTypes DEF EndRefresh
  <2>. QED  BY <2>1, <2>2, <2>3 DEF GoogleAnswers
<1>4. /\ refresh' \in [Caller -> RefreshState]
      /\ \A d \in Caller : /\ refresh'[d].token <= consent'
                           /\ refresh'[d].pc \in {"asking", "granted"} =>
                                refresh'[d].token # 0
      /\ RefusedForReason'
  BY <1>1, <1>3, RefreshStepTypes
<1>. QED
  BY <1>1, <1>4
  DEF ConnectorInv, ConnectorTypeOK, RefreshState, ExpiredForReason, TokenWasGiven

(* A caller that is through leaves no trace among the refreshes.           *)
LEMMA EndRefreshTypes ==
  ASSUME ConnectorInv, NEW c \in Caller, EndRefresh(c),
         UNCHANGED <<consent, withdrawn>>
  PROVE  /\ refresh' \in [Caller -> RefreshState]
         /\ \A d \in Caller : /\ refresh'[d].token <= consent'
                              /\ refresh'[d].pc \in {"asking", "granted"} =>
                                   refresh'[d].token # 0
         /\ RefusedForReason'
  BY NoRefreshTypes, RefreshStepTypes DEF EndRefresh

LEMMA StoreAccessInv ==
  ASSUME ConnectorInv, NEW c \in Caller, StoreAccess(c)
  PROVE  ConnectorInv'
<1>1. /\ connector' = IF ~connector.there THEN connector
                      ELSE [connector EXCEPT !.status = "connected",
                                             !.access = refresh[c].token]
      /\ stale' = FALSE /\ EndRefresh(c) /\ UNCHANGED <<consent, withdrawn>>
  BY DEF StoreAccess
<1>2. refresh[c].token \in 0..MaxConsents
  BY ConnectorTypes DEF RefreshState
<1>3. /\ connector' \in Connector
      /\ connector'.there = connector.there
      /\ connector'.refresh = connector.refresh
      /\ connector'.status = IF connector.there THEN "connected"
                             ELSE connector.status
  BY <1>1, <1>2, ConnectorTypes DEF Connector
<1>4. connector.there <=> connector.status # "none"
  BY DEF ConnectorInv, ConnectorTypeOK
<1>. QED
  BY <1>1, <1>3, <1>4, EndRefreshTypes
  DEF ConnectorInv, ConnectorTypeOK, Connector, RefreshState, ExpiredForReason,
      TokenWasGiven

LEMMA MarkExpiredInv ==
  ASSUME ConnectorInv, NEW c \in Caller, MarkExpired(c)
  PROVE  ConnectorInv'
<1>1. /\ refresh[c].pc = "refused"
      /\ connector' = IF connector.there
                      THEN [connector EXCEPT !.status = "expired"] ELSE connector
      /\ stale' = (connector.there /\ refresh[c].token # connector.refresh)
      /\ EndRefresh(c) /\ UNCHANGED <<consent, withdrawn>>
  BY DEF MarkExpired, Refreshing
<1>2. refresh[c].token \in {0} \union withdrawn
  BY <1>1 DEF ConnectorInv, RefusedForReason
<1>3. /\ connector' \in Connector
      /\ connector'.there = connector.there
      /\ connector'.refresh = connector.refresh
      /\ connector'.status = IF connector.there THEN "expired"
                             ELSE connector.status
  BY <1>1, ConnectorTypes DEF Connector
<1>4. connector.there <=> connector.status # "none"
  BY DEF ConnectorInv, ConnectorTypeOK
<1>5. stale' \in BOOLEAN
  BY <1>1
<1>6. ExpiredForReason'
  BY <1>1, <1>2, <1>3, <1>4 DEF ExpiredForReason
<1>. QED
  BY <1>1, <1>3, <1>4, <1>5, <1>6, EndRefreshTypes
  DEF ConnectorInv, ConnectorTypeOK, Connector, RefreshState, TokenWasGiven

-----------------------------------------------------------------------------
LEMMA ConnectorNextInv == ConnectorInv /\ [ConnectorNext]_connectorVars => ConnectorInv'
<1>. SUFFICES ASSUME ConnectorInv, [ConnectorNext]_connectorVars
              PROVE  ConnectorInv'
  OBVIOUS
<1>1. ASSUME NEW c \in Caller, LoadTokens(c)
      PROVE  ConnectorInv'
  BY <1>1, LoadTokensInv
<1>2. ASSUME NEW c \in Caller, GoogleAnswers(c)
      PROVE  ConnectorInv'
  BY <1>2, GoogleAnswersInv
<1>3. ASSUME NEW c \in Caller, StoreAccess(c)
      PROVE  ConnectorInv'
  BY <1>3, StoreAccessInv
<1>4. ASSUME NEW c \in Caller, MarkExpired(c)
      PROVE  ConnectorInv'
  BY <1>4, MarkExpiredInv
<1>5. CASE UNCHANGED connectorVars
  BY <1>5 DEF connectorVars, ConnectorInv, ConnectorTypeOK, ExpiredForReason,
              RefusedForReason, TokenWasGiven
<1>. QED
  BY <1>1, <1>2, <1>3, <1>4, <1>5, UpsertConnectorInv, DeleteConnectorInv,
     WithdrawInv
  DEF ConnectorNext

(* Only the callback gives a deleted row back, whatever was under way.     *)
LEMMA StepKeepsDeleted ==
  ASSUME ConnectorInv, [ConnectorNext]_connectorVars,
         ~connector.there, connector'.there
  PROVE  consent' > consent
<1>1. CASE UpsertConnector
  BY <1>1, ConnectorTypes DEF UpsertConnector
<1>2. CASE DeleteConnector \/ Withdraw
  BY <1>2 DEF DeleteConnector, Withdraw
<1>3. ASSUME NEW c \in Caller, LoadTokens(c) \/ GoogleAnswers(c)
      PROVE  FALSE
  BY <1>3 DEF LoadTokens, GoogleAnswers
<1>4. ASSUME NEW c \in Caller, StoreAccess(c) \/ MarkExpired(c)
      PROVE  FALSE
  BY <1>4 DEF StoreAccess, MarkExpired
<1>5. CASE UNCHANGED connectorVars
  BY <1>5 DEF connectorVars
<1>. QED  BY <1>1, <1>2, <1>3, <1>4, <1>5 DEF ConnectorNext

LEMMA ConnectorInvariant == ConnectorSpec => []ConnectorInv
  BY ConnectorInitInv, ConnectorNextInv, PTL DEF ConnectorSpec

(* A connection says expired only for a token that Google does not honour, *)
(* or because of a late answer for an earlier token, and never is a caller *)
(* asking with a token that was not given.                                 *)
THEOREM ExpiryHasReason == ConnectorSpec => []ConnectorSound
<1>1. ConnectorInv => ConnectorSound
  BY DEF ConnectorInv, ConnectorSound
<1>. QED  BY <1>1, ConnectorInvariant, PTL

(* A connection the user removed comes back by a new consent alone, however*)
(* many refreshes were under way when he removed it.                       *)
THEOREM DeletionLasts == ConnectorSpec => DeletedStaysDeleted
<1>1. ConnectorInv /\ [ConnectorNext]_connectorVars =>
        [~connector.there /\ connector'.there => consent' > consent]_connectorVars
  BY StepKeepsDeleted
<1>. QED
  BY <1>1, ConnectorInvariant, PTL DEF ConnectorSpec, DeletedStaysDeleted
=============================================================================
