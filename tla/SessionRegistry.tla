--------------------------- MODULE SessionRegistry ---------------------------
(***************************************************************************)
(* The sign-ins of one user: src/src/auth/session-registry.ts, the         *)
(* middleware that consults it (auth.express.ts) and the routes that list  *)
(* and revoke them (routes/account-router.ts).  A sign-in is a token.      *)
(***************************************************************************)
EXTENDS Integers, FiniteSets

CONSTANTS
  SignIn,
  MaxRequests,  \* bound: requests let through
  MaxDrops      \* bound: Redis writes that fail, and logouts that stop

ASSUME SignInAssumption == {MaxRequests, MaxDrops} \subseteq Nat

VARIABLES
  row,         \* user_sessions: "none", "live" or "revoked"
  blacklist,   \* session:revoked:* in Redis
  passed,      \* requests let through whose row is not yet registered
  requests,    \* how many requests were let through
  revoking,    \* the revocation of a single sign-in under way
  logout,      \* the logout-all of each sign-in under way
  drops,       \* how many Redis writes failed or logouts stopped
  unlisted     \* history: revoked rows no blacklisting follows

signInVars == <<row, blacklist, passed, requests, revoking, logout, drops,
                unlisted>>

NoLogout == [pc |-> "none", ids |-> {}]
LiveRows == {s \in SignIn : row[s] = "live"}

-----------------------------------------------------------------------------
(* requireAuth: a blacklisted token is rejected; registerSession follows   *)
(* without being waited for.                                               *)

Request(s) ==
  /\ s \notin blacklist /\ requests < MaxRequests
  /\ requests' = requests + 1
  /\ passed' = passed \union {s}
  /\ UNCHANGED <<row, blacklist, revoking, logout, drops, unlisted>>

(* The upsert bumps last_seen_at alone: a revoked row stays revoked.       *)
RegisterSession(s) ==
  /\ s \in passed
  /\ passed' = passed \ {s}
  /\ row' = [row EXCEPT ![s] = IF @ = "none" THEN "live" ELSE @]
  /\ UNCHANGED <<blacklist, requests, revoking, logout, drops, unlisted>>

-----------------------------------------------------------------------------
(* DELETE /sessions/:id: the row, then Redis, whose errors are logged.  A  *)
(* process that dies in between leaves what a SET that failed leaves.      *)

RevokeSession(s) ==
  /\ row[s] # "none" /\ s \notin revoking
  /\ row' = [row EXCEPT ![s] = "revoked"]
  /\ revoking' = revoking \union {s}
  /\ UNCHANGED <<blacklist, passed, requests, logout, drops, unlisted>>

Blacklist(s) ==
  \/ /\ blacklist' = blacklist \union {s}
     /\ UNCHANGED <<drops, unlisted>>
  \/ /\ drops < MaxDrops /\ drops' = drops + 1
     /\ unlisted' = unlisted \union ({s} \ blacklist)
     /\ UNCHANGED blacklist

RevokeBlacklists(s) ==
  /\ s \in revoking
  /\ revoking' = revoking \ {s}
  /\ Blacklist(s)
  /\ UNCHANGED <<row, passed, requests, logout>>

-----------------------------------------------------------------------------
(* POST /sessions/logout-all by the holder of s: the ids are read, the     *)
(* rows are updated, and the ids that were read are blacklisted.           *)

LogoutOthers(s) ==
  /\ s \notin blacklist /\ logout[s].pc = "none"
  /\ LiveRows \ {s} # {}
  /\ logout' = [logout EXCEPT ![s] = [pc |-> "read", ids |-> LiveRows \ {s}]]
  /\ UNCHANGED <<row, blacklist, passed, requests, revoking, drops, unlisted>>

(* Whatever was registered since the ids were read is revoked unlisted.    *)
RevokeRows(s) ==
  /\ logout[s].pc = "read"
  /\ row' = [t \in SignIn |-> IF t # s /\ row[t] = "live" THEN "revoked"
                              ELSE row[t]]
  /\ unlisted' = unlisted \union ((LiveRows \ {s}) \ logout[s].ids)
  /\ logout' = [logout EXCEPT ![s].pc = "updated"]
  /\ UNCHANGED <<blacklist, passed, requests, revoking, drops>>

LogoutForgets(s) ==
  \E t \in logout[s].ids :
    /\ logout[s].pc = "updated"
    /\ logout' = [logout EXCEPT ![s] = NoLogout]
    /\ Blacklist(t)
    /\ UNCHANGED <<row, passed, requests, revoking>>

LogoutBlacklists(s) ==
  \E t \in logout[s].ids :
    /\ logout[s].pc = "updated"
    /\ logout' = [logout EXCEPT ![s] =
                    IF logout[s].ids = {t} THEN NoLogout
                    ELSE [pc |-> "updated", ids |-> logout[s].ids \ {t}]]
    /\ Blacklist(t)
    /\ UNCHANGED <<row, passed, requests, revoking>>

(* The process dies, or the UPDATE throws: a logout-all stops where it is. *)
LogoutDies(s) ==
  /\ logout[s].pc # "none" /\ drops < MaxDrops
  /\ drops' = drops + 1
  /\ unlisted' = unlisted \union (IF logout[s].pc = "updated"
                                 THEN logout[s].ids \ blacklist ELSE {})
  /\ logout' = [logout EXCEPT ![s] = NoLogout]
  /\ UNCHANGED <<row, blacklist, passed, requests, revoking>>

-----------------------------------------------------------------------------
SignInInit ==
  /\ row = [s \in SignIn |-> "none"]
  /\ blacklist = {} /\ passed = {} /\ revoking = {} /\ unlisted = {}
  /\ requests = 0 /\ drops = 0
  /\ logout = [s \in SignIn |-> NoLogout]

SignInNext ==
  \E s \in SignIn :
    \/ Request(s) \/ RegisterSession(s)
    \/ RevokeSession(s) \/ RevokeBlacklists(s)
    \/ LogoutOthers(s) \/ RevokeRows(s) \/ LogoutBlacklists(s)
    \/ LogoutDies(s)

SignInSpec == SignInInit /\ [][SignInNext]_signInVars
=============================================================================
