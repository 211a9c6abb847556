---------------------- MODULE SessionRegistryProperties ----------------------
(***************************************************************************)
(* What revoking a sign-in is meant to achieve.                            *)
(***************************************************************************)
EXTENDS SessionRegistry

(* Types; the logout that is under way names others than its caller, and   *)
(* blacklists only ids whose rows it has updated.                          *)
SignInTypeOK ==
  /\ row \in [SignIn -> {"none", "live", "revoked"}]
  /\ {blacklist, passed, revoking, unlisted} \subseteq SUBSET SignIn
  /\ requests \in 0..MaxRequests /\ drops \in 0..MaxDrops
  /\ logout \in [SignIn -> [pc: {"none", "read", "updated"},
                            ids: SUBSET SignIn]]
  /\ \A s \in SignIn : s \notin logout[s].ids
  /\ \A s, t \in SignIn :
       logout[s].pc = "updated" /\ t \in logout[s].ids => row[t] = "revoked"

(* A sign-in whose row says revoked is rejected, or will be once the       *)
(* revocation under way is through: its token is not left usable, except   *)
(* when Redis refused it or the process died behind the UPDATE, or when it *)
(* was registered between logout-all's reading of the ids and its update   *)
(* of the rows.                                                            *)
RevokedIsShutOut ==
  \A s \in SignIn : row[s] = "revoked" =>
    \/ s \in blacklist \union revoking \union unlisted
    \/ \E t \in SignIn : logout[t].pc = "updated" /\ s \in logout[t].ids

(* Nobody is shut out whose sign-in is not revoked, however late the       *)
(* registration of a request that was let through before comes.            *)
RejectedWasRevoked ==
  \A s \in blacklist : row[s] = "revoked"

(* Types, and a revocation shuts out exactly whom it should.               *)
SignInsSound == SignInTypeOK /\ RevokedIsShutOut /\ RejectedWasRevoked
=============================================================================
