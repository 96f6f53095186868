-------------------------- MODULE PermissionAuthority --------------------------
(***************************************************************************)
(* What the permission path promises for each request, whatever number of  *)
(* hook processes is started for it and whichever of them die: it is        *)
(* settled at most once, and answered by the model at most once, after and *)
(* as it was settled.                                                      *)
(***************************************************************************)
CONSTANTS Identity

VARIABLES
  status,    \* of each request: unclaimed, claimed, or how it was settled
  answered   \* the model's answer each request received

authorityVars == <<status, answered>>

\* "silent" is a decision that is recorded but may not leave as a response.
Settlement == {"user", "silent", "allow", "deny"}

AuthorityInit ==
  /\ status = [i \in Identity |-> "unclaimed"]
  /\ answered = [i \in Identity |-> "none"]

Claim(i) ==
  /\ status[i] = "unclaimed"
  /\ status' = [status EXCEPT ![i] = "claimed"]
  /\ UNCHANGED answered

Settle(i) ==
  /\ status[i] = "claimed"
  /\ \E v \in Settlement : status' = [status EXCEPT ![i] = v]
  /\ UNCHANGED answered

Reply(i) ==
  /\ status[i] \in {"allow", "deny"}
  /\ answered[i] = "none"
  /\ answered' = [answered EXCEPT ![i] = status[i]]
  /\ UNCHANGED status

AuthorityNext == \E i \in Identity : Claim(i) \/ Settle(i) \/ Reply(i)

AuthoritySpec == AuthorityInit /\ [][AuthorityNext]_authorityVars
==============================================================================
