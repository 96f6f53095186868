------------------------- MODULE PermissionRefinement -------------------------
(***************************************************************************)
(* The hook processes over the permission tables implement the abstract    *)
(* specification of module PermissionAuthority.                            *)
(***************************************************************************)
EXTENDS PermissionHook

Owner(i) == CHOOSE h \in Hook : request[h] = i /\ Settled(h)

Status(i) ==
  IF \E h \in Hook : request[h] = i /\ Settled(h)
  THEN LET h == Owner(i) IN
       IF attempts[h].state = "needs_input" THEN "user"
       ELSE IF commits[h].eligible THEN attempts[h].authority ELSE "silent"
  ELSE IF \E h \in Hook : request[h] = i /\ attempts[h].state = "evaluating"
       THEN "claimed" ELSE "unclaimed"

Answered(i) ==
  IF \E h \in Hook : request[h] = i /\ ~ Deterministic(h) /\ answer[h] \in Action
  THEN answer[CHOOSE h \in Hook : /\ request[h] = i /\ ~ Deterministic(h)
                                  /\ answer[h] \in Action]
  ELSE "none"

Authority == INSTANCE PermissionAuthority
  WITH status <- [i \in Identity |-> Status(i)],
       answered <- [i \in Identity |-> Answered(i)]

\* Whatever the processes do, each request behaves as the abstract one: it is
\* claimed, settled once, and then answered at most once with what was settled.
ImplementsAuthority == Authority!AuthoritySpec
==============================================================================
