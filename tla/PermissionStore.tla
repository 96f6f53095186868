--------------------------- MODULE PermissionStore ---------------------------
(***************************************************************************)
(* The permission tables of the Brain database, and the transactions that  *)
(* the hook runs over them (src/brain/storage/permissions.rs).             *)
(*                                                                         *)
(* Every operator below is the effect of ONE IMMEDIATE transaction of      *)
(* SQLite: it is atomic and serialised with every other transaction.       *)
(* Whether the caller learns that the transaction committed is the         *)
(* caller's business (module PermissionHook).                              *)
(*                                                                         *)
(* Attempt identifiers are fresh for every admission                       *)
(* (next_attempt_id), and one hook invocation admits at most once, so the  *)
(* invocation itself names its attempt.                                    *)
(***************************************************************************)
EXTENDS Sequences, Naturals

CONSTANTS Hook,      \* hook invocations, hence permission attempts
          Identity,  \* request identities (request_identity_key)
          None       \* no value

ASSUME NoneAssumption == None \notin Hook

VARIABLES
  request,   \* the request identity each invocation was started for
  attempts,  \* permission_attempts: state and authority of each attempt
  commits,   \* permission_commits: at most one row for each attempt
  trail      \* activity_events of each attempt, in cursor order

storeVars == <<request, attempts, commits, trail>>

Action == {"allow", "deny"}

AttemptState == {"absent", "evaluating", "needs_input", "decided", "abandoned"}

Attempt == [state : AttemptState, authority : Action \cup {None}]

DeliveryState == {"not_required", "pending", "delivered", "failed"}

Commit == [recorded : BOOLEAN, action : Action \cup {None},
           eligible : BOOLEAN, delivery : DeliveryState]

ActivityState == {"observed", "evaluating", "allowed", "denied", "abstained",
                  "error", "delivered", "delivery_failed"}

NoAttempt == [state |-> "absent", authority |-> None]

NoCommit == [recorded |-> FALSE, action |-> None,
             eligible |-> FALSE, delivery |-> "not_required"]

StoreTypeOK ==
  /\ request \in [Hook -> Identity]
  /\ attempts \in [Hook -> Attempt]
  /\ commits \in [Hook -> Commit]
  /\ trail \in [Hook -> Seq(ActivityState)]

StoreInit ==
  /\ request \in [Hook -> Identity]
  /\ attempts = [h \in Hook |-> NoAttempt]
  /\ commits = [h \in Hook |-> NoCommit]
  /\ trail = [h \in Hook |-> <<>>]

------------------------------------------------------------------------------
\* A settled request: its identity may never be admitted again.
Settled(h) == attempts[h].state \in {"needs_input", "decided"}

\* Mutants of Duplicate: the query forgets the requests handed to the user, or
\* those that were decided.
DuplicateIfDecided(i) ==
  \E g \in Hook : request[g] = i /\ attempts[g].state = "decided"

DuplicateIfHandedOver(i) ==
  \E g \in Hook : request[g] = i /\ attempts[g].state = "needs_input"

\* The rows the duplicate query of an admission looks at.  The rows that are
\* still 'evaluating' have just been abandoned by the same transaction.
Duplicate(i) == \E g \in Hook : request[g] = i /\ Settled(g)

\* Mutant of AdmitRows: a later admission reopens a request handed to the user.
AdmitRowsReopening(h) ==
  /\ attempts' = [g \in Hook |->
       IF g = h THEN [state |-> "evaluating", authority |-> None]
       ELSE IF request[g] = request[h] /\ attempts[g].state \in {"evaluating", "needs_input"}
            THEN [attempts[g] EXCEPT !.state = "abandoned"]
            ELSE attempts[g]]
  /\ trail' = [trail EXCEPT ![h] = @ \o <<"observed", "evaluating">>]
  /\ UNCHANGED <<request, commits>>

\* admit_permission: rows of the same identity left 'evaluating' by an earlier
\* invocation become 'abandoned', and the new attempt is inserted with its
\* first two activity rows.
AdmitRows(h) ==
  /\ ~ Duplicate(request[h])
  /\ attempts' = [g \in Hook |->
       IF g = h THEN [state |-> "evaluating", authority |-> None]
       ELSE IF request[g] = request[h] /\ attempts[g].state = "evaluating"
            THEN [attempts[g] EXCEPT !.state = "abandoned"]
            ELSE attempts[g]]
  /\ trail' = [trail EXCEPT ![h] = @ \o <<"observed", "evaluating">>]
  /\ UNCHANGED <<request, commits>>

\* require_exact_attempt: the row the guard admitted is still the open one.
ExactAttempt(h) ==
  attempts[h].state = "evaluating" /\ attempts[h].authority = None

\* finish_permission_without_authority: the request goes back to the user.
FinishRows(h, terminal) ==
  /\ ExactAttempt(h)
  /\ attempts' = [attempts EXCEPT ![h].state = "needs_input"]
  /\ trail' = [trail EXCEPT ![h] = Append(@, terminal)]
  /\ UNCHANGED <<request, commits>>

Terminal(action) == IF action = "allow" THEN "allowed" ELSE "denied"

\* Mutant of CommitRows: the decision is published without its activity.
CommitRowsUnaudited(h, action, eligible) ==
  /\ ExactAttempt(h)
  /\ attempts' = [attempts EXCEPT ![h] = [state |-> "decided", authority |-> action]]
  /\ commits' = [commits EXCEPT ![h] =
       [recorded |-> TRUE, action |-> action, eligible |-> eligible,
        delivery |-> IF eligible THEN "pending" ELSE "not_required"]]
  /\ UNCHANGED <<request, trail>>

\* commit_permission: attempt, terminal activity, decision and commit rows are
\* published together.  Delivery is awaited only when a response may leave.
CommitRows(h, action, eligible) ==
  /\ ExactAttempt(h)
  /\ attempts' = [attempts EXCEPT ![h] = [state |-> "decided", authority |-> action]]
  /\ trail' = [trail EXCEPT ![h] = Append(@, Terminal(action))]
  /\ commits' = [commits EXCEPT ![h] =
       [recorded |-> TRUE, action |-> action, eligible |-> eligible,
        delivery |-> IF eligible THEN "pending" ELSE "not_required"]]
  /\ UNCHANGED request

\* The activity row that reports what became of a response.
DeliveryActivity(evidence) ==
  IF evidence = "delivered" THEN "delivered" ELSE "delivery_failed"

\* record_delivery: accepted once, for the committed authority only.
DeliveryRows(h, action, evidence) ==
  /\ commits[h].recorded /\ commits[h].eligible /\ commits[h].action = action
  /\ commits[h].delivery = "pending"
  /\ commits' = [commits EXCEPT ![h].delivery = evidence]
  /\ trail' = [trail EXCEPT ![h] = Append(@, DeliveryActivity(evidence))]
  /\ UNCHANGED <<request, attempts>>

\* append_activity, as the hook uses it for a deterministic deny.
AppendRow(h, activity) ==
  /\ trail' = [trail EXCEPT ![h] = Append(@, activity)]
  /\ UNCHANGED <<request, attempts, commits>>
==============================================================================
