---------------------------- MODULE PermissionHook ----------------------------
(***************************************************************************)
(* The provider hook processes that answer permission requests, running    *)
(* over the permission tables (src/brain/permission_hook.rs, the SQLite    *)
(* path of `run`, and src/brain/permission_request_lock.rs).               *)
(*                                                                         *)
(* Each invocation is an operating-system process.  It takes the request   *)
(* lock, admits an attempt, evaluates the request outside every            *)
(* transaction, settles the attempt, and only then may write a response.   *)
(* It can die between any two steps; the lock dies with it, the rows stay. *)
(*                                                                         *)
(* A storage call has three outcomes: it commits, it fails and changes     *)
(* nothing, or it commits and the hook is told otherwise (CommitUncertain).*)
(* An expired storage deadline is one of the ways to fail.                 *)
(***************************************************************************)
EXTENDS PermissionStore

CONSTANTS Shard,        \* request lock files
          ShardOf,      \* the lock file a request's fingerprint selects
          Dangerous,    \* requests the code-owned safety rules deny
          Antigravity,  \* requests of the provider that expects a fail-safe ask
          Subagent      \* Codex subagent requests, whose turn can be proved again

ASSUME ShardAssumption == /\ ShardOf \in [Identity -> Shard]
                          /\ None \notin Identity \cup Shard
ASSUME RequestAssumption == /\ Dangerous \subseteq Identity
                            /\ Antigravity \subseteq Identity
                            /\ Subagent \subseteq Identity

VARIABLES
  pc,           \* where each invocation is
  lock,         \* the invocation that holds each lock file
  class,        \* what safety rules and provider policy say of the request
  proposal,     \* the disposition the invocation is about to persist
  lifecycleOk,  \* whether the probe found the request admissible
  lifecycle,    \* whether the stored lifecycle accepts each request now
  answer        \* what the provider received from each invocation

hookVars == <<pc, lock, class, proposal, lifecycleOk, lifecycle, answer>>
vars == <<storeVars, hookVars>>

Guarded == {"probe", "reprove", "reprobe", "evaluate", "yield", "commit"}
Control == Guarded \cup {"start", "lock", "admit", "respond", "record",
                         "deny", "ask", "done", "dead"}
Class == {"unknown", "deny", "indeterminate", "confirm", "open"}
Disposition == Action \cup {"abstained", "error", None}
Answer == {"none", "ask", "allow", "deny", "lost"}

TypeOK ==
  /\ StoreTypeOK
  /\ pc \in [Hook -> Control]
  /\ lock \in [Shard -> Hook \cup {None}]
  /\ class \in [Hook -> Class]
  /\ proposal \in [Hook -> Disposition]
  /\ lifecycleOk \in [Hook -> BOOLEAN]
  /\ lifecycle \in [Identity -> BOOLEAN]
  /\ answer \in [Hook -> Answer]

Init ==
  /\ StoreInit
  /\ pc = [h \in Hook |-> "start"]
  /\ lock = [s \in Shard |-> None]
  /\ class = [h \in Hook |-> "unknown"]
  /\ proposal = [h \in Hook |-> None]
  /\ lifecycleOk = [h \in Hook |-> FALSE]
  /\ lifecycle \in [Identity -> BOOLEAN]
  /\ answer = [h \in Hook |-> "none"]

ShardFor(h) == ShardOf[request[h]]

\* deterministic_deny: the hook denies on its own authority.
Deterministic(h) == class[h] = "deny"

Goto(h, to) == pc' = [pc EXCEPT ![h] = to]

Release(h) == lock' = [lock EXCEPT ![ShardFor(h)] = None]

\* Where a path that gives up leaves the invocation.
Unanswered(h) == IF request[h] \in Antigravity THEN "ask" ELSE "done"
\* Mutant of DenyOr: a deny that could not be recorded is not told either.
DenyOrSilent(h, otherwise) == otherwise
DenyOr(h, otherwise) == IF Deterministic(h) THEN "deny" ELSE otherwise

------------------------------------------------------------------------------
(* Before admission. *)

\* Unreadable input or a payload that does not parse.
RejectInput(h) ==
  /\ pc[h] = "start"
  /\ Goto(h, Unanswered(h))
  /\ UNCHANGED <<storeVars, lock, class, proposal, lifecycleOk, lifecycle, answer>>

\* The isolated safety helper answers, or fails and leaves the request
\* indeterminate; a provider policy may deny a request, or require the user.
Classify(h, c) ==
  /\ pc[h] = "start"
  /\ request[h] \in Dangerous => c \in {"deny", "indeterminate"}
  /\ class' = [class EXCEPT ![h] = c]

OpenDatabase(h) ==
  /\ \E c \in Class \ {"unknown"} : Classify(h, c)
  /\ Goto(h, "lock")
  /\ UNCHANGED <<storeVars, lock, proposal, lifecycleOk, lifecycle, answer>>

\* No paths, no activity identity or no database: fail closed, or ask.
OpenFails(h) ==
  /\ \E c \in Class \ {"unknown"} :
       /\ Classify(h, c)
       /\ Goto(h, IF c = "deny" THEN "deny" ELSE Unanswered(h))
  /\ UNCHANGED <<storeVars, lock, proposal, lifecycleOk, lifecycle, answer>>

------------------------------------------------------------------------------
(* Admission. *)

\* try_acquire never waits: a held shard suppresses the invocation.
AcquireLock(h) ==
  /\ pc[h] = "lock"
  /\ lock[ShardFor(h)] = None
  /\ lock' = [lock EXCEPT ![ShardFor(h)] = h]
  /\ Goto(h, "admit")
  /\ UNCHANGED <<storeVars, class, proposal, lifecycleOk, lifecycle, answer>>

LockContended(h) ==
  /\ pc[h] = "lock"
  /\ lock[ShardFor(h)] # None
  /\ Goto(h, Unanswered(h))
  /\ UNCHANGED <<storeVars, lock, class, proposal, lifecycleOk, lifecycle, answer>>

LockFails(h) ==
  /\ pc[h] = "lock"
  /\ Goto(h, DenyOr(h, "done"))
  /\ UNCHANGED <<storeVars, lock, class, proposal, lifecycleOk, lifecycle, answer>>

Admit(h) ==
  /\ pc[h] = "admit"
  /\ AdmitRows(h)
  /\ Goto(h, "probe")
  /\ UNCHANGED <<lock, class, proposal, lifecycleOk, lifecycle, answer>>

\* Mutant of SuppressDuplicate: the early return keeps the lock.
SuppressDuplicateLocked(h) ==
  /\ pc[h] = "admit"
  /\ Duplicate(request[h])
  /\ Goto(h, Unanswered(h))
  /\ UNCHANGED <<storeVars, lock, class, proposal, lifecycleOk, lifecycle, answer>>

\* A settled attempt of the same identity: the transaction is rolled back.
SuppressDuplicate(h) ==
  /\ pc[h] = "admit"
  /\ Duplicate(request[h])
  /\ Release(h)
  /\ Goto(h, Unanswered(h))
  /\ UNCHANGED <<storeVars, class, proposal, lifecycleOk, lifecycle, answer>>

\* The admission is reported as failed, whether or not its rows are durable.
AdmitFails(h) ==
  /\ pc[h] = "admit"
  /\ UNCHANGED storeVars \/ AdmitRows(h)
  /\ Release(h)
  /\ Goto(h, DenyOr(h, "done"))
  /\ UNCHANGED <<class, proposal, lifecycleOk, lifecycle, answer>>

------------------------------------------------------------------------------
(* Lifecycle probe, with a snapshot that is stale as soon as it is read. *)

Probe(h) ==
  /\ pc[h] = "probe"
  /\ LET accepted == lifecycle[request[h]] IN
       /\ lifecycleOk' = [lifecycleOk EXCEPT ![h] = accepted]
       /\ \/ Goto(h, "evaluate")
          \/ ~ accepted /\ request[h] \in Subagent /\ Goto(h, "reprove")
  /\ UNCHANGED <<storeVars, lock, class, proposal, lifecycle, answer>>

\* The snapshot cannot be read: the attempt ends as an error.
LifecycleUnreadable(h) ==
  /\ pc[h] = "probe"
  /\ proposal' = [proposal EXCEPT ![h] = "error"]
  /\ Goto(h, "yield")
  /\ UNCHANGED <<storeVars, lock, class, lifecycleOk, lifecycle, answer>>

\* reprove_codex_subagent persists the turn found in the transcript.
Reprove(h) ==
  /\ pc[h] = "reprove"
  /\ lifecycle' = [lifecycle EXCEPT ![request[h]] = TRUE]
  /\ Goto(h, "reprobe")
  /\ UNCHANGED <<storeVars, lock, class, proposal, lifecycleOk, answer>>

ReproveFails(h) ==
  /\ pc[h] = "reprove"
  /\ \/ UNCHANGED lifecycle
     \/ lifecycle' = [lifecycle EXCEPT ![request[h]] = TRUE]
  /\ Goto(h, "evaluate")
  /\ UNCHANGED <<storeVars, lock, class, proposal, lifecycleOk, answer>>

Reprobe(h) ==
  /\ pc[h] = "reprobe"
  /\ \E readable \in BOOLEAN :
       lifecycleOk' = [lifecycleOk EXCEPT ![h] = readable /\ lifecycle[request[h]]]
  /\ Goto(h, "evaluate")
  /\ UNCHANGED <<storeVars, lock, class, proposal, lifecycle, answer>>

------------------------------------------------------------------------------
(* Evaluation: outside every transaction, up to 25 seconds of inference. *)

Propose(h, disposition) ==
  /\ proposal' = [proposal EXCEPT ![h] = disposition]
  /\ lifecycleOk' = [lifecycleOk EXCEPT ![h] = FALSE]  \* not read any more
  /\ Goto(h, IF disposition \in Action THEN "commit" ELSE "yield")
  /\ UNCHANGED <<storeVars, lock, class, lifecycle, answer>>

EvaluateDeterministic(h) ==
  /\ pc[h] = "evaluate"
  /\ Deterministic(h)
  /\ Propose(h, "deny")

EvaluateIndeterminate(h) ==
  /\ pc[h] = "evaluate"
  /\ class[h] = "indeterminate"
  /\ \E d \in {"abstained", "error"} : Propose(h, d)

\* Mode off or advisory, unsupported tool, low confidence, inference or model
\* admission failure: no authority.
EvaluateAbstains(h) ==
  /\ pc[h] = "evaluate"
  /\ class[h] \in {"open", "confirm"}
  /\ \E d \in {"abstained", "error"} : Propose(h, d)

ModelDenies(h) ==
  /\ pc[h] = "evaluate"
  /\ class[h] \in {"open", "confirm"}
  /\ Propose(h, "deny")

\* An approval stands only where neither the provider policy nor the probed
\* lifecycle objects.
ModelAllows(h) ==
  /\ pc[h] = "evaluate"
  /\ class[h] \in {"open", "confirm"}
  /\ Propose(h, IF class[h] = "confirm" THEN "abstained"
                ELSE IF lifecycleOk[h] THEN "allow" ELSE "error")

------------------------------------------------------------------------------
(* Settlement.  The guard is consumed, so the lock is released either way. *)

FinishWithoutAuthority(h) ==
  /\ pc[h] = "yield"
  /\ FinishRows(h, proposal[h])
  /\ Release(h)
  /\ Goto(h, Unanswered(h))
  /\ UNCHANGED <<class, proposal, lifecycleOk, lifecycle, answer>>

FinishFails(h) ==
  /\ pc[h] = "yield"
  /\ Release(h)
  /\ Goto(h, Unanswered(h))
  /\ UNCHANGED <<storeVars, class, proposal, lifecycleOk, lifecycle, answer>>

\* Mutant of ResponseEligible: the snapshot of the probe is trusted.
ResponseEligibleUnchecked(h) == ~ Deterministic(h)

\* A model approval is replayed on the lifecycle the transaction reads.
ResponseEligible(h) ==
  /\ ~ Deterministic(h)
  /\ proposal[h] = "allow" => lifecycle[request[h]]

CommitPermission(h) ==
  /\ pc[h] = "commit"
  /\ CommitRows(h, proposal[h], ResponseEligible(h))
  /\ Release(h)
  /\ Goto(h, IF Deterministic(h) \/ ResponseEligible(h) THEN "respond" ELSE "done")
  /\ UNCHANGED <<class, proposal, lifecycleOk, lifecycle, answer>>

\* Mutant of CommitFails: an uncertain commit is taken for a commit.
CommitFailsOptimistic(h) ==
  /\ pc[h] = "commit"
  /\ \/ UNCHANGED storeVars
     \/ CommitRows(h, proposal[h], ResponseEligible(h))
  /\ Release(h)
  /\ Goto(h, "respond")
  /\ UNCHANGED <<class, proposal, lifecycleOk, lifecycle, answer>>

\* The commit cannot be prepared, the transaction fails, or its outcome is
\* uncertain: the authority may be durable, the hook must not use it.
CommitFails(h) ==
  /\ pc[h] = "commit"
  /\ \/ UNCHANGED storeVars
     \/ CommitRows(h, proposal[h], ResponseEligible(h))
  /\ Release(h)
  /\ Goto(h, DenyOr(h, "done"))
  /\ UNCHANGED <<class, proposal, lifecycleOk, lifecycle, answer>>

------------------------------------------------------------------------------
(* Response and delivery evidence. *)

\* write_response: the provider receives the answer or nothing it can use.
Write(h, response) ==
  \E received \in {response, "lost"} : answer' = [answer EXCEPT ![h] = received]

Respond(h) ==
  /\ pc[h] = "respond"
  /\ Write(h, proposal[h])
  /\ Goto(h, "record")
  /\ UNCHANGED <<storeVars, lock, class, proposal, lifecycleOk, lifecycle>>

\* Mutant of Evidence: the write is assumed to succeed.
EvidenceAssumed(h) == "delivered"
Evidence(h) == IF answer[h] = "lost" THEN "failed" ELSE "delivered"

DeliveryRecorded(h) ==
  IF Deterministic(h) THEN AppendRow(h, DeliveryActivity(Evidence(h)))
  ELSE DeliveryRows(h, proposal[h], Evidence(h))

RecordDelivery(h) ==
  /\ pc[h] = "record"
  /\ UNCHANGED storeVars \/ DeliveryRecorded(h)
  /\ Goto(h, "done")
  /\ UNCHANGED <<lock, class, proposal, lifecycleOk, lifecycle, answer>>

EmitDeny(h) ==
  /\ pc[h] = "deny"
  /\ Write(h, "deny")
  /\ Goto(h, "done")
  /\ UNCHANGED <<storeVars, lock, class, proposal, lifecycleOk, lifecycle>>

EmitAsk(h) ==
  /\ pc[h] = "ask"
  /\ Write(h, "ask")
  /\ Goto(h, "done")
  /\ UNCHANGED <<storeVars, lock, class, proposal, lifecycleOk, lifecycle>>

------------------------------------------------------------------------------
(* The environment. *)

\* The process dies (killed by the provider, or by a hook timeout): the
\* operating system drops its lock, SQLite an open transaction.
Die(h) ==
  /\ pc[h] \notin {"done", "dead"}
  /\ Goto(h, "dead")
  /\ lock' = [s \in Shard |-> IF lock[s] = h THEN None ELSE lock[s]]
  /\ proposal' = [proposal EXCEPT ![h] = None]
  /\ lifecycleOk' = [lifecycleOk EXCEPT ![h] = FALSE]
  /\ UNCHANGED <<storeVars, class, lifecycle, answer>>

\* A lifecycle hook moves the session the request belongs to.
LifecycleMoves(i) ==
  /\ lifecycle' = [lifecycle EXCEPT ![i] = ~ @]
  /\ UNCHANGED <<storeVars, pc, lock, class, proposal, lifecycleOk, answer>>

HookStep(h) ==
  \/ RejectInput(h) \/ OpenDatabase(h) \/ OpenFails(h)
  \/ AcquireLock(h) \/ LockContended(h) \/ LockFails(h)
  \/ Admit(h) \/ SuppressDuplicate(h) \/ AdmitFails(h)
  \/ Probe(h) \/ LifecycleUnreadable(h)
  \/ Reprove(h) \/ ReproveFails(h) \/ Reprobe(h)
  \/ EvaluateDeterministic(h) \/ EvaluateIndeterminate(h) \/ EvaluateAbstains(h)
  \/ ModelDenies(h) \/ ModelAllows(h)
  \/ FinishWithoutAuthority(h) \/ FinishFails(h)
  \/ CommitPermission(h) \/ CommitFails(h)
  \/ Respond(h) \/ RecordDelivery(h) \/ EmitDeny(h) \/ EmitAsk(h)

Next ==
  \/ \E h \in Hook : HookStep(h) \/ Die(h)
  \/ \E i \in Identity : LifecycleMoves(i)

Spec == Init /\ [][Next]_vars

\* Every blocking call of a hook is bounded by its storage deadline or by the
\* inference timeout, so a live invocation keeps stepping.
Fairness == \A h \in Hook : WF_vars(HookStep(h))

LiveSpec == Spec /\ Fairness

------------------------------------------------------------------------------
(* Properties. *)

Live(h) == attempts[h].state \in {"evaluating", "needs_input", "decided"}

\* A request has at most one attempt that is being evaluated or is settled:
\* the lock, the abandonment of dead attempts and the duplicate query of
\* admit_permission together keep two invocations from owning one request.
OneLiveAttempt ==
  \A g, h \in Hook :
    g # h /\ request[g] = request[h] => ~ (Live(g) /\ Live(h))

\* While an invocation holds its guard nobody else settles or abandons its
\* attempt: the recovery that admission performs on dead attempts can never
\* hit a live one, because both need the same lock file.
GuardedAttemptIsOpen ==
  \A h \in Hook : pc[h] \in Guarded => ExactAttempt(h) /\ lock[ShardFor(h)] = h

\* An allow or deny of the model reaches the provider only when the same
\* decision is durable and was committed as eligible for a response.
AnswerIsCommitted ==
  \A h \in Hook :
    answer[h] \in Action /\ ~ Deterministic(h) =>
      /\ attempts[h] = [state |-> "decided", authority |-> answer[h]]
      /\ commits[h].recorded /\ commits[h].eligible
      /\ commits[h].action = answer[h]

\* Over all the invocations of one request the model answers at most once, so
\* it never contradicts itself and a crashed response is never replayed.
OneModelAnswer ==
  \A g, h \in Hook :
    /\ answer[g] \in Action /\ ~ Deterministic(g)
    /\ answer[h] \in Action /\ ~ Deterministic(h)
    /\ request[g] = request[h]
    => g = h

\* Delivery evidence tells the truth about standard output, and a commit that
\* is not eligible (every deterministic one) never claims a delivery.
DeliveryIsTruthful ==
  \A h \in Hook :
    /\ commits[h].delivery = "delivered" => answer[h] = commits[h].action
    /\ commits[h].delivery = "failed" => answer[h] = "lost"
    /\ commits[h].delivery = "not_required" <=> ~ commits[h].eligible

\* The activity of an attempt can be read back as its row: a reader of the
\* audit trail sees exactly one outcome for a settled attempt, none for one
\* that is open or abandoned, and a delivery only behind a decision.
TrailOf(h) ==
  CASE attempts[h].state = "absent" -> {<<>>}
    [] attempts[h].state \in {"evaluating", "abandoned"} ->
         {<<"observed", "evaluating">>}
    [] attempts[h].state = "needs_input" ->
         {<<"observed", "evaluating", t>> : t \in {"abstained", "error"}}
    [] attempts[h].state = "decided" ->
         LET decided == <<"observed", "evaluating", Terminal(attempts[h].authority)>>
         IN IF commits[h].delivery \in {"delivered", "failed"}
            THEN {Append(decided, DeliveryActivity(commits[h].delivery))}
            ELSE IF commits[h].delivery = "pending" THEN {decided}
            ELSE {decided, Append(decided, "delivered"),
                  Append(decided, "delivery_failed")}

TrailMatchesAttempt == \A h \in Hook : trail[h] \in TrailOf(h)

\* The invocation stops trying to answer on this step, whatever it says next.
GivesUp(h) == /\ pc[h] \notin {"yield", "ask", "done"}
              /\ pc'[h] \in {"yield", "ask", "done"}

\* The provider was sent a deny, which standard output may have lost.
DenyWritten(h) == pc[h] = "done" /\ answer[h] \in {"deny", "lost"}

\* admit_permission answers Ok(None): the lock file of the request is held, or
\* its duplicate query finds a settled attempt and admits nothing.
Suppressed(h) ==
  \/ pc[h] = "lock" /\ lock[ShardFor(h)] # None
  \/ pc[h] = "admit" /\ Duplicate(request[h]) /\ UNCHANGED storeVars

\* A code-owned deny fails closed: an invocation that owes one writes it
\* before it ends, whichever of opening the database, taking the lock,
\* admitting or committing fails on the way (permission_hook.rs:1384-1470 and
\* 1766-1796).  Two steps may give it up: the one that finds the request
\* suppressed, and the probe that cannot read the lifecycle, where the code
\* departs from its own decision records (AdmittedDenyIsTold below).
DenyStands(h) ==
  GivesUp(h) /\ Deterministic(h)' =>
    DenyWritten(h)' \/ Suppressed(h) \/ (pc[h] = "probe" /\ proposal'[h] = "error")

DeterministicDenyStands == [][\A h \in Hook : DenyStands(h)]_vars

\* What ADR-0003:69-71 says of the code-owned denies: they fail closed when
\* audit stores are unavailable, after the request has won guarded admission.
\* An invocation that admitted its attempt and ran to its end told the deny.
AdmittedDenyIsTold ==
  \A h \in Hook :
    pc[h] = "done" /\ Deterministic(h) /\ attempts[h] # NoAttempt =>
      DenyWritten(h)

\* A settled or abandoned attempt never changes again, a commit row keeps its
\* authority, and delivery evidence is written once.
StaysSettled(h) ==
  /\ attempts[h].state \in {"needs_input", "decided", "abandoned"} =>
       attempts'[h] = attempts[h]
  /\ commits[h].recorded =>
       /\ commits'[h].action = commits[h].action
       /\ commits'[h].eligible = commits[h].eligible
       /\ commits[h].delivery # "pending" => commits'[h] = commits[h]

SettledIsFinal == [][\A h \in Hook : StaysSettled(h)]_vars

\* A model approval becomes eligible only in a state whose lifecycle accepts
\* it, however stale the snapshot that the invocation probed before inference.
ApprovalAccepted(h) ==
  ~ commits[h].eligible /\ commits'[h].eligible /\ commits'[h].action = "allow"
    => lifecycle[request[h]]

ApprovalSeesLifecycle == [][\A h \in Hook : ApprovalAccepted(h)]_vars

\* Every request lock is given up: no path of the hook, and no death, leaves
\* later invocations suppressed for ever by a lock that nobody will drop.
LockIsReleased ==
  \A s \in Shard : \A h \in Hook : lock[s] = h ~> lock[s] # h

------------------------------------------------------------------------------
(* The inductive invariant the theorems rest on. *)

\* The disposition fits the point the invocation has reached.
ProposalFits ==
  \A h \in Hook :
    /\ pc[h] \in {"commit", "respond", "record"} => proposal[h] \in Action
    /\ pc[h] = "yield" => proposal[h] \in {"abstained", "error"}

\* An invocation between its lock and its settlement holds its lock file.
LockHeld ==
  \A h \in Hook : pc[h] \in Guarded \cup {"admit"} => lock[ShardFor(h)] = h

GuardOpen == \A h \in Hook : pc[h] \in Guarded => ExactAttempt(h)

\* Before it admits, an invocation owns no row.
FreshUntilAdmitted ==
  \A h \in Hook :
    pc[h] \in {"start", "lock", "admit"} => attempts[h] = NoAttempt /\ commits[h] = NoCommit

\* Decided attempts and commit rows go together.
DecidedIsRecorded ==
  \A h \in Hook : attempts[h].state = "decided" <=> commits[h].recorded

Committed(h, a) ==
  /\ attempts[h] = [state |-> "decided", authority |-> a]
  /\ commits[h].recorded /\ commits[h].eligible /\ commits[h].action = a

\* A response is written behind its commit, or on the hook's own authority.
RespondCommitted ==
  \A h \in Hook :
    /\ pc[h] \in {"respond", "record"} /\ ~ Deterministic(h) => Committed(h, proposal[h])
    /\ pc[h] = "deny" => Deterministic(h)

AnswerLast ==
  \A h \in Hook : answer[h] \in Action => pc[h] \in {"record", "done", "dead"}

\* All of it: what must hold of the processes and their rows together for the
\* properties above to survive every step.
IInv == /\ TypeOK /\ ProposalFits
        /\ LockHeld /\ GuardOpen /\ FreshUntilAdmitted /\ DecidedIsRecorded
        /\ OneLiveAttempt /\ RespondCommitted /\ AnswerLast /\ AnswerIsCommitted
==============================================================================
