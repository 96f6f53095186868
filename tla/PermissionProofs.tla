---------------------------- MODULE PermissionProofs ----------------------------
(***************************************************************************)
(* Theorems about the permission hook, for any number of invocations,      *)
(* requests and lock files: who may answer and write; and, on top of that  *)
(* inductive invariant, what the permission tables tell afterwards: that   *)
(* their evidence is true, that the audit trail reads back as the rows,    *)
(* and that the processes over them implement the authority each request   *)
(* was promised.                                                           *)
(***************************************************************************)
EXTENDS PermissionRefinement, SequenceTheorems, TLAPS

\* The rows and commits that a transaction writes are well typed.
LEMMA RowTypes ==
  ASSUME StoreTypeOK
  PROVE  /\ \A h \in Hook : AdmitRows(h) => StoreTypeOK'
         /\ \A h \in Hook, t \in {"abstained", "error"} : FinishRows(h, t) => StoreTypeOK'
         /\ \A h \in Hook, a \in Action, e \in BOOLEAN : CommitRows(h, a, e) => StoreTypeOK'
         /\ \A h \in Hook, a \in Action, e \in {"delivered", "failed"} :
              DeliveryRows(h, a, e) => StoreTypeOK'
         /\ \A h \in Hook, t \in ActivityState : AppendRow(h, t) => StoreTypeOK'
<1> USE DEF StoreTypeOK
<1>1. ASSUME NEW h \in Hook, AdmitRows(h)
      PROVE  StoreTypeOK'
  <2>1. attempts' \in [Hook -> Attempt]
    BY <1>1 DEF AdmitRows, Attempt, AttemptState
  <2>2. <<"observed", "evaluating">> \in Seq(ActivityState)
    BY DEF ActivityState
  <2>3. trail[h] \o <<"observed", "evaluating">> \in Seq(ActivityState)
    BY <2>2, ConcatProperties
  <2>4. trail' \in [Hook -> Seq(ActivityState)]
    BY <1>1, <2>3 DEF AdmitRows
  <2> QED  BY <1>1, <2>1, <2>4 DEF AdmitRows
<1>2. ASSUME NEW h \in Hook, NEW t \in {"abstained", "error"}, FinishRows(h, t)
      PROVE  StoreTypeOK'
  <2>1. attempts' \in [Hook -> Attempt]
    BY <1>2 DEF FinishRows, Attempt, AttemptState
  <2>2. Append(trail[h], t) \in Seq(ActivityState)
    BY AppendProperties DEF ActivityState
  <2> QED  BY <1>2, <2>1, <2>2 DEF FinishRows
<1>3. ASSUME NEW h \in Hook, NEW a \in Action, NEW e \in BOOLEAN, CommitRows(h, a, e)
      PROVE  StoreTypeOK'
  <2>1. attempts' \in [Hook -> Attempt]
    BY <1>3 DEF CommitRows, Attempt, AttemptState
  <2>2. Append(trail[h], Terminal(a)) \in Seq(ActivityState)
    BY AppendProperties DEF ActivityState, Terminal
  <2>3. commits' \in [Hook -> Commit]
    BY <1>3 DEF CommitRows, Commit, DeliveryState
  <2> QED  BY <1>3, <2>1, <2>2, <2>3 DEF CommitRows
<1>4. ASSUME NEW h \in Hook, NEW a \in Action, NEW e \in {"delivered", "failed"},
             DeliveryRows(h, a, e)
      PROVE  StoreTypeOK'
  <2>1. Append(trail[h], DeliveryActivity(e)) \in Seq(ActivityState)
    BY AppendProperties DEF ActivityState, DeliveryActivity
  <2>2. commits' \in [Hook -> Commit]
    BY <1>4 DEF DeliveryRows, Commit, DeliveryState
  <2> QED  BY <1>4, <2>1, <2>2 DEF DeliveryRows
<1>5. ASSUME NEW h \in Hook, NEW t \in ActivityState, AppendRow(h, t)
      PROVE  StoreTypeOK'
  <2>1. Append(trail[h], t) \in Seq(ActivityState)
    BY AppendProperties
  <2> QED  BY <1>5, <2>1 DEF AppendRow
<1> QED  BY <1>1, <1>2, <1>3, <1>4, <1>5

\* The types hold initially.
LEMMA InitType == Init => TypeOK /\ ProposalFits
<1> SUFFICES ASSUME Init PROVE TypeOK /\ ProposalFits
  OBVIOUS
<1>1. StoreTypeOK
  <2>1. <<>> \in Seq(ActivityState)
    OBVIOUS
  <2> QED  BY <2>1 DEF Init, StoreInit, StoreTypeOK, NoAttempt, NoCommit,
             Attempt, AttemptState, Commit, DeliveryState
<1>2. ProposalFits
  BY DEF Init, ProposalFits
<1>3. QED
  BY <1>1, <1>2, ShardAssumption DEF Init, TypeOK, Control, Class, Disposition, Answer

\* The control part of a step, given what it does to the tables.
LEMMA ControlTypes ==
  ASSUME TypeOK, ProposalFits, NEW h \in Hook, HookStep(h), StoreTypeOK'
  PROVE  TypeOK' /\ ProposalFits'
<1> USE ShardAssumption DEF TypeOK, ProposalFits, Goto, Control, Guarded, Disposition, Action
<1>0. request \in [Hook -> Identity]
  BY DEF StoreTypeOK
<1>1. CASE RejectInput(h)
  BY <1>0, <1>1 DEF RejectInput, Unanswered
<1>2. CASE OpenDatabase(h)
  BY <1>0, <1>2 DEF OpenDatabase, Classify, Class
<1>3. CASE OpenFails(h)
  BY <1>0, <1>3 DEF OpenFails, Classify, Class, Unanswered
<1>4. CASE AcquireLock(h)
  BY <1>0, <1>4 DEF AcquireLock, ShardFor
<1>5. CASE LockContended(h)
  BY <1>0, <1>5 DEF LockContended, Unanswered
<1>6. CASE LockFails(h)
  BY <1>0, <1>6 DEF LockFails, DenyOr
<1>7. CASE Admit(h)
  BY <1>0, <1>7 DEF Admit
<1>8. CASE SuppressDuplicate(h)
  BY <1>0, <1>8 DEF SuppressDuplicate, Release, Unanswered, ShardFor
<1>9. CASE AdmitFails(h)
  BY <1>0, <1>9 DEF AdmitFails, Release, ShardFor, DenyOr
<1>10. CASE Probe(h)
  BY <1>0, <1>10 DEF Probe
<1>11. CASE LifecycleUnreadable(h)
  BY <1>0, <1>11 DEF LifecycleUnreadable
<1>12. CASE Reprove(h)
  BY <1>0, <1>12 DEF Reprove
<1>13. CASE ReproveFails(h)
  BY <1>0, <1>13 DEF ReproveFails
<1>14. CASE Reprobe(h)
  BY <1>0, <1>14 DEF Reprobe
<1>15. CASE EvaluateDeterministic(h)
  BY <1>0, <1>15 DEF EvaluateDeterministic, Propose
<1>16. CASE EvaluateIndeterminate(h)
  BY <1>0, <1>16 DEF EvaluateIndeterminate, Propose
<1>17. CASE EvaluateAbstains(h)
  BY <1>0, <1>17 DEF EvaluateAbstains, Propose
<1>18. CASE ModelDenies(h)
  BY <1>0, <1>18 DEF ModelDenies, Propose
<1>19. CASE ModelAllows(h)
  BY <1>0, <1>19 DEF ModelAllows, Propose
<1>20. CASE FinishWithoutAuthority(h)
  BY <1>0, <1>20 DEF FinishWithoutAuthority, Release, ShardFor, Unanswered
<1>21. CASE FinishFails(h)
  BY <1>0, <1>21 DEF FinishFails, Release, ShardFor, Unanswered
<1>22. CASE CommitPermission(h)
  BY <1>0, <1>22 DEF CommitPermission, Release, ShardFor
<1>23. CASE CommitFails(h)
  BY <1>0, <1>23 DEF CommitFails, Release, ShardFor, DenyOr
<1>24. CASE Respond(h)
  BY <1>0, <1>24 DEF Respond, Write, Answer
<1>25. CASE RecordDelivery(h)
  BY <1>0, <1>25 DEF RecordDelivery
<1>26. CASE EmitDeny(h)
  BY <1>0, <1>26 DEF EmitDeny, Write, Answer
<1>27. CASE EmitAsk(h)
  BY <1>0, <1>27 DEF EmitAsk, Write, Answer
<1> QED
  BY <1>1, <1>2, <1>3, <1>4, <1>5, <1>6, <1>7, <1>8, <1>9, <1>10, <1>11, <1>12, <1>13, <1>14, <1>15, <1>16, <1>17, <1>18, <1>19, <1>20, <1>21, <1>22, <1>23, <1>24, <1>25, <1>26, <1>27 DEF HookStep

\* The table part of a step: one of the transactions of PermissionStore, or
\* nothing.
StoreStep(h) ==
  \/ UNCHANGED storeVars
  \/ pc[h] = "admit" /\ AdmitRows(h)
  \/ pc[h] = "yield" /\ FinishRows(h, proposal[h])
  \/ pc[h] = "commit" /\ CommitRows(h, proposal[h], ResponseEligible(h))
  \/ pc[h] = "record" /\ DeliveryRecorded(h)

\* Every step of an invocation is, on the tables, one of the transactions or none.
LEMMA HookStoreStep == \A h \in Hook : HookStep(h) => StoreStep(h)
<1> SUFFICES ASSUME NEW h \in Hook, HookStep(h) PROVE StoreStep(h)
  OBVIOUS
<1> USE DEF StoreStep
<1>1. CASE RejectInput(h) \/ OpenDatabase(h) \/ OpenFails(h) \/ AcquireLock(h) \/ LockContended(h) \/ LockFails(h)
              \/ SuppressDuplicate(h) \/ Probe(h) \/ LifecycleUnreadable(h) \/ Reprove(h) \/ ReproveFails(h) \/ Reprobe(h)
              \/ FinishFails(h) \/ Respond(h) \/ EmitDeny(h) \/ EmitAsk(h)
  BY <1>1 DEF RejectInput, OpenDatabase, OpenFails, AcquireLock, LockContended, LockFails, SuppressDuplicate, Probe,
     LifecycleUnreadable, Reprove, ReproveFails, Reprobe, FinishFails, Respond, EmitDeny, EmitAsk
<1>2. CASE EvaluateDeterministic(h) \/ EvaluateIndeterminate(h) \/ EvaluateAbstains(h)
              \/ ModelDenies(h) \/ ModelAllows(h)
  BY <1>2 DEF EvaluateDeterministic, EvaluateIndeterminate, EvaluateAbstains, ModelDenies, ModelAllows, Propose
<1>3. CASE Admit(h)
  BY <1>3 DEF Admit
<1>4. CASE AdmitFails(h)
  BY <1>4 DEF AdmitFails
<1>5. CASE FinishWithoutAuthority(h)
  BY <1>5 DEF FinishWithoutAuthority
<1>6. CASE CommitPermission(h)
  BY <1>6 DEF CommitPermission
<1>7. CASE CommitFails(h)
  BY <1>7 DEF CommitFails
<1>8. CASE RecordDelivery(h)
  BY <1>8 DEF RecordDelivery
<1> QED
  BY <1>1, <1>2, <1>3, <1>4, <1>5, <1>6, <1>7, <1>8 DEF HookStep

\* No transaction disturbs the types of the tables.
LEMMA StoreStepTypes ==
  ASSUME TypeOK, ProposalFits, NEW h \in Hook, StoreStep(h)
  PROVE  StoreTypeOK'
<1>0. StoreTypeOK
  BY DEF TypeOK
<1>1. CASE UNCHANGED storeVars
  BY <1>0, <1>1 DEF storeVars, StoreTypeOK
<1>2. CASE pc[h] = "admit" /\ AdmitRows(h)
  BY <1>0, <1>2, RowTypes
<1>3. CASE pc[h] = "yield" /\ FinishRows(h, proposal[h])
  BY <1>0, <1>3, RowTypes DEF ProposalFits
<1>4. CASE pc[h] = "commit" /\ CommitRows(h, proposal[h], ResponseEligible(h))
  <2>1. ResponseEligible(h) \in BOOLEAN
    BY DEF ResponseEligible
  <2>2. proposal[h] \in Action
    BY <1>4 DEF ProposalFits
  <2> QED  BY <1>0, <1>4, <2>1, <2>2, RowTypes
<1>5. CASE pc[h] = "record" /\ DeliveryRecorded(h)
  <2>1. Evidence(h) \in {"delivered", "failed"} /\ proposal[h] \in Action
    BY <1>5 DEF Evidence, ProposalFits
  <2>2. DeliveryActivity(Evidence(h)) \in ActivityState
    BY DEF DeliveryActivity, ActivityState
  <2> QED  BY <1>0, <1>5, <2>1, <2>2, RowTypes DEF DeliveryRecorded
<1> QED  BY <1>1, <1>2, <1>3, <1>4, <1>5 DEF StoreStep

\* No step disturbs the types.
LEMMA NextType == TypeOK /\ ProposalFits /\ [Next]_vars => TypeOK' /\ ProposalFits'
<1> SUFFICES ASSUME TypeOK, ProposalFits, [Next]_vars
             PROVE  TypeOK' /\ ProposalFits'
  OBVIOUS
<1>1. ASSUME NEW h \in Hook, HookStep(h)
      PROVE  TypeOK' /\ ProposalFits'
  BY <1>1, HookStoreStep, StoreStepTypes, ControlTypes
<1>2. ASSUME NEW h \in Hook, Die(h)
      PROVE  TypeOK' /\ ProposalFits'
  BY <1>2 DEF Die, Goto, TypeOK, StoreTypeOK, storeVars, ProposalFits, Control, Disposition
<1>3. ASSUME NEW i \in Identity, LifecycleMoves(i)
      PROVE  TypeOK' /\ ProposalFits'
  BY <1>3 DEF LifecycleMoves, TypeOK, StoreTypeOK, storeVars, ProposalFits
<1>4. CASE UNCHANGED vars
  BY <1>4 DEF vars, hookVars, storeVars, TypeOK, StoreTypeOK, ProposalFits
<1> QED  BY <1>1, <1>2, <1>3, <1>4 DEF Next

\* Type correctness of the tables and of every invocation.
THEOREM TypeCorrect == Spec => [](TypeOK /\ ProposalFits)
<1> QED  BY InitType, NextType, PTL DEF Spec

------------------------------------------------------------------------------
(* The inductive invariant, IInv of module PermissionHook. *)

\* The inductive invariant holds initially.
LEMMA InitIInv == Init => IInv
<1> SUFFICES ASSUME Init PROVE IInv
  OBVIOUS
<1>1. TypeOK /\ ProposalFits
  BY InitType
<1>2. LockHeld /\ GuardOpen /\ RespondCommitted /\ AnswerLast /\ AnswerIsCommitted
  BY DEF Init, LockHeld, GuardOpen, RespondCommitted, AnswerLast, AnswerIsCommitted,
     Guarded, Action
<1>3. FreshUntilAdmitted /\ DecidedIsRecorded /\ OneLiveAttempt
  BY DEF Init, StoreInit, FreshUntilAdmitted, DecidedIsRecorded, OneLiveAttempt, Live,
     NoAttempt, NoCommit
<1> QED  BY <1>1, <1>2, <1>3 DEF IInv

\* Steps that leave the tables alone.  The lock moves only between a free file
\* and its holder, and an answer is written only behind a commit.
LEMMA QuietStep ==
  ASSUME IInv, TypeOK', ProposalFits', NEW h \in Hook, HookStep(h), UNCHANGED storeVars
  PROVE  IInv'
<1> USE ShardAssumption, NoneAssumption
    DEF IInv, LockHeld, GuardOpen, FreshUntilAdmitted, DecidedIsRecorded, OneLiveAttempt,
        RespondCommitted, AnswerLast, AnswerIsCommitted, Committed, Deterministic, ShardFor,
        ExactAttempt, Live, Guarded, Action, Goto, storeVars
<1>0. /\ request \in [Hook -> Identity] /\ lock \in [Shard -> Hook \cup {None}]
      /\ pc \in [Hook -> Control] /\ class \in [Hook -> Class]
      /\ proposal \in [Hook -> Disposition] /\ answer \in [Hook -> Answer]
  BY DEF TypeOK, StoreTypeOK
<1>1. CASE RejectInput(h)
  BY <1>0, <1>1 DEF RejectInput, Unanswered
<1>2. CASE OpenDatabase(h)
  BY <1>0, <1>2 DEF OpenDatabase, Classify
<1>3. CASE OpenFails(h)
  BY <1>0, <1>3 DEF OpenFails, Classify, Unanswered
<1>4. CASE AcquireLock(h)
  BY <1>0, <1>4 DEF AcquireLock
<1>5. CASE LockContended(h)
  BY <1>0, <1>5 DEF LockContended, Unanswered
<1>6. CASE LockFails(h)
  BY <1>0, <1>6 DEF LockFails, DenyOr
<1>7. CASE SuppressDuplicate(h)
  BY <1>0, <1>7 DEF SuppressDuplicate, Release, Unanswered
<1>8. CASE AdmitFails(h)
  BY <1>0, <1>8 DEF AdmitFails, Release, DenyOr
<1>9. CASE Probe(h)
  <2>1. /\ pc[h] = "probe" /\ pc' \in {[pc EXCEPT ![h] = "evaluate"], [pc EXCEPT ![h] = "reprove"]}
        /\ UNCHANGED <<request, attempts, commits, lock, class, proposal, answer>>
    BY <1>0, <1>9 DEF Probe
  <2> QED  BY <1>0, <2>1
<1>10. CASE LifecycleUnreadable(h)
  BY <1>0, <1>10 DEF LifecycleUnreadable
<1>11. CASE Reprove(h)
  BY <1>0, <1>11 DEF Reprove
<1>12. CASE ReproveFails(h)
  BY <1>0, <1>12 DEF ReproveFails
<1>13. CASE Reprobe(h)
  BY <1>0, <1>13 DEF Reprobe
<1>14. CASE EvaluateDeterministic(h)
  BY <1>0, <1>14 DEF EvaluateDeterministic, Propose
<1>15. CASE EvaluateIndeterminate(h)
  BY <1>0, <1>15 DEF EvaluateIndeterminate, Propose
<1>16. CASE EvaluateAbstains(h)
  BY <1>0, <1>16 DEF EvaluateAbstains, Propose
<1>17. CASE ModelDenies(h)
  BY <1>0, <1>17 DEF ModelDenies, Propose
<1>18. CASE ModelAllows(h)
  BY <1>0, <1>18 DEF ModelAllows, Propose
<1>19. CASE FinishFails(h)
  BY <1>0, <1>19 DEF FinishFails, Release, Unanswered
<1>20. CASE CommitFails(h)
  BY <1>0, <1>20 DEF CommitFails, Release, DenyOr
<1>21. CASE Respond(h)
  BY <1>0, <1>21 DEF Respond, Write
<1>22. CASE RecordDelivery(h)
  BY <1>0, <1>22 DEF RecordDelivery
<1>23. CASE EmitDeny(h)
  <2>1. /\ pc[h] = "deny" /\ pc' = [pc EXCEPT ![h] = "done"] /\ Deterministic(h)
        /\ UNCHANGED <<request, attempts, commits, lock, class, proposal>>
    BY <1>0, <1>23 DEF EmitDeny
  <2>2. \A g \in Hook \ {h} : answer'[g] = answer[g]
    BY ONLY <1>0, <1>23 DEF EmitDeny, Write
  <2> QED  BY <1>0, <2>1, <2>2
<1>24. CASE EmitAsk(h)
  BY <1>0, <1>24 DEF EmitAsk, Write
<1>25. CASE Admit(h) \/ FinishWithoutAuthority(h) \/ CommitPermission(h)
  <2>1. attempts \in [Hook -> Attempt] /\ attempts' = attempts
    BY DEF TypeOK, StoreTypeOK
  <2>2. attempts'[h].state # attempts[h].state
    BY <1>25, <2>1 DEF Admit, AdmitRows, FinishWithoutAuthority, FinishRows, CommitPermission,
       CommitRows, NoAttempt, Attempt
  <2> QED  BY <2>1, <2>2
<1> QED
  BY <1>1, <1>2, <1>3, <1>4, <1>5, <1>6, <1>7, <1>8, <1>9, <1>10, <1>11, <1>12, <1>13, <1>14, <1>15, <1>16, <1>17, <1>18, <1>19, <1>20, <1>21, <1>22, <1>23, <1>24, <1>25 DEF HookStep

\* admit_permission, whether or not the hook learns that it committed.  The
\* attempts it abandons belong to invocations that do not hold the lock file of
\* the request, so to none that is guarded.
LEMMA AdmitStep ==
  ASSUME IInv, TypeOK', ProposalFits', NEW h \in Hook,
         Admit(h) \/ (AdmitFails(h) /\ AdmitRows(h))
  PROVE  IInv'
<1> USE ShardAssumption, NoneAssumption
<1>0. /\ request \in [Hook -> Identity] /\ lock \in [Shard -> Hook \cup {None}]
      /\ pc \in [Hook -> Control] /\ attempts \in [Hook -> Attempt]
  BY DEF IInv, TypeOK, StoreTypeOK
<1>1. /\ pc[h] = "admit" /\ AdmitRows(h)
      /\ UNCHANGED <<request, commits, class, proposal, answer>>
      /\ pc'[h] \in {"probe", "deny", "done"}
      /\ \/ lock' = lock
         \/ pc'[h] # "probe" /\ lock' = [lock EXCEPT ![ShardFor(h)] = None]
      /\ \A g \in Hook \ {h} : pc'[g] = pc[g]
  BY <1>0 DEF Admit, AdmitFails, AdmitRows, Goto, Release, DenyOr
<1>2. ASSUME NEW g \in Hook, g # h
      PROVE  /\ attempts'[g] = attempts[g]
                \/ /\ request[g] = request[h] /\ attempts[g].state = "evaluating"
                   /\ attempts'[g] = [attempts[g] EXCEPT !.state = "abandoned"]
                   /\ pc[g] \notin Guarded
             /\ pc'[g] = pc[g]
  <2>1. request[g] = request[h] => pc[g] \notin Guarded
    BY <1>0, <1>1, <1>2 DEF IInv, LockHeld, ShardFor
  <2> QED  BY <1>0, <1>1, <1>2, <2>1 DEF AdmitRows
<1>3. attempts'[h] = [state |-> "evaluating", authority |-> None]
  BY <1>1 DEF AdmitRows
<1>4. LockHeld'
  BY <1>0, <1>1 DEF IInv, LockHeld, ShardFor, Guarded
<1>5. GuardOpen'
  <2>1. ASSUME NEW g \in Hook, g # h, pc'[g] \in Guarded
        PROVE  ExactAttempt(g)'
    BY <1>1, <1>2, <2>1 DEF IInv, GuardOpen, ExactAttempt
  <2> QED  BY <1>3, <2>1 DEF GuardOpen, ExactAttempt
<1>6. FreshUntilAdmitted'
  <2>1. ASSUME NEW g \in Hook, pc'[g] \in {"start", "lock", "admit"}
        PROVE  attempts'[g] = NoAttempt /\ commits'[g] = NoCommit
    <3>1. g # h /\ attempts[g] = NoAttempt /\ commits[g] = NoCommit
      BY <1>1, <2>1 DEF IInv, FreshUntilAdmitted
    <3>2. attempts[g].state # "evaluating"
      BY <3>1 DEF NoAttempt
    <3> QED  BY <1>1, <1>2, <3>1, <3>2
  <2> QED  BY <2>1 DEF FreshUntilAdmitted
<1>7. DecidedIsRecorded'
  <2>1. ~ commits[h].recorded
    BY <1>1 DEF IInv, FreshUntilAdmitted, NoCommit
  <2>2. \A g \in Hook \ {h} : attempts'[g].state = "decided" <=> attempts[g].state = "decided"
    BY <1>0, <1>2 DEF Attempt
  <2> QED  BY <1>1, <1>3, <2>1, <2>2 DEF IInv, DecidedIsRecorded
<1>8. OneLiveAttempt'
  <2>1. \A g \in Hook \ {h} : Live(g)' => Live(g)
    BY <1>0, <1>2 DEF Live, Attempt
  <2>2. \A g \in Hook \ {h} : request[g] = request[h] => ~ Live(g)'
    BY <1>0, <1>1, <1>2 DEF Live, AdmitRows, Duplicate, Settled, Attempt
  <2> QED  BY <1>1, <2>1, <2>2 DEF IInv, OneLiveAttempt
<1>9. ASSUME NEW g \in Hook, NEW a \in Action, Committed(g, a)
      PROVE  Committed(g, a)'
  <2>1. g # h /\ attempts[g].state = "decided"
    BY <1>1, <1>9 DEF Committed, IInv, FreshUntilAdmitted, NoAttempt
  <2> QED  BY <1>1, <1>2, <1>9, <2>1 DEF Committed
<1>10. RespondCommitted'
  <2>1. ASSUME NEW g \in Hook, pc'[g] \in {"respond", "record"}, ~ Deterministic(g)'
        PROVE  Committed(g, proposal[g])'
    <3>1. g # h /\ pc[g] = pc'[g] /\ ~ Deterministic(g) /\ proposal'[g] = proposal[g]
      BY <1>1, <2>1 DEF Deterministic
    <3>2. proposal[g] \in Action /\ Committed(g, proposal[g])
      BY <2>1, <3>1 DEF IInv, ProposalFits, RespondCommitted
    <3> QED  BY <1>9, <3>1, <3>2
  <2>2. ASSUME NEW g \in Hook, pc'[g] = "deny"
        PROVE  Deterministic(g)'
    <3>1. CASE g = h
      <4>1. Deterministic(h)
        BY <1>0, <2>2, <3>1 DEF Admit, AdmitFails, DenyOr, Goto
      <4> QED  BY <1>1, <3>1, <4>1 DEF Deterministic
    <3>2. CASE g # h
      BY <1>1, <1>2, <2>2, <3>2 DEF IInv, RespondCommitted, Deterministic
    <3> QED  BY <3>1, <3>2
  <2>3. proposal' = proposal
    BY <1>1
  <2> QED  BY <2>1, <2>2, <2>3 DEF RespondCommitted
<1>11. AnswerLast'
  BY <1>0, <1>1 DEF IInv, AnswerLast
<1>12. AnswerIsCommitted'
  BY <1>1, <1>9 DEF IInv, AnswerIsCommitted, Committed, Deterministic
<1> QED  BY <1>4, <1>5, <1>6, <1>7, <1>8, <1>10, <1>11, <1>12 DEF IInv

\* finish_permission_without_authority: the live attempt stays the only one.
LEMMA FinishStep ==
  ASSUME IInv, TypeOK', ProposalFits', NEW h \in Hook, FinishWithoutAuthority(h)
  PROVE  IInv'
<1>0. /\ request \in [Hook -> Identity] /\ lock \in [Shard -> Hook \cup {None}]
      /\ pc \in [Hook -> Control] /\ attempts \in [Hook -> Attempt]
  BY DEF IInv, TypeOK, StoreTypeOK
<1>1. /\ pc[h] = "yield" /\ attempts[h].state = "evaluating"
      /\ attempts' = [attempts EXCEPT ![h].state = "needs_input"]
      /\ UNCHANGED <<request, commits, class, proposal, answer>>
      /\ lock' = [lock EXCEPT ![ShardFor(h)] = None]
      /\ pc'[h] \in {"ask", "done"} /\ \A g \in Hook \ {h} : pc'[g] = pc[g]
  BY <1>0 DEF FinishWithoutAuthority, FinishRows, ExactAttempt, Release, Goto, Unanswered
<1>2. /\ attempts'[h].state = "needs_input"
      /\ \A g \in Hook \ {h} : attempts'[g] = attempts[g]
  BY <1>0, <1>1 DEF Attempt
<1>3. LockHeld'
  BY ShardAssumption, <1>0, <1>1 DEF IInv, LockHeld, ShardFor, Guarded
<1>4. GuardOpen' /\ FreshUntilAdmitted'
  BY <1>1, <1>2 DEF IInv, GuardOpen, FreshUntilAdmitted, ExactAttempt, Guarded
<1>5. DecidedIsRecorded'
  BY <1>1, <1>2 DEF IInv, DecidedIsRecorded
<1>6. OneLiveAttempt'
  <2>1. \A g \in Hook : Live(g)' => Live(g)
    BY <1>1, <1>2 DEF Live
  <2> QED  BY <1>1, <2>1 DEF IInv, OneLiveAttempt
<1>7. ASSUME NEW g \in Hook, NEW a \in Action, Committed(g, a)
      PROVE  Committed(g, a)'
  <2>1. g # h
    BY <1>1, <1>7 DEF Committed
  <2> QED  BY <1>1, <1>2, <1>7, <2>1 DEF Committed
<1>8. RespondCommitted'
  <2>1. ASSUME NEW g \in Hook, pc'[g] \in {"respond", "record"}, ~ Deterministic(g)'
        PROVE  Committed(g, proposal[g])'
    <3>1. g # h /\ pc[g] = pc'[g] /\ ~ Deterministic(g) /\ proposal'[g] = proposal[g]
      BY <1>1, <2>1 DEF Deterministic
    <3>2. proposal[g] \in Action /\ Committed(g, proposal[g])
      BY <2>1, <3>1 DEF IInv, ProposalFits, RespondCommitted
    <3> QED  BY <1>7, <3>1, <3>2
  <2>2. ASSUME NEW g \in Hook, pc'[g] = "deny"
        PROVE  Deterministic(g)'
    BY <1>1, <2>2 DEF IInv, RespondCommitted, Deterministic
  <2> QED  BY <1>1, <2>1, <2>2 DEF RespondCommitted
<1>9. AnswerLast'
  BY <1>1 DEF IInv, AnswerLast
<1>10. AnswerIsCommitted'
  BY <1>1, <1>7 DEF IInv, AnswerIsCommitted, Committed, Deterministic
<1> QED  BY <1>3, <1>4, <1>5, <1>6, <1>8, <1>9, <1>10 DEF IInv

\* commit_permission, whether or not the hook learns that it committed.
LEMMA CommitStep ==
  ASSUME IInv, TypeOK', ProposalFits', NEW h \in Hook,
         \/ CommitPermission(h)
         \/ CommitFails(h) /\ CommitRows(h, proposal[h], ResponseEligible(h))
  PROVE  IInv'
<1>0. /\ request \in [Hook -> Identity] /\ lock \in [Shard -> Hook \cup {None}]
      /\ pc \in [Hook -> Control] /\ attempts \in [Hook -> Attempt]
      /\ commits \in [Hook -> Commit]
  BY DEF IInv, TypeOK, StoreTypeOK
<1>1. /\ pc[h] = "commit" /\ attempts[h].state = "evaluating"
      /\ attempts' = [attempts EXCEPT ![h] = [state |-> "decided", authority |-> proposal[h]]]
      /\ UNCHANGED <<request, class, proposal, answer>>
      /\ lock' = [lock EXCEPT ![ShardFor(h)] = None]
      /\ \A g \in Hook \ {h} : pc'[g] = pc[g]
  BY <1>0 DEF CommitPermission, CommitFails, CommitRows, ExactAttempt, Release, Goto
<1>2. /\ attempts'[h] = [state |-> "decided", authority |-> proposal[h]]
      /\ \A g \in Hook \ {h} : attempts'[g] = attempts[g] /\ commits'[g] = commits[g]
      /\ commits'[h].recorded /\ commits'[h].action = proposal[h]
      /\ commits'[h].eligible = ResponseEligible(h)
  BY <1>0, <1>1 DEF CommitPermission, CommitFails, CommitRows
<1>3. /\ pc'[h] \in {"respond", "done", "deny"}
      /\ pc'[h] = "respond" => Deterministic(h) \/ ResponseEligible(h)
      /\ pc'[h] = "deny" => Deterministic(h)
  BY <1>0 DEF CommitPermission, CommitFails, Goto, DenyOr
<1>4. LockHeld'
  BY ShardAssumption, <1>0, <1>1, <1>3 DEF IInv, LockHeld, ShardFor, Guarded
<1>5. GuardOpen' /\ FreshUntilAdmitted'
  BY <1>1, <1>2, <1>3 DEF IInv, GuardOpen, FreshUntilAdmitted, ExactAttempt, Guarded
<1>6. DecidedIsRecorded'
  BY <1>2 DEF IInv, DecidedIsRecorded
<1>7. OneLiveAttempt'
  <2>1. \A g \in Hook : Live(g)' => Live(g)
    BY <1>1, <1>2 DEF Live
  <2> QED  BY <1>1, <2>1 DEF IInv, OneLiveAttempt
<1>8. ASSUME NEW g \in Hook, NEW a \in Action, Committed(g, a)
      PROVE  Committed(g, a)'
  <2>1. g # h
    BY <1>1, <1>8 DEF Committed
  <2> QED  BY <1>2, <1>8, <2>1 DEF Committed
<1>9. RespondCommitted'
  <2>1. ASSUME NEW g \in Hook, pc'[g] \in {"respond", "record"}, ~ Deterministic(g)'
        PROVE  Committed(g, proposal[g])'
    <3>1. ~ Deterministic(g) /\ proposal'[g] = proposal[g]
      BY <1>1, <2>1 DEF Deterministic
    <3>2. CASE g = h
      BY <1>2, <1>3, <2>1, <3>1, <3>2 DEF Committed
    <3>3. CASE g # h
      <4>1. proposal[g] \in Action /\ Committed(g, proposal[g])
        BY <1>1, <2>1, <3>1, <3>3 DEF IInv, ProposalFits, RespondCommitted
      <4> QED  BY <1>8, <3>1, <4>1
    <3> QED  BY <3>2, <3>3
  <2>2. ASSUME NEW g \in Hook, pc'[g] = "deny"
        PROVE  Deterministic(g)'
    BY <1>1, <1>3, <2>2 DEF IInv, RespondCommitted, Deterministic
  <2> QED  BY <1>1, <2>1, <2>2 DEF RespondCommitted
<1>10. AnswerLast'
  BY <1>1 DEF IInv, AnswerLast
<1>11. AnswerIsCommitted'
  BY <1>1, <1>8 DEF IInv, AnswerIsCommitted, Committed, Deterministic
<1> QED  BY <1>4, <1>5, <1>6, <1>7, <1>9, <1>10, <1>11 DEF IInv

\* record_delivery and append_activity leave every authority alone.
LEMMA DeliveryStep ==
  ASSUME IInv, TypeOK', ProposalFits', NEW h \in Hook, RecordDelivery(h), DeliveryRecorded(h)
  PROVE  IInv'
<1>0. pc \in [Hook -> Control] /\ commits \in [Hook -> Commit]
  BY DEF IInv, TypeOK, StoreTypeOK
<1>1. /\ pc[h] = "record" /\ pc' = [pc EXCEPT ![h] = "done"]
      /\ UNCHANGED <<request, attempts, lock, class, proposal, answer>>
  BY DEF RecordDelivery, DeliveryRecorded, DeliveryRows, AppendRow, Goto
<1>2. \A g \in Hook \ {h} : commits'[g] = commits[g]
  BY <1>0 DEF DeliveryRecorded, DeliveryRows, AppendRow
<1>2a. \E d : commits' = [commits EXCEPT ![h].delivery = d]
  <2>1. commits = [commits EXCEPT ![h].delivery = commits[h].delivery]
    BY <1>0 DEF Commit
  <2> QED  BY <2>1 DEF DeliveryRecorded, DeliveryRows, AppendRow
<1>2b. PICK d : commits' = [commits EXCEPT ![h].delivery = d]
  BY <1>2a
<1>3. ASSUME NEW g \in Hook, NEW a \in Action, Committed(g, a)
      PROVE  Committed(g, a)'
  BY <1>0, <1>1, <1>2b, <1>3 DEF Committed, Commit
<1>4. LockHeld' /\ GuardOpen' /\ OneLiveAttempt' /\ AnswerLast'
  BY <1>0, <1>1 DEF IInv, LockHeld, GuardOpen, OneLiveAttempt, AnswerLast, ShardFor,
     ExactAttempt, Live, Guarded
<1>5. FreshUntilAdmitted' /\ DecidedIsRecorded'
  <2>1. \A g \in Hook : pc'[g] \in {"start", "lock", "admit"} =>
                        g # h /\ pc[g] \in {"start", "lock", "admit"}
    BY <1>0, <1>1
  <2>2. FreshUntilAdmitted'
    BY <1>1, <1>2, <2>1 DEF IInv, FreshUntilAdmitted
  <2>3. DecidedIsRecorded'
    BY <1>0, <1>1, <1>2b DEF IInv, DecidedIsRecorded, Commit
  <2> QED  BY <2>2, <2>3
<1>6. RespondCommitted'
  <2>1. ASSUME NEW g \in Hook, pc'[g] \in {"respond", "record"}, ~ Deterministic(g)'
        PROVE  Committed(g, proposal[g])'
    <3>1. /\ proposal[g] \in Action /\ Committed(g, proposal[g])
          /\ proposal'[g] = proposal[g]
      BY <1>0, <1>1, <2>1 DEF IInv, ProposalFits, RespondCommitted, Deterministic
    <3> QED  BY <1>3, <3>1
  <2>2. \A g \in Hook : pc'[g] = "deny" => Deterministic(g)'
    BY <1>0, <1>1 DEF IInv, RespondCommitted, Deterministic
  <2> QED  BY <2>1, <2>2 DEF RespondCommitted
<1>7. AnswerIsCommitted'
  BY <1>1, <1>3 DEF IInv, AnswerIsCommitted, Committed, Deterministic
<1> QED  BY <1>4, <1>5, <1>6, <1>7 DEF IInv

\* A death frees only the lock file of the invocation that dies.
LEMMA DeathStep ==
  ASSUME IInv, TypeOK', ProposalFits', NEW h \in Hook, Die(h)
  PROVE  IInv'
<1>0. /\ request \in [Hook -> Identity] /\ lock \in [Shard -> Hook \cup {None}]
      /\ pc \in [Hook -> Control] /\ proposal \in [Hook -> Disposition]
  BY DEF IInv, TypeOK, StoreTypeOK
<1>1. /\ pc'[h] = "dead"
      /\ \A g \in Hook \ {h} : pc'[g] = pc[g] /\ proposal'[g] = proposal[g]
      /\ UNCHANGED <<request, attempts, commits, class, answer>>
  BY <1>0 DEF Die, Goto, storeVars
<1>2. LockHeld'
  BY ShardAssumption, <1>0, <1>1 DEF Die, IInv, LockHeld, ShardFor, Guarded
<1>3. GuardOpen' /\ FreshUntilAdmitted' /\ DecidedIsRecorded' /\ OneLiveAttempt'
  BY <1>1 DEF IInv, GuardOpen, FreshUntilAdmitted, DecidedIsRecorded, OneLiveAttempt,
     ExactAttempt, Live, Guarded
<1>4. RespondCommitted' /\ AnswerLast' /\ AnswerIsCommitted'
  BY <1>1 DEF IInv, RespondCommitted, AnswerLast, AnswerIsCommitted, Committed, Deterministic
<1> QED  BY <1>2, <1>3, <1>4 DEF IInv

\* No step disturbs the inductive invariant.
LEMMA NextIInv == IInv /\ [Next]_vars => IInv'
<1> SUFFICES ASSUME IInv, [Next]_vars PROVE IInv'
  OBVIOUS
<1>0. TypeOK' /\ ProposalFits'
  BY NextType DEF IInv
<1>1. ASSUME NEW h \in Hook, HookStep(h)
      PROVE  IInv'
  <2>1. CASE UNCHANGED storeVars
    BY <1>0, <1>1, <2>1, QuietStep
  <2>2. CASE Admit(h) \/ FinishWithoutAuthority(h) \/ CommitPermission(h)
    BY <1>0, <2>2, AdmitStep, FinishStep, CommitStep
  <2>3. CASE AdmitFails(h) \/ CommitFails(h) \/ RecordDelivery(h)
    <3>1. \/ UNCHANGED storeVars
          \/ AdmitFails(h) /\ AdmitRows(h)
          \/ CommitFails(h) /\ CommitRows(h, proposal[h], ResponseEligible(h))
          \/ RecordDelivery(h) /\ DeliveryRecorded(h)
      BY <2>3 DEF AdmitFails, CommitFails, RecordDelivery
    <3> QED  BY <1>0, <2>1, <3>1, AdmitStep, CommitStep, DeliveryStep
  <2>4. UNCHANGED storeVars \/ Admit(h) \/ FinishWithoutAuthority(h) \/ CommitPermission(h)
        \/ AdmitFails(h) \/ CommitFails(h) \/ RecordDelivery(h)
    BY <1>1 DEF HookStep, RejectInput, OpenDatabase, OpenFails, AcquireLock, LockContended,
       LockFails, SuppressDuplicate, Probe, LifecycleUnreadable, Reprove, ReproveFails,
       Reprobe, EvaluateDeterministic, EvaluateIndeterminate, EvaluateAbstains,
       ModelDenies, ModelAllows, Propose, FinishFails, Respond, EmitDeny, EmitAsk
  <2> QED  BY <2>1, <2>2, <2>3, <2>4
<1>2. ASSUME NEW h \in Hook, Die(h)
      PROVE  IInv'
  BY <1>0, <1>2, DeathStep
<1>3. CASE UNCHANGED <<storeVars, pc, lock, class, proposal, lifecycleOk, answer>>
  <2>1. UNCHANGED <<request, attempts, commits, pc, lock, class, proposal, answer>>
    BY <1>3 DEF storeVars
  <2> QED
    BY <1>0, <2>1 DEF IInv, LockHeld, GuardOpen, FreshUntilAdmitted, DecidedIsRecorded,
       OneLiveAttempt, RespondCommitted, AnswerLast, AnswerIsCommitted, Committed,
       Deterministic, ShardFor, ExactAttempt, Live
<1>4. CASE UNCHANGED vars
  BY <1>3, <1>4 DEF vars, hookVars
<1>5. ASSUME NEW i \in Identity, LifecycleMoves(i)
      PROVE  IInv'
  BY <1>3, <1>5 DEF LifecycleMoves
<1> QED  BY <1>1, <1>2, <1>4, <1>5 DEF Next

\* Locks, guards, rows and responses stay related by every step, every crash
\* and every uncertain commit (run_provider_with_sqlite_timeout, permissions.rs).
THEOREM Invariance == Spec => []IInv
<1> QED  BY InitIInv, NextIInv, PTL DEF Spec

------------------------------------------------------------------------------
(* What follows from it. *)

\* A request never has two attempts that are live, so no two invocations own it.
THEOREM RequestHasOneOwner == Spec => []OneLiveAttempt
<1>1. IInv => OneLiveAttempt
  BY DEF IInv
<1> QED  BY <1>1, Invariance, PTL

\* The recovery of dead attempts never touches a guarded one.
THEOREM GuardIsExclusive == Spec => []GuardedAttemptIsOpen
<1>1. IInv => GuardedAttemptIsOpen
  BY DEF IInv, LockHeld, GuardOpen, GuardedAttemptIsOpen
<1> QED  BY <1>1, Invariance, PTL

\* The model's answer leaves the hook only behind its durable commit.
THEOREM CommitPrecedesAnswer == Spec => []AnswerIsCommitted
<1>1. IInv => AnswerIsCommitted
  BY DEF IInv
<1> QED  BY <1>1, Invariance, PTL

\* Two answers of the model to one request come from one invocation.
LEMMA AnswerHasOneAuthor == IInv => OneModelAnswer
<1> SUFFICES ASSUME IInv, NEW g \in Hook, NEW h \in Hook, request[g] = request[h],
                    answer[g] \in Action /\ ~ Deterministic(g),
                    answer[h] \in Action /\ ~ Deterministic(h)
             PROVE  g = h
  BY DEF OneModelAnswer
<1>1. attempts[g].state = "decided" /\ attempts[h].state = "decided"
  <2>1. commits \in [Hook -> Commit] /\ attempts \in [Hook -> Attempt]
    BY DEF IInv, TypeOK, StoreTypeOK
  <2> QED  BY <2>1 DEF IInv, AnswerIsCommitted, Deterministic, Commit
<1> QED  BY <1>1 DEF IInv, OneLiveAttempt, Live

\* The model answers a request at most once, over all its invocations.
THEOREM ModelAnswersOnce == Spec => []OneModelAnswer
<1> QED  BY AnswerHasOneAuthor, Invariance, PTL

\* What a step does to the rows of one attempt.
LEMMA RowEffect ==
  ASSUME IInv, [Next]_vars, NEW g \in Hook
  PROVE  StaysSettled(g) /\ ApprovalAccepted(g)
<1>0. /\ attempts \in [Hook -> Attempt] /\ commits \in [Hook -> Commit]
  BY DEF IInv, TypeOK, StoreTypeOK
<1>1. ASSUME attempts'[g] = attempts[g], commits'[g] = commits[g]
      PROVE  StaysSettled(g) /\ ApprovalAccepted(g)
  BY <1>0, <1>1 DEF StaysSettled, ApprovalAccepted, Commit
<1>2. ASSUME NEW h \in Hook, HookStep(h), StoreStep(h)
      PROVE  StaysSettled(g) /\ ApprovalAccepted(g)
  <2>1. CASE UNCHANGED storeVars
    BY <1>1, <2>1 DEF storeVars
  <2>2. CASE pc[h] = "admit" /\ AdmitRows(h)
    <3>1. attempts[h].state = "absent"
      BY <2>2 DEF IInv, FreshUntilAdmitted, NoAttempt
    <3>2. attempts[g].state # "absent" /\ attempts[g].state # "evaluating"
            => attempts'[g] = attempts[g]
      BY <2>2, <3>1 DEF AdmitRows
    <3> QED  BY <1>0, <2>2, <3>1, <3>2 DEF AdmitRows, StaysSettled, ApprovalAccepted, Commit
  <2>3. CASE pc[h] = "yield" /\ FinishRows(h, proposal[h])
    BY <1>0, <2>3 DEF FinishRows, ExactAttempt, StaysSettled, ApprovalAccepted, Commit
  <2>4. CASE pc[h] = "commit" /\ CommitRows(h, proposal[h], ResponseEligible(h))
    <3>1. CASE g = h
      <4>1. attempts[g].state = "evaluating" /\ ~ commits[g].recorded
        BY <2>4, <3>1 DEF CommitRows, ExactAttempt, IInv, DecidedIsRecorded
      <4>2. commits'[g].eligible => ResponseEligible(g)
        BY <1>0, <2>4, <3>1 DEF CommitRows
      <4>3. commits'[g].action = proposal[g]
        BY <1>0, <2>4, <3>1 DEF CommitRows
      <4> QED  BY <4>1, <4>2, <4>3 DEF StaysSettled, ApprovalAccepted, ResponseEligible
    <3>2. CASE g # h
      BY <1>0, <1>1, <2>4, <3>2 DEF CommitRows
    <3> QED  BY <3>1, <3>2
  <2>5. CASE pc[h] = "record" /\ DeliveryRecorded(h)
    <3>1. CASE Deterministic(h)
      BY <1>1, <2>5, <3>1 DEF DeliveryRecorded, AppendRow
    <3>2. CASE ~ Deterministic(h)
      <4>1. DeliveryRows(h, proposal[h], Evidence(h))
        BY <2>5, <3>2 DEF DeliveryRecorded
      <4> QED  BY <1>0, <4>1 DEF DeliveryRows, StaysSettled, ApprovalAccepted, Commit
    <3> QED  BY <3>1, <3>2
  <2> QED  BY <1>2, <2>1, <2>2, <2>3, <2>4, <2>5 DEF StoreStep
<1>3. ASSUME UNCHANGED storeVars
      PROVE  StaysSettled(g) /\ ApprovalAccepted(g)
  BY <1>1, <1>3 DEF storeVars
<1>4. UNCHANGED storeVars \/ \E h \in Hook : HookStep(h)
  BY DEF Next, Die, LifecycleMoves, vars
<1> QED  BY <1>2, <1>3, <1>4, HookStoreStep

\* Settled attempts and their commit rows are immutable but for one delivery.
THEOREM SettlementIsFinal == Spec => SettledIsFinal
<1>1. IInv /\ [Next]_vars => [\A h \in Hook : StaysSettled(h)]_vars
  BY RowEffect
<1> QED  BY <1>1, Invariance, PTL DEF Spec, SettledIsFinal

\* An approval that may leave the hook was accepted by the lifecycle of the
\* state in which it was committed.
THEOREM ApprovalIsAccepted == Spec => ApprovalSeesLifecycle
<1>1. IInv /\ [Next]_vars => [\A h \in Hook : ApprovalAccepted(h)]_vars
  BY RowEffect
<1> QED  BY <1>1, Invariance, PTL DEF Spec, ApprovalSeesLifecycle

------------------------------------------------------------------------------
(* The evidence invariant: one conjunct for each thing an invocation knows. *)

\* Nothing is written before the response, and the write is what it proposed.
AnswerFits(h) ==
  /\ answer[h] # "none" => pc[h] \in {"record", "done", "dead"}
  /\ pc[h] = "record" => answer[h] \in {proposal[h], "lost"}

\* A deny is owed once the request is classified; then nothing else is proposed,
\* unless an error intervened.
DenyFits(h) ==
  Deterministic(h) =>
    /\ pc[h] # "start"
    /\ pc[h] \in {"commit", "respond", "record"} => proposal[h] = "deny"
    /\ pc[h] = "yield" => proposal[h] = "error"

\* A commit row awaits its delivery until the invocation has recorded it.
CommitFits(h) ==
  /\ ~ commits[h].recorded => commits[h] = NoCommit
  /\ commits[h].eligible => ~ Deterministic(h)
  /\ commits[h].delivery = "not_required" <=> ~ commits[h].eligible
  /\ commits[h].eligible /\ pc[h] \in {"respond", "record"} => commits[h].delivery = "pending"
  /\ commits[h].delivery = "delivered" => answer[h] = commits[h].action
  /\ commits[h].delivery = "failed" => answer[h] = "lost"
  /\ commits[h].delivery \in {"delivered", "failed"} => pc[h] \in {"done", "dead"}

\* The trail is that of the row, and has no delivery before one is recorded.
TrailFits(h) ==
  /\ trail[h] \in TrailOf(h)
  /\ pc[h] \in {"respond", "record"} =>
       /\ attempts[h].state = "decided"
       /\ trail[h] = <<"observed", "evaluating", Terminal(attempts[h].authority)>>

Fits(h) == AnswerFits(h) /\ DenyFits(h) /\ CommitFits(h) /\ TrailFits(h)

Evident == \A h \in Hook : Fits(h)

\* Two facts about the short sequences of a trail.
LEMMA TrailAppends ==
  /\ <<>> \o <<"observed", "evaluating">> = <<"observed", "evaluating">>
  /\ \A t \in ActivityState :
       Append(<<"observed", "evaluating">>, t) = <<"observed", "evaluating", t>>
<1>1. <<"observed", "evaluating">> \in Seq(ActivityState)
  BY DEF ActivityState
<1>2. <<>> \o <<"observed", "evaluating">> = <<"observed", "evaluating">>
  BY <1>1, ConcatEmptySeq
<1>3. ASSUME NEW t \in ActivityState
      PROVE  Append(<<"observed", "evaluating">>, t) = <<"observed", "evaluating", t>>
  <2> DEFINE long  == Append(<<"observed", "evaluating">>, t)
             short == <<"observed", "evaluating", t>>
  <2>1. short \in Seq(ActivityState) /\ Len(short) = 3
    BY <1>3 DEF ActivityState
  <2>2. long \in Seq(ActivityState) /\ Len(long) = 3
    BY <1>1, <1>3, AppendProperties
  <2>3. long[1] = "observed" /\ long[2] = "evaluating" /\ long[3] = t
    BY <1>1, <1>3, AppendProperties
  <2>4. short[1] = "observed" /\ short[2] = "evaluating" /\ short[3] = t
    OBVIOUS
  <2>5. \A i \in 1 .. 3 : long[i] = short[i]
    BY <2>3, <2>4
  <2> HIDE DEF long, short
  <2>6. long = short
    BY <2>1, <2>2, <2>5, SeqEqual
  <2> QED  BY <2>6 DEF long, short
<1> QED  BY <1>2, <1>3

\* Nothing is evident yet, and nothing is claimed.
LEMMA InitEvident == Init => Evident
<1> SUFFICES ASSUME Init, NEW h \in Hook PROVE Fits(h)
  BY DEF Evident
<1>1. /\ pc[h] = "start" /\ class[h] = "unknown" /\ proposal[h] = None /\ answer[h] = "none"
      /\ attempts[h] = NoAttempt /\ commits[h] = NoCommit /\ trail[h] = <<>>
  BY DEF Init, StoreInit
<1>2. AnswerFits(h) /\ DenyFits(h) /\ CommitFits(h)
  BY <1>1 DEF AnswerFits, DenyFits, CommitFits, Deterministic, NoCommit
<1>3. TrailFits(h)
  BY <1>1 DEF TrailFits, TrailOf, NoAttempt
<1> QED  BY <1>2, <1>3 DEF Fits

\* What no step of one invocation changes of another: all but an attempt left
\* evaluating, which an admission may abandon.
LEMMA StepFrame ==
  ASSUME IInv, NEW h \in Hook, HookStep(h) \/ Die(h), NEW g \in Hook, g # h
  PROVE  /\ pc'[g] = pc[g] /\ class'[g] = class[g] /\ proposal'[g] = proposal[g]
         /\ answer'[g] = answer[g] /\ commits'[g] = commits[g] /\ trail'[g] = trail[g]
         /\ \/ attempts'[g] = attempts[g]
            \/ /\ attempts[g].state = "evaluating"
               /\ attempts'[g] = [attempts[g] EXCEPT !.state = "abandoned"]
<1>0. /\ pc \in [Hook -> Control] /\ class \in [Hook -> Class]
      /\ proposal \in [Hook -> Disposition] /\ answer \in [Hook -> Answer]
      /\ attempts \in [Hook -> Attempt] /\ commits \in [Hook -> Commit]
      /\ trail \in [Hook -> Seq(ActivityState)]
  BY DEF IInv, TypeOK, StoreTypeOK
<1>1. UNCHANGED storeVars \/ StoreStep(h)
  BY HookStoreStep DEF Die
<1>2. /\ commits'[g] = commits[g] /\ trail'[g] = trail[g]
      /\ \/ attempts'[g] = attempts[g]
         \/ /\ attempts[g].state = "evaluating"
            /\ attempts'[g] = [attempts[g] EXCEPT !.state = "abandoned"]
  <2>1. CASE UNCHANGED storeVars
    BY <2>1 DEF storeVars
  <2>2. CASE AdmitRows(h)
    BY <1>0, <2>2 DEF AdmitRows
  <2>3. CASE FinishRows(h, proposal[h])
    BY <1>0, <2>3 DEF FinishRows
  <2>4. CASE CommitRows(h, proposal[h], ResponseEligible(h))
    BY <1>0, <2>4 DEF CommitRows
  <2>5. CASE DeliveryRecorded(h)
    BY <1>0, <2>5 DEF DeliveryRecorded, DeliveryRows, AppendRow
  <2> QED  BY <1>1, <2>1, <2>2, <2>3, <2>4, <2>5 DEF StoreStep
<1>3. /\ pc'[g] = pc[g] /\ class'[g] = class[g] /\ proposal'[g] = proposal[g]
      /\ answer'[g] = answer[g]
  <2> USE <1>0 DEF Goto
  <2>1. CASE RejectInput(h) \/ OpenDatabase(h) \/ OpenFails(h)
    BY <2>1 DEF RejectInput, OpenDatabase, OpenFails, Classify
  <2>2. CASE AcquireLock(h) \/ LockContended(h) \/ LockFails(h)
             \/ Admit(h) \/ SuppressDuplicate(h) \/ AdmitFails(h)
    BY <2>2 DEF AcquireLock, LockContended, LockFails, Admit, SuppressDuplicate, AdmitFails
  <2>3. CASE Probe(h) \/ LifecycleUnreadable(h) \/ Reprove(h) \/ ReproveFails(h) \/ Reprobe(h)
    BY <2>3 DEF Probe, LifecycleUnreadable, Reprove, ReproveFails, Reprobe
  <2>4. CASE EvaluateDeterministic(h) \/ EvaluateIndeterminate(h) \/ EvaluateAbstains(h)
             \/ ModelDenies(h) \/ ModelAllows(h)
    BY <2>4 DEF EvaluateDeterministic, EvaluateIndeterminate, EvaluateAbstains, ModelDenies,
       ModelAllows, Propose
  <2>5. CASE FinishWithoutAuthority(h) \/ FinishFails(h) \/ CommitPermission(h) \/ CommitFails(h)
    BY <2>5 DEF FinishWithoutAuthority, FinishFails, CommitPermission, CommitFails
  <2>6. CASE Respond(h) \/ RecordDelivery(h) \/ EmitDeny(h) \/ EmitAsk(h)
    BY <2>6 DEF Respond, RecordDelivery, EmitDeny, EmitAsk, Write
  <2>7. CASE Die(h)
    BY <2>7 DEF Die
  <2> QED  BY <2>1, <2>2, <2>3, <2>4, <2>5, <2>6, <2>7 DEF HookStep
<1> QED  BY <1>2, <1>3

\* No invocation disturbs what is evident of another.
LEMMA OthersStep ==
  ASSUME IInv, NEW h \in Hook, HookStep(h) \/ Die(h), NEW g \in Hook, g # h, Fits(g)
  PROVE  Fits(g)'
<1>1. /\ pc'[g] = pc[g] /\ class'[g] = class[g] /\ proposal'[g] = proposal[g]
      /\ answer'[g] = answer[g] /\ commits'[g] = commits[g] /\ trail'[g] = trail[g]
      /\ \/ attempts'[g] = attempts[g]
         \/ /\ attempts[g].state = "evaluating"
            /\ attempts'[g] = [attempts[g] EXCEPT !.state = "abandoned"]
  BY StepFrame
<1>2. attempts[g] \in Attempt
  BY DEF IInv, TypeOK, StoreTypeOK
<1>3. AnswerFits(g)' /\ CommitFits(g)'
  BY <1>1 DEF Fits, AnswerFits, CommitFits, Deterministic
<1>4. DenyFits(g)'
  BY <1>1, <1>2 DEF Fits, DenyFits, Deterministic, NoAttempt, Attempt
<1>5. TrailFits(g)'
  <2>1. CASE attempts'[g] = attempts[g]
    BY <1>1, <2>1 DEF Fits, TrailFits, TrailOf
  <2>2. CASE attempts'[g] # attempts[g]
    <3>1. attempts[g].state = "evaluating" /\ attempts'[g].state = "abandoned"
      BY <1>1, <1>2, <2>2 DEF Attempt
    <3>2. trail'[g] = <<"observed", "evaluating">> /\ pc'[g] \notin {"respond", "record"}
      BY <1>1, <3>1 DEF Fits, TrailFits, TrailOf
    <3> QED  BY <3>1, <3>2 DEF TrailFits, TrailOf
  <2> QED  BY <2>1, <2>2
<1> QED  BY <1>3, <1>4, <1>5 DEF Fits

\* The steps of an invocation that write neither a row nor an answer.
LEMMA IdleFits ==
  ASSUME IInv, NEW h \in Hook, Fits(h),
         UNCHANGED <<attempts[h], commits[h], trail[h], answer[h]>>,
         pc[h] \notin {"done", "dead"}, pc'[h] \notin {"respond", "record"},
         pc[h] = "record" => pc'[h] \in {"done", "dead"},
         class'[h] = class[h] \/ commits[h] = NoCommit
  PROVE  AnswerFits(h)' /\ CommitFits(h)' /\ TrailFits(h)'
<1>1. AnswerFits(h)'
  BY DEF Fits, AnswerFits
<1>2. CommitFits(h)'
  BY DEF Fits, CommitFits, Deterministic, NoCommit
<1>3. TrailFits(h)'
  BY DEF Fits, TrailFits, TrailOf
<1> QED  BY <1>1, <1>2, <1>3

\* Before it admits, and where it gives up, an invocation leaves its rows alone.
LEMMA IdleStep ==
  ASSUME IInv, NEW h \in Hook, Fits(h), HookStep(h) \/ Die(h), UNCHANGED storeVars,
         UNCHANGED answer, pc'[h] # "respond"
  PROVE  Fits(h)'
<1>0. /\ pc \in [Hook -> Control] /\ class \in [Hook -> Class]
      /\ proposal \in [Hook -> Disposition] /\ attempts \in [Hook -> Attempt]
  BY DEF IInv, TypeOK, StoreTypeOK
<1>1. /\ pc[h] \notin {"done", "dead"} /\ pc'[h] \notin {"respond", "record"}
      /\ pc[h] = "record" => pc'[h] \in {"done", "dead"}
      /\ class'[h] = class[h] \/ pc[h] = "start"
      /\ DenyFits(h)'
  <2> USE <1>0 DEF Goto, DenyFits, Deterministic, storeVars, Fits, AnswerFits
  <2>1. CASE RejectInput(h) \/ OpenDatabase(h) \/ OpenFails(h)
    <3>1. attempts[h] = NoAttempt
      BY <2>1 DEF RejectInput, OpenDatabase, OpenFails, Classify, IInv, FreshUntilAdmitted
    <3> QED  BY <2>1, <3>1 DEF RejectInput, OpenDatabase, OpenFails, Classify, Unanswered
  <2>2. CASE AcquireLock(h) \/ LockContended(h) \/ LockFails(h)
             \/ SuppressDuplicate(h) \/ AdmitFails(h)
    <3>1. attempts[h] = NoAttempt
      BY <2>2 DEF AcquireLock, LockContended, LockFails, SuppressDuplicate, AdmitFails,
         IInv, FreshUntilAdmitted
    <3> QED  BY <2>2, <3>1 DEF AcquireLock, LockContended, LockFails, SuppressDuplicate,
                AdmitFails, DenyOr, Unanswered
  <2>3. CASE Probe(h)
    BY <2>3 DEF Probe
  <2>4. CASE LifecycleUnreadable(h) \/ Reprove(h) \/ ReproveFails(h) \/ Reprobe(h)
    BY <2>4 DEF LifecycleUnreadable, Reprove, ReproveFails, Reprobe
  <2>5. CASE EvaluateDeterministic(h)
    BY <2>5 DEF EvaluateDeterministic, Propose, Action
  <2>6. CASE EvaluateIndeterminate(h) \/ EvaluateAbstains(h) \/ ModelDenies(h) \/ ModelAllows(h)
    <3>1. class[h] # "deny" /\ class'[h] = class[h]
      BY <2>6 DEF EvaluateIndeterminate, EvaluateAbstains, ModelDenies, ModelAllows, Propose
    <3> QED  BY <2>6, <3>1 DEF EvaluateIndeterminate, EvaluateAbstains, ModelDenies,
                ModelAllows, Propose
  <2>7. CASE FinishFails(h) \/ CommitFails(h)
    BY <2>7 DEF FinishFails, CommitFails, Unanswered, DenyOr
  <2>8. CASE RecordDelivery(h)
    BY <2>8 DEF RecordDelivery
  <2>9. CASE Admit(h) \/ FinishWithoutAuthority(h) \/ CommitPermission(h)
    <3>1. attempts' = attempts
      BY DEF storeVars
    <3>2. attempts'[h].state # attempts[h].state
      BY <2>9 DEF Admit, AdmitRows, FinishWithoutAuthority, FinishRows, CommitPermission,
         CommitRows, ExactAttempt, IInv, FreshUntilAdmitted, NoAttempt, Attempt
    <3> QED  BY <3>1, <3>2
  <2>10. CASE Respond(h) \/ EmitDeny(h) \/ EmitAsk(h)
    <3>1. answer[h] = "none" /\ answer \in [Hook -> Answer]
      BY <2>10 DEF Respond, EmitDeny, EmitAsk, IInv, TypeOK
    <3>2. Respond(h) => proposal[h] \in Action
      BY DEF Respond, IInv, ProposalFits
    <3> QED  BY <2>10, <3>1, <3>2 DEF Respond, EmitDeny, EmitAsk, Write, Action
  <2>11. CASE Die(h)
    BY <2>11 DEF Die
  <2> QED
    BY <2>1, <2>2, <2>3, <2>4, <2>5, <2>6, <2>7, <2>8, <2>9, <2>10, <2>11 DEF HookStep
<1>2. commits[h] = NoCommit \/ class'[h] = class[h]
  BY <1>1 DEF IInv, FreshUntilAdmitted
<1>3. UNCHANGED <<attempts[h], commits[h], trail[h], answer[h]>>
  BY DEF storeVars
<1> QED  BY <1>1, <1>2, <1>3, IdleFits DEF Fits

\* An admission writes the two rows every trail begins with.
LEMMA AdmitFits ==
  ASSUME IInv, NEW h \in Hook, Fits(h), Admit(h) \/ (AdmitFails(h) /\ AdmitRows(h))
  PROVE  Fits(h)'
<1>0. /\ pc \in [Hook -> Control] /\ trail \in [Hook -> Seq(ActivityState)]
      /\ attempts \in [Hook -> Attempt]
  BY DEF IInv, TypeOK, StoreTypeOK
<1>1. /\ pc[h] = "admit" /\ AdmitRows(h)
      /\ UNCHANGED <<commits, class, proposal, answer>>
      /\ pc'[h] = "probe" \/ pc'[h] = "deny" \/ (pc'[h] = "done" /\ ~ Deterministic(h))
  BY <1>0 DEF Admit, AdmitFails, AdmitRows, Goto, DenyOr
<1>2. attempts[h] = NoAttempt /\ commits[h] = NoCommit /\ trail[h] = <<>> /\ answer[h] = "none"
  BY <1>1 DEF IInv, FreshUntilAdmitted, Fits, TrailFits, TrailOf, AnswerFits, NoAttempt
<1>3. AnswerFits(h)' /\ DenyFits(h)' /\ CommitFits(h)'
  BY <1>1, <1>2 DEF Fits, AnswerFits, DenyFits, CommitFits, Deterministic, NoCommit
<1>4. TrailFits(h)'
  <2>1. attempts'[h].state = "evaluating"
    BY <1>0, <1>1 DEF AdmitRows
  <2>2. trail'[h] = <<"observed", "evaluating">>
    BY <1>0, <1>1, <1>2, TrailAppends DEF AdmitRows
  <2> QED  BY <1>1, <2>1, <2>2 DEF TrailFits, TrailOf
<1> QED  BY <1>3, <1>4 DEF Fits

\* A request handed back to the user ends its trail with what became of it.
LEMMA FinishFits ==
  ASSUME IInv, NEW h \in Hook, Fits(h), FinishWithoutAuthority(h)
  PROVE  Fits(h)'
<1>0. /\ pc \in [Hook -> Control] /\ trail \in [Hook -> Seq(ActivityState)]
      /\ attempts \in [Hook -> Attempt]
  BY DEF IInv, TypeOK, StoreTypeOK
<1>1. /\ pc[h] = "yield" /\ attempts[h].state = "evaluating"
      /\ attempts'[h].state = "needs_input"
      /\ trail'[h] = Append(trail[h], proposal[h])
      /\ UNCHANGED <<commits, class, proposal, answer>>
      /\ pc'[h] \in {"ask", "done"}
  BY <1>0 DEF FinishWithoutAuthority, FinishRows, ExactAttempt, Goto, Unanswered, Attempt
<1>2. proposal[h] \in {"abstained", "error"}
  BY <1>1 DEF IInv, ProposalFits
<1>3. AnswerFits(h)' /\ DenyFits(h)' /\ CommitFits(h)'
  BY <1>1 DEF Fits, AnswerFits, DenyFits, CommitFits, Deterministic
<1>4. TrailFits(h)'
  <2>1. trail[h] = <<"observed", "evaluating">>
    BY <1>1 DEF Fits, TrailFits, TrailOf
  <2>2. trail'[h] = <<"observed", "evaluating", proposal[h]>>
    BY <1>1, <1>2, <2>1, TrailAppends DEF ActivityState
  <2> QED  BY <1>1, <1>2, <2>2 DEF TrailFits, TrailOf
<1> QED  BY <1>3, <1>4 DEF Fits

\* A commit publishes the decision with its row, and awaits a delivery only
\* when a response may leave.
LEMMA DecisionFits ==
  ASSUME IInv, NEW h \in Hook, Fits(h),
         \/ CommitPermission(h)
         \/ CommitFails(h) /\ CommitRows(h, proposal[h], ResponseEligible(h))
  PROVE  Fits(h)'
<1>0. /\ pc \in [Hook -> Control] /\ trail \in [Hook -> Seq(ActivityState)]
      /\ attempts \in [Hook -> Attempt] /\ commits \in [Hook -> Commit]
  BY DEF IInv, TypeOK, StoreTypeOK
<1>1. /\ pc[h] = "commit" /\ CommitRows(h, proposal[h], ResponseEligible(h))
      /\ UNCHANGED <<class, proposal, answer>>
      /\ pc'[h] = "respond" \/ pc'[h] = "deny" \/ (pc'[h] = "done" /\ ~ Deterministic(h))
  BY <1>0 DEF CommitPermission, CommitFails, Goto, DenyOr
<1>2. /\ attempts[h].state = "evaluating"
      /\ attempts'[h] = [state |-> "decided", authority |-> proposal[h]]
      /\ commits'[h] = [recorded |-> TRUE, action |-> proposal[h],
                       eligible |-> ResponseEligible(h),
                       delivery |-> IF ResponseEligible(h) THEN "pending" ELSE "not_required"]
      /\ trail'[h] = Append(trail[h], Terminal(proposal[h]))
  BY <1>0, <1>1 DEF CommitRows, ExactAttempt
<1>3. AnswerFits(h)' /\ DenyFits(h)'
  BY <1>1 DEF Fits, AnswerFits, DenyFits, Deterministic
<1>4. CommitFits(h)'
  BY <1>1, <1>2 DEF CommitFits, Deterministic, ResponseEligible
<1>5. TrailFits(h)'
  <2>1. trail[h] = <<"observed", "evaluating">>
    BY <1>2 DEF Fits, TrailFits, TrailOf
  <2>2. trail'[h] = <<"observed", "evaluating", Terminal(proposal[h])>>
    BY <1>2, <2>1, TrailAppends DEF Terminal, ActivityState
  <2>3. /\ attempts'[h].state = "decided" /\ attempts'[h].authority = proposal[h]
        /\ commits'[h].delivery \in {"pending", "not_required"}
    BY <1>2
  <2> QED  BY <2>2, <2>3 DEF TrailFits, TrailOf
<1> QED  BY <1>3, <1>4, <1>5 DEF Fits

\* What is recorded of a delivery is what became of the write.
LEMMA DeliveryFits ==
  ASSUME IInv, NEW h \in Hook, Fits(h), RecordDelivery(h), DeliveryRecorded(h)
  PROVE  Fits(h)'
<1>0. /\ pc \in [Hook -> Control] /\ trail \in [Hook -> Seq(ActivityState)]
      /\ attempts \in [Hook -> Attempt] /\ commits \in [Hook -> Commit]
  BY DEF IInv, TypeOK, StoreTypeOK
<1>1. /\ pc[h] = "record" /\ pc'[h] = "done"
      /\ UNCHANGED <<attempts, class, proposal, answer>>
      /\ trail'[h] = Append(trail[h], DeliveryActivity(Evidence(h)))
      /\ \/ Deterministic(h) /\ UNCHANGED commits
         \/ /\ ~ Deterministic(h) /\ commits[h].recorded /\ commits[h].eligible
            /\ commits[h].action = proposal[h]
            /\ commits'[h] = [commits[h] EXCEPT !.delivery = Evidence(h)]
  BY <1>0 DEF RecordDelivery, DeliveryRecorded, DeliveryRows, AppendRow, Goto
<1>2. /\ attempts[h].state = "decided"
      /\ trail[h] = <<"observed", "evaluating", Terminal(attempts[h].authority)>>
      /\ answer[h] \in {proposal[h], "lost"} /\ proposal[h] \in Action
  BY <1>1 DEF Fits, TrailFits, AnswerFits, IInv, ProposalFits
<1>3. Evidence(h) = IF answer[h] = "lost" THEN "failed" ELSE "delivered"
  BY DEF Evidence
<1>4. AnswerFits(h)' /\ DenyFits(h)'
  BY <1>1, <1>2 DEF AnswerFits, DenyFits, Deterministic, Fits
<1>5. CommitFits(h)'
  BY <1>0, <1>1, <1>2, <1>3 DEF CommitFits, Deterministic, Fits, Commit, Action
<1>6. TrailFits(h)'
  <2> DEFINE decided == <<"observed", "evaluating", Terminal(attempts[h].authority)>>
  <2>1. /\ attempts'[h] = attempts[h]
        /\ trail'[h] = Append(decided, DeliveryActivity(Evidence(h)))
    BY <1>1, <1>2
  <2>2. \/ commits'[h].delivery = Evidence(h)
        \/ commits'[h].delivery = "not_required"
    BY <1>0, <1>1 DEF Commit, CommitFits, Fits
  <2>3. DeliveryActivity(Evidence(h)) = IF Evidence(h) = "delivered" THEN "delivered"
                                        ELSE "delivery_failed"
    BY DEF DeliveryActivity
  <2>4. CASE commits'[h].delivery = Evidence(h)
    <3>1. trail'[h] \in {Append(decided, DeliveryActivity(commits'[h].delivery))}
      BY <2>1, <2>4
    <3> QED  BY <1>1, <1>2, <1>3, <2>1, <2>4, <3>1 DEF TrailFits, TrailOf
  <2>5. CASE commits'[h].delivery = "not_required"
    <3>1. trail'[h] \in {decided, Append(decided, "delivered"), Append(decided, "delivery_failed")}
      BY <2>1, <2>3
    <3> QED  BY <1>1, <1>2, <2>1, <2>5, <3>1 DEF TrailFits, TrailOf
  <2> QED  BY <2>2, <2>4, <2>5
<1> QED  BY <1>4, <1>5, <1>6 DEF Fits

\* A response is written behind its rows, and a fail-safe answer touches none.
LEMMA WriteFits ==
  ASSUME IInv, NEW h \in Hook, Fits(h), Respond(h) \/ EmitDeny(h) \/ EmitAsk(h)
  PROVE  Fits(h)'
<1>0. /\ pc \in [Hook -> Control] /\ answer \in [Hook -> Answer]
  BY DEF IInv, TypeOK
<1>1. /\ UNCHANGED <<attempts, commits, trail, class, proposal>>
      /\ \/ /\ pc[h] = "respond" /\ pc'[h] = "record"
            /\ answer'[h] \in {proposal[h], "lost"}
         \/ /\ pc[h] = "deny" /\ pc'[h] = "done"
            /\ answer'[h] \in {"deny", "lost"}
         \/ /\ pc[h] = "ask" /\ pc'[h] = "done"
            /\ answer'[h] \in {"ask", "lost"}
  BY <1>0 DEF Respond, EmitDeny, EmitAsk, Write, Goto, storeVars
<1>2. answer[h] = "none" /\ commits[h].delivery \notin {"delivered", "failed"}
  BY <1>1 DEF Fits, AnswerFits, CommitFits
<1>3. AnswerFits(h)' /\ DenyFits(h)' /\ CommitFits(h)'
  BY <1>1, <1>2 DEF Fits, AnswerFits, DenyFits, CommitFits, Deterministic
<1>4. TrailFits(h)'
  BY <1>1 DEF Fits, TrailFits, TrailOf
<1> QED  BY <1>3, <1>4 DEF Fits

\* No step of the invocation itself disturbs what is evident of it.
LEMMA OwnStep ==
  ASSUME IInv, NEW h \in Hook, Fits(h), HookStep(h) \/ Die(h)
  PROVE  Fits(h)'
<1>1. CASE Admit(h) \/ FinishWithoutAuthority(h) \/ CommitPermission(h)
           \/ Respond(h) \/ EmitDeny(h) \/ EmitAsk(h)
  BY <1>1, AdmitFits, FinishFits, DecisionFits, WriteFits
<1>2. CASE \/ AdmitFails(h) /\ AdmitRows(h)
           \/ CommitFails(h) /\ CommitRows(h, proposal[h], ResponseEligible(h))
           \/ RecordDelivery(h) /\ DeliveryRecorded(h)
  BY <1>2, AdmitFits, DecisionFits, DeliveryFits
<1>3. ASSUME UNCHANGED storeVars, UNCHANGED answer, pc'[h] # "respond"
      PROVE  Fits(h)'
  BY <1>3, IdleStep
<1>4. CASE AdmitFails(h) \/ CommitFails(h) \/ RecordDelivery(h)
  <2>1. pc'[h] # "respond" /\ UNCHANGED answer
    BY <1>4 DEF AdmitFails, CommitFails, RecordDelivery, DenyOr, Goto, IInv, TypeOK
  <2> QED  BY <1>2, <1>3, <1>4, <2>1 DEF AdmitFails, CommitFails, RecordDelivery
<1>5. CASE ~ \/ Admit(h) \/ FinishWithoutAuthority(h) \/ CommitPermission(h)
             \/ Respond(h) \/ EmitDeny(h) \/ EmitAsk(h)
             \/ AdmitFails(h) \/ CommitFails(h) \/ RecordDelivery(h)
  <2>1. UNCHANGED storeVars /\ UNCHANGED answer /\ pc'[h] # "respond"
    <3>1. pc \in [Hook -> Control]
      BY DEF IInv, TypeOK
    <3> USE <3>1 DEF Goto
    <3>2. CASE RejectInput(h) \/ OpenDatabase(h) \/ OpenFails(h) \/ AcquireLock(h)
               \/ LockContended(h) \/ LockFails(h) \/ SuppressDuplicate(h)
      BY <3>2 DEF RejectInput, OpenDatabase, OpenFails, Classify, AcquireLock, LockContended,
         LockFails, SuppressDuplicate, Unanswered, DenyOr
    <3>3. CASE Probe(h) \/ LifecycleUnreadable(h) \/ Reprove(h) \/ ReproveFails(h) \/ Reprobe(h)
               \/ FinishFails(h) \/ Die(h)
      BY <3>3 DEF Probe, LifecycleUnreadable, Reprove, ReproveFails, Reprobe, FinishFails,
         Unanswered, Die
    <3>4. CASE EvaluateDeterministic(h) \/ EvaluateIndeterminate(h) \/ EvaluateAbstains(h)
               \/ ModelDenies(h) \/ ModelAllows(h)
      BY <3>4 DEF EvaluateDeterministic, EvaluateIndeterminate, EvaluateAbstains, ModelDenies,
         ModelAllows, Propose
    <3> QED  BY <1>5, <3>2, <3>3, <3>4 DEF HookStep
  <2> QED  BY <1>3, <2>1
<1> QED  BY <1>1, <1>4, <1>5

\* Every step keeps the evidence of every invocation.
LEMMA NextEvident == IInv /\ Evident /\ [Next]_vars => Evident'
<1> SUFFICES ASSUME IInv, Evident, [Next]_vars, NEW g \in Hook PROVE Fits(g)'
  BY DEF Evident
<1>1. Fits(g)
  BY DEF Evident
<1>2. ASSUME NEW h \in Hook, HookStep(h) \/ Die(h)
      PROVE  Fits(g)'
  BY <1>1, <1>2, OwnStep, OthersStep
<1>3. CASE \/ UNCHANGED vars
           \/ \E i \in Identity : LifecycleMoves(i)
  <2>1. UNCHANGED <<attempts, commits, trail, pc, class, proposal, answer>>
    BY <1>3 DEF vars, hookVars, storeVars, LifecycleMoves
  <2> QED  BY <1>1, <2>1 DEF Fits, AnswerFits, DenyFits, CommitFits, TrailFits, TrailOf,
              Deterministic
<1> QED  BY <1>2, <1>3 DEF Next

\* The evidence holds in every reachable state.
THEOREM EvidenceHolds == Spec => [](IInv /\ Evident)
<1> QED  BY InitIInv, NextIInv, InitEvident, NextEvident, PTL DEF Spec

\* Delivery evidence never claims what the provider did not receive
\* (record_delivery, permissions.rs; write_response, permission_hook.rs).
THEOREM EvidenceIsTruthful == Spec => []DeliveryIsTruthful
<1>1. Evident => DeliveryIsTruthful
  BY DEF Evident, Fits, CommitFits, DeliveryIsTruthful
<1> QED  BY <1>1, EvidenceHolds, PTL

\* The audit trail of every attempt reads back as its row, through every
\* crash and every uncertain commit.
THEOREM TrailIsFaithful == Spec => []TrailMatchesAttempt
<1>1. Evident => TrailMatchesAttempt
  BY DEF Evident, Fits, TrailFits, TrailMatchesAttempt
<1> QED  BY <1>1, EvidenceHolds, PTL

\* Every step keeps an owed deny: what a hook process does after its deny is
\* classified ends in the deny written, but for the suppressed request and the
\* unreadable lifecycle (deterministic_deny, permission_hook.rs:1374).
LEMMA StepDenyStands ==
  ASSUME IInv, NEW h \in Hook, Fits(h), HookStep(h) \/ Die(h)
  PROVE  DenyStands(h)
<1> SUFFICES ASSUME GivesUp(h), Deterministic(h)'
             PROVE  \/ DenyWritten(h)' \/ Suppressed(h)
                    \/ pc[h] = "probe" /\ proposal'[h] = "error"
  BY DEF DenyStands
<1>0. /\ pc \in [Hook -> Control] /\ class \in [Hook -> Class]
      /\ proposal \in [Hook -> Disposition] /\ answer \in [Hook -> Answer]
  BY DEF IInv, TypeOK
<1> USE <1>0 DEF GivesUp, Goto, Deterministic
\* Before the classification nothing is owed, and with it a deny is emitted.
<1>1. CASE RejectInput(h) \/ OpenDatabase(h) \/ OpenFails(h)
  <2>1. ~ Deterministic(h)
    BY <1>1 DEF RejectInput, OpenDatabase, OpenFails, Classify, Fits, DenyFits
  <2> QED  BY <1>1, <2>1 DEF RejectInput, OpenDatabase, OpenFails, Classify, Unanswered
<1>2. CASE AcquireLock(h) \/ LockFails(h) \/ Admit(h) \/ AdmitFails(h) \/ CommitFails(h)
  BY <1>2 DEF AcquireLock, LockFails, Admit, AdmitFails, CommitFails, DenyOr
<1>3. CASE LockContended(h) \/ SuppressDuplicate(h)
  BY <1>3 DEF LockContended, SuppressDuplicate, Suppressed
<1>4. CASE LifecycleUnreadable(h)
  BY <1>4 DEF LifecycleUnreadable
<1>5. CASE Probe(h) \/ Reprove(h) \/ ReproveFails(h) \/ Reprobe(h)
  BY <1>5 DEF Probe, Reprove, ReproveFails, Reprobe
<1>6. CASE EvaluateDeterministic(h)
  BY <1>6 DEF EvaluateDeterministic, Propose, Action
<1>7. CASE EvaluateIndeterminate(h) \/ EvaluateAbstains(h) \/ ModelDenies(h) \/ ModelAllows(h)
  BY <1>7 DEF EvaluateIndeterminate, EvaluateAbstains, ModelDenies, ModelAllows, Propose
<1>8. CASE FinishWithoutAuthority(h) \/ FinishFails(h) \/ EmitAsk(h)
  BY <1>8 DEF FinishWithoutAuthority, FinishFails, EmitAsk
<1>9. CASE CommitPermission(h)
  BY <1>9 DEF CommitPermission
<1>10. CASE Respond(h) \/ Die(h)
  BY <1>10 DEF Respond, Die
<1>11. CASE RecordDelivery(h)
  <2>1. answer[h] \in {"deny", "lost"}
    BY <1>11 DEF RecordDelivery, Fits, AnswerFits, DenyFits
  <2> QED  BY <1>11, <2>1 DEF RecordDelivery, DenyWritten
<1>12. CASE EmitDeny(h)
  BY <1>12 DEF EmitDeny, Write, DenyWritten
<1> QED
  BY <1>1, <1>2, <1>3, <1>4, <1>5, <1>6, <1>7, <1>8, <1>9, <1>10, <1>11, <1>12 DEF HookStep

\* A code-owned deny fails closed on every path of the hook but two steps: a
\* suppressed request, and a lifecycle that cannot be read after admission.
THEOREM DenyIsKept == Spec => DeterministicDenyStands
<1>1. IInv /\ Evident /\ [Next]_vars => [\A h \in Hook : DenyStands(h)]_vars
  <2> SUFFICES ASSUME IInv, Evident, Next, NEW g \in Hook PROVE DenyStands(g)
    OBVIOUS
  <2>1. ASSUME NEW h \in Hook, HookStep(h) \/ Die(h)
        PROVE  DenyStands(g)
    <3>1. CASE g = h
      BY <2>1, <3>1, StepDenyStands DEF Evident
    <3>2. CASE g # h
      BY <2>1, <3>2, StepFrame DEF DenyStands, GivesUp
    <3> QED  BY <3>1, <3>2
  <2>2. ASSUME NEW i \in Identity, LifecycleMoves(i)
        PROVE  DenyStands(g)
    BY <2>2 DEF LifecycleMoves, DenyStands, GivesUp
  <2> QED  BY <2>1, <2>2 DEF Next
<1> QED  BY <1>1, EvidenceHolds, PTL DEF Spec, DeterministicDenyStands

------------------------------------------------------------------------------
(* The refinement: PermissionHook implements PermissionAuthority. *)

\* The status that the rows of a settled attempt stand for.
RowStatus(h) ==
  IF attempts[h].state = "needs_input" THEN "user"
  ELSE IF commits[h].eligible THEN attempts[h].authority ELSE "silent"

Evaluating(i) == \E h \in Hook : request[h] = i /\ attempts[h].state = "evaluating"

Answers(h) == ~ Deterministic(h) /\ answer[h] \in Action

\* The mapping without its choices: a settled request has one owner, and a
\* request that the model answered one author.
Mapped ==
  /\ \A h \in Hook : Settled(h) => Status(request[h]) = RowStatus(h)
  /\ \A i \in Identity :
       ~ Duplicate(i) => Status(i) = IF Evaluating(i) THEN "claimed" ELSE "unclaimed"
  /\ \A h \in Hook : Answers(h) => Answered(request[h]) = answer[h]
  /\ \A i \in Identity :
       (\A h \in Hook : request[h] = i => ~ Answers(h)) => Answered(i) = "none"

\* The invariant makes the choices of the mapping unique.
LEMMA ChoicesAreForced == IInv => Mapped
<1> SUFFICES ASSUME IInv PROVE Mapped
  OBVIOUS
<1>1. ASSUME NEW h \in Hook, Settled(h)
      PROVE  Status(request[h]) = RowStatus(h)
  <2>1. \A g \in Hook : request[g] = request[h] /\ Settled(g) => g = h
    BY <1>1 DEF IInv, OneLiveAttempt, Live, Settled
  <2>2. Owner(request[h]) = h
    BY <1>1, <2>1 DEF Owner
  <2> QED  BY <1>1, <2>2 DEF Status, RowStatus
<1>2. ASSUME NEW i \in Identity, ~ Duplicate(i)
      PROVE  Status(i) = IF Evaluating(i) THEN "claimed" ELSE "unclaimed"
  BY <1>2 DEF Status, Duplicate, Evaluating
<1>3. ASSUME NEW h \in Hook, Answers(h)
      PROVE  Answered(request[h]) = answer[h]
  <2>1. \A g \in Hook : request[g] = request[h] /\ Answers(g) => g = h
    BY <1>3, AnswerHasOneAuthor DEF OneModelAnswer, Answers
  <2>2. (CHOOSE g \in Hook : /\ request[g] = request[h] /\ ~ Deterministic(g)
                             /\ answer[g] \in Action) = h
    BY <1>3, <2>1 DEF Answers
  <2> QED  BY <1>3, <2>2 DEF Answered, Answers
<1>4. ASSUME NEW i \in Identity, \A h \in Hook : request[h] = i => ~ Answers(h)
      PROVE  Answered(i) = "none"
  BY <1>4 DEF Answered, Answers
<1> QED  BY <1>1, <1>2, <1>3, <1>4 DEF Mapped

\* At first no request is claimed and none is answered.
LEMMA InitRefines == Init => Authority!AuthorityInit
<1> SUFFICES ASSUME Init, NEW i \in Identity
             PROVE  Status(i) = "unclaimed" /\ Answered(i) = "none"
  BY DEF Authority!AuthorityInit
<1>1. Mapped
  BY InitIInv, ChoicesAreForced
<1>2. \A h \in Hook : attempts[h].state = "absent" /\ answer[h] = "none"
  BY DEF Init, StoreInit, NoAttempt
<1>3. ~ Duplicate(i) /\ ~ Evaluating(i)
  BY <1>2 DEF Duplicate, Settled, Evaluating
<1>4. \A h \in Hook : ~ Answers(h)
  BY <1>2 DEF Answers, Action
<1> QED  BY <1>1, <1>3, <1>4 DEF Mapped

\* A request keeps its status while its rows stay, and its answer while its
\* answers do.
LEMMA MappingFrame ==
  ASSUME IInv, IInv', NEW i \in Identity, request' = request
  PROVE  /\ (\A g \in Hook : request[g] = i =>
                /\ attempts'[g] = attempts[g]
                /\ commits'[g].eligible = commits[g].eligible)
              => Status(i)' = Status(i)
         /\ (\A g \in Hook : request[g] = i =>
                /\ Answers(g)' <=> Answers(g)
                /\ answer'[g] = answer[g] \/ ~ Answers(g))
              => Answered(i)' = Answered(i)
<1>1. Mapped /\ Mapped'
  <2>1. Mapped
    BY ChoicesAreForced
  <2>2. (IInv => Mapped)'
    BY ChoicesAreForced, PTL
  <2> QED  BY <2>1, <2>2
<1>2. ASSUME \A g \in Hook : request[g] = i =>
               /\ attempts'[g] = attempts[g]
               /\ commits'[g].eligible = commits[g].eligible
      PROVE  Status(i)' = Status(i)
  <2>1. CASE Duplicate(i)
    <3>1. PICK g \in Hook : request[g] = i /\ Settled(g)
      BY <2>1 DEF Duplicate
    <3>2. Settled(g)' /\ RowStatus(g)' = RowStatus(g)
      BY <1>2, <3>1 DEF Settled, RowStatus
    <3> QED  BY <1>1, <3>1, <3>2 DEF Mapped
  <2>2. CASE ~ Duplicate(i)
    <3>1. ~ Duplicate(i)' /\ (Evaluating(i)' <=> Evaluating(i))
      BY <1>2, <2>2 DEF Duplicate, Settled, Evaluating
    <3> QED  BY <1>1, <2>2, <3>1 DEF Mapped
  <2> QED  BY <2>1, <2>2
<1>3. ASSUME \A g \in Hook : request[g] = i =>
               /\ Answers(g)' <=> Answers(g)
               /\ answer'[g] = answer[g] \/ ~ Answers(g)
      PROVE  Answered(i)' = Answered(i)
  <2>1. CASE \E g \in Hook : request[g] = i /\ Answers(g)
    <3>1. PICK g \in Hook : request[g] = i /\ Answers(g)
      BY <2>1
    <3>2. Answers(g)' /\ answer'[g] = answer[g] /\ request'[g] = i
      BY <1>3, <3>1
    <3> QED  BY <1>1, <3>1, <3>2 DEF Mapped
  <2>2. CASE \A g \in Hook : request[g] = i => ~ Answers(g)
    <3>1. \A g \in Hook : request'[g] = i => ~ Answers(g)'
      BY <1>3, <2>2
    <3> QED  BY <1>1, <2>2, <3>1 DEF Mapped
  <2> QED  BY <2>1, <2>2
<1> QED  BY <1>2, <1>3

\* The status of a request moves as the authority's may.
Moves(i) ==
  \/ Status(i)' = Status(i)
  \/ Status(i) = "unclaimed" /\ Status(i)' = "claimed"
  \/ Status(i) = "claimed" /\ Status(i)' \in Authority!Settlement

\* A transaction moves the status of its own request only.
LEMMA RowsMove ==
  ASSUME IInv, IInv', NEW h \in Hook, StoreStep(h)
  PROVE  /\ \A i \in Identity : i # request[h] => Status(i)' = Status(i)
         /\ Moves(request[h])
<1>0. /\ request \in [Hook -> Identity] /\ request' = request
      /\ attempts \in [Hook -> Attempt] /\ commits \in [Hook -> Commit]
  BY DEF IInv, TypeOK, StoreTypeOK, StoreStep, storeVars, AdmitRows, FinishRows, CommitRows,
     DeliveryRecorded, DeliveryRows, AppendRow
<1>1. Mapped /\ Mapped'
  <2>1. Mapped
    BY ChoicesAreForced
  <2>2. (IInv => Mapped)'
    BY ChoicesAreForced, PTL
  <2> QED  BY <2>1, <2>2
<1>2. ASSUME NEW i \in Identity,
             \A g \in Hook : request[g] = i =>
               /\ attempts'[g] = attempts[g]
               /\ commits'[g].eligible = commits[g].eligible
      PROVE  Status(i)' = Status(i)
  BY <1>0, <1>2, MappingFrame
<1>3. CASE UNCHANGED storeVars
  BY <1>0, <1>2, <1>3 DEF storeVars, Moves
<1>4. CASE AdmitRows(h)
  <2>1. ASSUME NEW i \in Identity, i # request[h]
        PROVE  Status(i)' = Status(i)
    BY <1>0, <1>2, <1>4, <2>1 DEF AdmitRows
  <2>2. ~ Duplicate(request[h])
    BY <1>4 DEF AdmitRows
  <2>3. Status(request[h]) \in {"claimed", "unclaimed"}
    BY <1>0, <1>1, <2>2 DEF Mapped
  <2>4. ~ Duplicate(request[h])' /\ Evaluating(request[h])'
    BY <1>0, <1>4, <2>2 DEF AdmitRows, Duplicate, Settled, Evaluating, Attempt
  <2>5. Status(request[h])' = "claimed"
    BY <1>0, <1>1, <2>4 DEF Mapped
  <2> QED  BY <2>1, <2>3, <2>5 DEF Moves
<1>5. ASSUME attempts[h].state = "evaluating", Settled(h)',
             \A g \in Hook \ {h} : attempts'[g] = attempts[g] /\ commits'[g] = commits[g]
      PROVE  /\ \A i \in Identity : i # request[h] => Status(i)' = Status(i)
             /\ Status(request[h]) = "claimed"
             /\ Status(request[h])' = RowStatus(h)'
  <2>1. ASSUME NEW i \in Identity, i # request[h]
        PROVE  Status(i)' = Status(i)
    BY <1>0, <1>2, <1>5, <2>1
  <2>2. ~ Duplicate(request[h])
    BY <1>5 DEF Duplicate, Settled, IInv, OneLiveAttempt, Live
  <2>3. Evaluating(request[h])
    BY <1>5 DEF Evaluating
  <2> QED  BY <1>0, <1>1, <1>5, <2>1, <2>2, <2>3 DEF Mapped
<1>6. CASE FinishRows(h, proposal[h])
  <2>1. /\ attempts[h].state = "evaluating" /\ attempts'[h].state = "needs_input"
        /\ \A g \in Hook \ {h} : attempts'[g] = attempts[g] /\ commits'[g] = commits[g]
    BY <1>0, <1>6 DEF FinishRows, ExactAttempt, Attempt
  <2>2. RowStatus(h)' = "user" /\ Settled(h)'
    BY <2>1 DEF RowStatus, Settled
  <2> QED  BY <1>5, <2>1, <2>2 DEF Moves, Authority!Settlement
<1>7. CASE pc[h] = "commit" /\ CommitRows(h, proposal[h], ResponseEligible(h))
  <2>1. /\ attempts[h].state = "evaluating"
        /\ attempts'[h] = [state |-> "decided", authority |-> proposal[h]]
        /\ \A g \in Hook \ {h} : attempts'[g] = attempts[g] /\ commits'[g] = commits[g]
    BY <1>0, <1>7 DEF CommitRows, ExactAttempt
  <2>2. proposal[h] \in Action
    BY <1>7 DEF IInv, ProposalFits
  <2>3. RowStatus(h)' \in {"silent", "allow", "deny"} /\ Settled(h)'
    BY <2>1, <2>2 DEF RowStatus, Settled, Action
  <2> QED  BY <1>5, <2>1, <2>3 DEF Moves, Authority!Settlement
<1>8. CASE DeliveryRecorded(h)
  <2>1. attempts' = attempts /\ \A g \in Hook : commits'[g].eligible = commits[g].eligible
    BY <1>0, <1>8 DEF DeliveryRecorded, DeliveryRows, AppendRow, Commit
  <2> QED  BY <1>0, <1>2, <2>1 DEF Moves
<1> QED  BY <1>3, <1>4, <1>6, <1>7, <1>8 DEF StoreStep

\* A step that moves the status of one request and no answer is the
\* authority's claim or settlement, or nothing to it.
LEMMA MoveRefines ==
  ASSUME NEW i \in Identity, Moves(i),
         \A j \in Identity \ {i} : Status(j)' = Status(j),
         \A j \in Identity : Answered(j)' = Answered(j)
  PROVE  [Authority!AuthorityNext]_<<[j \in Identity |-> Status(j)],
                                     [j \in Identity |-> Answered(j)]>>
<1> DEFINE status   == [j \in Identity |-> Status(j)]
           answered == [j \in Identity |-> Answered(j)]
<1>1. answered' = answered
  OBVIOUS
<1>2. status' = [status EXCEPT ![i] = Status(i)']
  OBVIOUS
<1>3. status[i] = Status(i)
  OBVIOUS
<1>4. CASE Status(i)' = Status(i)
  <2>1. status' = status
    BY <1>4
  <2> QED  BY <1>1, <2>1
<1>5. CASE Status(i) = "unclaimed" /\ Status(i)' = "claimed"
  <2>1. Authority!Claim(i)
    BY <1>1, <1>2, <1>3, <1>5 DEF Authority!Claim
  <2> QED  BY <2>1 DEF Authority!AuthorityNext
<1>6. CASE Status(i) = "claimed" /\ Status(i)' \in Authority!Settlement
  <2>1. Authority!Settle(i)
    BY <1>1, <1>2, <1>3, <1>6 DEF Authority!Settle
  <2> QED  BY <2>1 DEF Authority!AuthorityNext
<1> QED  BY <1>4, <1>5, <1>6 DEF Moves

\* The model's answer, when the provider receives it, is the authority's reply:
\* its request was settled so, and never answered.
LEMMA RespondRefines ==
  ASSUME IInv, IInv', NEW h \in Hook, Respond(h), Answers(h)'
  PROVE  Authority!Reply(request[h])
<1> DEFINE i        == request[h]
           status   == [j \in Identity |-> Status(j)]
           answered == [j \in Identity |-> Answered(j)]
<1>0. /\ request \in [Hook -> Identity] /\ answer \in [Hook -> Answer]
      /\ UNCHANGED <<request, attempts, commits, class>>
      /\ pc[h] = "respond" /\ answer'[h] \in {proposal[h], "lost"}
      /\ \A g \in Hook \ {h} : answer'[g] = answer[g]
  BY DEF IInv, TypeOK, StoreTypeOK, Respond, Write, storeVars
<1>1. Mapped /\ Mapped'
  <2>1. Mapped
    BY ChoicesAreForced
  <2>2. (IInv => Mapped)'
    BY ChoicesAreForced, PTL
  <2> QED  BY <2>1, <2>2
<1>2. ~ Deterministic(h) /\ answer'[h] = proposal[h] /\ proposal[h] \in {"allow", "deny"}
  BY <1>0 DEF Answers, Deterministic, Action
<1>3. Committed(h, proposal[h])
  BY <1>0, <1>2 DEF IInv, RespondCommitted
<1>4. Status(i) = proposal[h]
  <2>1. Settled(h) /\ RowStatus(h) = proposal[h]
    BY <1>3 DEF Committed, Settled, RowStatus
  <2> QED  BY <1>1, <2>1 DEF Mapped
<1>5. Answered(i) = "none"
  <2>1. ASSUME NEW g \in Hook, request[g] = i, Answers(g)
        PROVE  FALSE
    <3>1. attempts[g].state = "decided" /\ attempts[h].state = "decided"
      <4>1. attempts[h] = [state |-> "decided", authority |-> proposal[h]]
        BY <1>3 DEF Committed
      <4>2. answer[g] \in Action /\ ~ Deterministic(g)
        BY <2>1 DEF Answers
      <4>3. attempts[g] = [state |-> "decided", authority |-> answer[g]]
        BY <4>2, Zenon DEF IInv, AnswerIsCommitted
      <4> QED  BY <4>1, <4>3
    <3>2. g = h
      BY <2>1, <3>1 DEF IInv, OneLiveAttempt, Live
    <3> QED  BY <1>0, <2>1, <3>2 DEF IInv, AnswerLast, Answers
  <2> QED  BY <1>0, <1>1, <2>1 DEF Mapped
<1>6. Answered(i)' = proposal[h]
  BY <1>0, <1>1, <1>2 DEF Mapped
<1>7. ASSUME NEW j \in Identity
      PROVE  Status(j)' = Status(j) /\ (j # i => Answered(j)' = Answered(j))
  <2>1. Status(j)' = Status(j)
    BY <1>0, MappingFrame
  <2>2. \A g \in Hook : g # h => (Answers(g)' <=> Answers(g)) /\ answer'[g] = answer[g]
    BY <1>0 DEF Answers, Deterministic
  <2>3. j # i => \A g \in Hook : request[g] = j => g # h
    OBVIOUS
  <2> QED  BY <1>0, <2>1, <2>2, <2>3, MappingFrame
<1>8. i \in Identity
  BY <1>0
<1>9. status' = status
  BY <1>7
<1>10. answered' = [answered EXCEPT ![i] = status[i]]
  <2>1. \A j \in Identity : Answered(j)' = IF j = i THEN Status(i) ELSE Answered(j)
    <3>1. Answered(request[h])' = Status(request[h])
      BY <1>4, <1>6
    <3>2. request'[h] = i
      BY <1>0
    <3> QED  BY <1>7, <3>1, <3>2
  <2>2. answered' = [j \in Identity |-> IF j = i THEN Status(i) ELSE Answered(j)]
    BY <2>1
  <2> HIDE DEF i
  <2> QED  BY <1>8, <2>2
<1>11. status[i] \in {"allow", "deny"} /\ answered[i] = "none"
  BY <1>2, <1>4, <1>5, <1>8
<1> QED  BY <1>9, <1>10, <1>11 DEF Authority!Reply

\* A step that is not such an answer leaves what every request was answered.
LEMMA AnswerKept ==
  ASSUME IInv, IInv', NEW h \in Hook, HookStep(h) \/ Die(h), ~ (Respond(h) /\ Answers(h)')
  PROVE  \A i \in Identity : Answered(i)' = Answered(i)
<1>0. /\ request \in [Hook -> Identity] /\ request' = request
      /\ pc \in [Hook -> Control] /\ class \in [Hook -> Class] /\ answer \in [Hook -> Answer]
  BY HookStoreStep DEF IInv, TypeOK, StoreTypeOK, Die, StoreStep, storeVars, AdmitRows,
     FinishRows, CommitRows, DeliveryRecorded, DeliveryRows, AppendRow
<1>1. \A g \in Hook : g # h => (Answers(g)' <=> Answers(g)) /\ answer'[g] = answer[g]
  BY StepFrame DEF Answers, Deterministic
<1>2. (Answers(h)' <=> Answers(h)) /\ (answer'[h] = answer[h] \/ ~ Answers(h))
  <2>1. CASE Respond(h)
    <3>1. ~ Answers(h)
      BY <2>1 DEF Respond, IInv, AnswerLast, Answers
    <3> QED  BY <2>1, <3>1
  <2>2. CASE EmitDeny(h) \/ EmitAsk(h)
    <3>1. ~ Answers(h)
      BY <2>2 DEF EmitDeny, EmitAsk, IInv, AnswerLast, Answers
    <3>2. ~ Answers(h)'
      BY <1>0, <2>2 DEF EmitDeny, EmitAsk, Write, IInv, RespondCommitted, Answers,
         Deterministic, Action
    <3> QED  BY <3>1, <3>2
  <2>3. CASE RejectInput(h) \/ OpenDatabase(h) \/ OpenFails(h)
    <3>1. answer' = answer /\ answer[h] \notin Action
      BY <2>3 DEF RejectInput, OpenDatabase, OpenFails, Classify, IInv, AnswerLast
    <3> QED  BY <3>1 DEF Answers
  <2>4. CASE ~ \/ Respond(h) \/ EmitDeny(h) \/ EmitAsk(h)
               \/ RejectInput(h) \/ OpenDatabase(h) \/ OpenFails(h)
    <3>1. class' = class /\ answer' = answer
      <4>1. CASE Admit(h) \/ SuppressDuplicate(h) \/ AdmitFails(h) \/ AcquireLock(h)
                 \/ LockContended(h) \/ LockFails(h) \/ Probe(h) \/ LifecycleUnreadable(h)
                 \/ Reprove(h) \/ ReproveFails(h) \/ Reprobe(h)
        BY <4>1 DEF Admit, SuppressDuplicate, AdmitFails, AcquireLock, LockContended, LockFails,
           Probe, LifecycleUnreadable, Reprove, ReproveFails, Reprobe
      <4>2. CASE EvaluateDeterministic(h) \/ EvaluateIndeterminate(h) \/ EvaluateAbstains(h)
                 \/ ModelDenies(h) \/ ModelAllows(h)
        BY <4>2 DEF EvaluateDeterministic, EvaluateIndeterminate, EvaluateAbstains, ModelDenies,
           ModelAllows, Propose
      <4>3. CASE FinishWithoutAuthority(h) \/ FinishFails(h) \/ CommitPermission(h)
                 \/ CommitFails(h) \/ RecordDelivery(h) \/ Die(h)
        BY <4>3 DEF FinishWithoutAuthority, FinishFails, CommitPermission, CommitFails,
           RecordDelivery, Die
      <4> QED  BY <2>4, <4>1, <4>2, <4>3 DEF HookStep
    <3> QED  BY <3>1 DEF Answers, Deterministic
  <2> QED  BY <2>1, <2>2, <2>3, <2>4
<1> QED  BY <1>0, <1>1, <1>2, MappingFrame

\* Every step of the processes is a step of the authority, or none.
LEMMA NextRefines ==
  ASSUME IInv, IInv', [Next]_vars
  PROVE  [Authority!AuthorityNext]_<<[i \in Identity |-> Status(i)],
                                     [i \in Identity |-> Answered(i)]>>
<1>0. request \in [Hook -> Identity]
  BY DEF IInv, TypeOK, StoreTypeOK
<1>1. ASSUME NEW h \in Hook, Respond(h), Answers(h)'
      PROVE  Authority!AuthorityNext
  BY <1>0, <1>1, RespondRefines DEF Authority!AuthorityNext
<1>2. ASSUME NEW h \in Hook, HookStep(h) \/ Die(h), ~ (Respond(h) /\ Answers(h)')
      PROVE  [Authority!AuthorityNext]_<<[i \in Identity |-> Status(i)],
                                         [i \in Identity |-> Answered(i)]>>
  <2>1. StoreStep(h)
    BY <1>2, HookStoreStep DEF Die, StoreStep
  <2>2. \A i \in Identity : Answered(i)' = Answered(i)
    BY <1>2, AnswerKept
  <2>3. Moves(request[h]) /\ \A j \in Identity \ {request[h]} : Status(j)' = Status(j)
    BY <2>1, RowsMove
  <2> QED  BY <1>0, <2>2, <2>3, MoveRefines
<1>3. CASE UNCHANGED vars \/ \E i \in Identity : LifecycleMoves(i)
  <2>1. UNCHANGED <<request, attempts, commits, class, answer>>
    BY <1>3 DEF vars, hookVars, storeVars, LifecycleMoves
  <2>2. \A i \in Identity : Status(i)' = Status(i) /\ Answered(i)' = Answered(i)
    BY <2>1, MappingFrame DEF Answers, Deterministic
  <2> QED  BY <2>2
<1> QED  BY <1>1, <1>2, <1>3 DEF Next

\* The processes over the tables implement the abstract authority: whatever
\* dies and whatever commits unnoticed, each request is claimed, settled once,
\* and answered by the model at most once, as it was settled.
THEOREM HookImplementsAuthority == Spec => ImplementsAuthority
<1>1. IInv /\ IInv' /\ [Next]_vars =>
        [Authority!AuthorityNext]_<<[i \in Identity |-> Status(i)],
                                    [i \in Identity |-> Answered(i)]>>
  BY NextRefines
<1> QED  BY <1>1, InitRefines, Invariance, PTL
         DEF Spec, ImplementsAuthority, Authority!AuthoritySpec, Authority!authorityVars
==============================================================================
