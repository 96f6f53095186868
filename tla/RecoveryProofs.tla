---------------------------- MODULE RecoveryProofs ----------------------------
(***************************************************************************)
(* Proofs about automatic recovery, for any number of sessions, hooks,     *)
(* poller threads, prompts and events.                                     *)
(*                                                                         *)
(* A step of an executor moves it, may write of the one attempt it works   *)
(* on, and leaves everybody else where they are.  LocalStep says when such *)
(* a step keeps the invariant; what remains is one short argument for each *)
(* action, and one for the events and the reservations.                    *)
(***************************************************************************)
EXTENDS Recovery, TLAPS

\* Nothing was recorded of attempt a, and nothing sent.
Same(a) == /\ sends'[a] = sends[a]
           /\ audit'[a] = audit[a]
           /\ a \in notSent' <=> a \in notSent

\* LateKnows, for one executor.
Knows(x) ==
  /\ pc[x] \in {"recheck_row"} \cup Late => "evaluating" \in audit[Key(x)]
  /\ pc[x] \in Armed => ~ Touched(Key(x))
  /\ pc[x] = "write" => Of(x) \in structured
  /\ pc[x] \in Late => "delivered" \notin audit[Key(x)] /\ Key(x) \notin notSent
  /\ pc[x] \in {"confirm", "postflight", "told"} =>
       sends[Key(x)] > 0 /\ "delivery_failed" \notin audit[Key(x)]
  /\ pc[x] = "failed" => IF job[x].clean THEN sends[Key(x)] = 0 ELSE Of(x) \in structured
  /\ pc[x] = "report" => sends[Key(x)] = 0

\* The three properties, for one attempt.
Truthful(a) ==
  /\ sends[a] <= 1
  /\ sends[a] > 0 => "evaluating" \in audit[a]
  /\ "delivered" \in audit[a] => sends[a] > 0 /\ "delivery_failed" \notin audit[a]
  /\ a \in notSent => sends[a] = 0
  /\ "delivery_failed" \in audit[a] /\ a[1] \notin structured => sends[a] = 0

\* LateKnows is said of each executor alone.
LEMMA LateKnowsIs == LateKnows <=> \A x \in Executor : Knows(x)
BY DEF LateKnows, Knows

\* The three properties are said of each attempt alone.
LEMMA RecordIs ==
  OneContinuePerAttempt /\ ContinueIsAnnounced /\ RecordIsTruthful
    <=> \A a \in Attempt : Truthful(a)
BY DEF OneContinuePerAttempt, ContinueIsAnnounced, RecordIsTruthful, Truthful

\* An executor at work has an attempt.
LEMMA KeyOf ==
  ASSUME TypeOK, NEW x \in Executor, pc[x] \notin {"idle", "gone"}
  PROVE  /\ Key(x) \in Attempt /\ Of(x) \in Session /\ Of(x) \in Reachable
         /\ Key(x)[1] = Of(x) /\ Key(x)[2] = job[x].epoch
BY ReachableAssumption, ExecutorAssumption DEF TypeOK, Job, Key, Of, Attempt

------------------------------------------------------------------------------
(* What may happen to the log and to the reservations. *)

\* Numbers grow, and no old number becomes the latest one again.
LogAges ==
  /\ LogTypeOK' /\ next <= next'
  /\ \A s \in Session : row'[s].seq < next'
  /\ \A a \in Attempt : a[2] < next /\ Fresh(a)' => Fresh(a)

\* The reservation of a session in the lifecycle is never taken back.
ReservedGrows ==
  /\ reserved' \in [Session -> [epoch : 0..MaxSequence, warm : BOOLEAN]]
  /\ \A a \in Attempt : Fresh(a)' => reserved'[a[1]].epoch >= reserved[a[1]].epoch

\* A step that leaves the lifecycle alone ages it.
LEMMA QuietLog ==
  ASSUME TypeOK, NumbersAreOld, UNCHANGED logVars PROVE LogAges
BY DEF logVars, LogAges, Fresh, NumbersAreOld, TypeOK, LogTypeOK

\* So does an event: it takes the next number and removes other rows at most.
LEMMA HearAges ==
  ASSUME TypeOK, NumbersAreOld, NEW s \in Session, NEW stop \in BOOLEAN, NEW gone,
         Hear(s, stop, gone)
  PROVE  LogAges /\ next \in 1..MaxSequence /\ next < next'
<1>1. LogTypeOK' /\ next \in 1..MaxSequence /\ next' = next + 1
  BY LogAssumption DEF TypeOK, LogTypeOK, Hear, Row, Absent
<1>2. \A t \in Session : row'[t].seq = next \/ row'[t].seq = 0 \/ row'[t].seq = row[t].seq
  BY DEF Hear, Absent
<1>3. \A t \in Session : row[t].seq \in Nat /\ row[t].seq < next
  BY DEF TypeOK, LogTypeOK, Row, NumbersAreOld
<1>4. \A a \in Attempt : a[1] \in Session /\ a[2] \in Nat /\ a[2] > 0
  BY LogAssumption DEF Attempt
<1> QED BY <1>1, <1>2, <1>3, <1>4 DEF LogAges, Fresh

\* A step that leaves the reservations alone takes none back.
LEMMA ReservationKept ==
  ASSUME TypeOK, UNCHANGED reserved PROVE ReservedGrows
<1>1. \A a \in Attempt : reserved[a[1]].epoch \in Nat
  BY DEF TypeOK, Attempt
<1> QED BY <1>1 DEF ReservedGrows, TypeOK

\* A session with a fresh attempt is in the lifecycle, so it is not pruned.
LEMMA PruneKeepsFresh ==
  ASSUME TypeOK
  PROVE  /\ Pruned \in [Session -> [epoch : 0..MaxSequence, warm : BOOLEAN]]
         /\ \A a \in Attempt : Fresh(a) => Pruned[a[1]] = reserved[a[1]]
<1>1. Pruned \in [Session -> [epoch : 0..MaxSequence, warm : BOOLEAN]]
  BY LogAssumption DEF Pruned, NoReservation, TypeOK
<1>2. ASSUME NEW a \in Attempt, Fresh(a) PROVE Pruned[a[1]] = reserved[a[1]]
  BY <1>2, LogAssumption DEF Attempt, Fresh, Pruned
<1> QED BY <1>1, <1>2

\* A reservation raises its session, and prunes what is gone.
LEMMA ReserveGrows ==
  ASSUME TypeOK, UNCHANGED logVars, NEW x \in Executor, Key(x) \in Attempt,
         UNCHANGED reserved \/ ReserveRows(x)
  PROVE  /\ ReservedGrows
         /\ ReserveRows(x) => reserved'[Of(x)].epoch = job[x].epoch
<1>1. CASE UNCHANGED reserved /\ ~ ReserveRows(x)
  BY <1>1, ReservationKept
<1>2. CASE ReserveRows(x)
  <2> DEFINE mine == [epoch |-> job[x].epoch, warm |-> TRUE]
  <2>1. mine \in [epoch : 0..MaxSequence, warm : BOOLEAN] /\ mine.epoch = job[x].epoch
    BY DEF TypeOK, Job
  <2>2. reserved' = [Pruned EXCEPT ![Of(x)] = mine]
        /\ ~(Pruned[Of(x)].epoch >= job[x].epoch)
    BY <1>2 DEF ReserveRows, Refused
  <2> HIDE DEF mine
  <2>3. Of(x) \in Session
    BY DEF Attempt, Key, Of
  <2>4. \A a \in Attempt : a[1] \in Session /\ Pruned[a[1]].epoch \in Nat /\ (Fresh(a)' <=> Fresh(a))
    BY PruneKeepsFresh DEF Attempt, Fresh, logVars
  <2>5. job[x].epoch \in Nat
    BY DEF TypeOK, Job
  <2> QED BY <2>1, <2>2, <2>3, <2>4, <2>5, PruneKeepsFresh DEF ReservedGrows
<1> QED BY <1>1, <1>2

\* So does the reservation of some other session.
LEMMA PruneGrows ==
  ASSUME TypeOK, UNCHANGED logVars, reserved' = Pruned PROVE ReservedGrows
<1>1. \A a \in Attempt : reserved[a[1]].epoch \in Nat /\ (Fresh(a)' <=> Fresh(a))
  BY DEF TypeOK, Attempt, Fresh, logVars
<1> QED BY <1>1, PruneKeepsFresh DEF ReservedGrows

\* A reservation that cools keeps its epoch.
LEMMA CoolDownGrows ==
  ASSUME TypeOK, CoolDown PROVE ReservedGrows
<1>1. \A a \in Attempt : reserved[a[1]].epoch \in Nat /\ a[1] \in Session
  BY DEF TypeOK, Attempt
<1>2. reserved' \in [Session -> [epoch : 0..MaxSequence, warm : BOOLEAN]]
      /\ \A s \in Session : reserved'[s].epoch = reserved[s].epoch
  <2>1. PICK s \in Session : reserved' = [reserved EXCEPT ![s].warm = FALSE]
    BY DEF CoolDown
  <2>2. \A t \in Session : reserved[t] \in [epoch : 0..MaxSequence, warm : BOOLEAN]
    BY DEF TypeOK
  <2> DEFINE cool == [reserved[s] EXCEPT !.warm = FALSE]
  <2>3. cool \in [epoch : 0..MaxSequence, warm : BOOLEAN] /\ cool.epoch = reserved[s].epoch
    BY <2>2
  <2>4. reserved' = [reserved EXCEPT ![s] = cool]
    BY <2>1
  <2> HIDE DEF cool
  <2> QED BY <2>2, <2>3, <2>4 DEF TypeOK
<1> QED BY <1>1, <1>2 DEF ReservedGrows

------------------------------------------------------------------------------
(* The invariant survives the world, and whatever one executor does. *)

\* Events, repaints and reservations of others leave the invariant standing.
LEMMA WorldStep ==
  ASSUME IInv, LogAges, ReservedGrows, prompt' \in [Reachable -> Prompt \cup {None}],
         UNCHANGED <<structured, audit, notSent, sends, pc, job>>
  PROVE  IInv'
<1> USE DEF IInv
<1>1. /\ \A x \in Executor : Key(x)' = Key(x) /\ Of(x)' = Of(x)
      /\ \A a : Touched(a)' <=> Touched(a)
  BY DEF Key, Of, Touched
<1>2. \A x \in Executor : pc[x] \in Working =>
        Key(x) \in Attempt /\ Key(x)[1] = Of(x) /\ Key(x)[2] = job[x].epoch
  BY KeyOf DEF Working, Owned, Late, Armed
<1>3. \A a \in Attempt : a[1] \in Session /\ a[2] \in Nat /\ reserved'[a[1]].epoch \in Nat
                         /\ reserved[a[1]].epoch \in Nat
  BY DEF Attempt, ReservedGrows, TypeOK
<1>4. TypeOK'
  BY DEF TypeOK, LogAges, ReservedGrows
<1>5. next \in Nat /\ next' \in Nat /\ \A x \in Executor : job[x].epoch \in Nat
  BY <1>4 DEF TypeOK, LogTypeOK, Job
<1>6. NumbersAreOld'
  BY <1>1, <1>3, <1>5 DEF NumbersAreOld, LogAges
<1>7. \A x \in Executor : pc[x] \in Working /\ Fresh(Key(x))' => Fresh(Key(x))
  <2> SUFFICES ASSUME NEW x \in Executor, pc[x] \in Working, Fresh(Key(x))' PROVE Fresh(Key(x))
    OBVIOUS
  <2>1. PICK a \in Attempt : a = Key(x)
    BY <1>2
  <2>2. a[2] < next
    BY <2>1, <1>2 DEF NumbersAreOld
  <2>3. Fresh(a)'
    BY <2>1, <1>1 DEF Fresh
  <2> QED BY <2>1, <2>2, <2>3 DEF LogAges
<1>8. FreshIsReserved'
  <2>1. ASSUME NEW x \in Executor, pc[x] \in Working, Fresh(Key(x))'
        PROVE  reserved'[Of(x)].epoch >= job[x].epoch
    <3>1. PICK a \in Attempt : a = Key(x) /\ a[1] = Of(x) /\ a[2] = job[x].epoch
      BY <2>1, <1>2
    <3>2. Fresh(a)' /\ Fresh(a)
      BY <2>1, <3>1, <1>1, <1>7 DEF Fresh
    <3>3. reserved'[a[1]].epoch >= reserved[a[1]].epoch /\ reserved[a[1]].epoch >= a[2]
      BY <2>1, <3>1, <3>2 DEF FreshIsReserved, ReservedGrows
    <3> QED BY <3>1, <3>3, <1>3
  <2>2. ASSUME NEW a \in Attempt, Touched(a), Fresh(a)' PROVE reserved'[a[1]].epoch >= a[2]
    BY <2>2, <1>3 DEF FreshIsReserved, ReservedGrows, NumbersAreOld, LogAges
  <2> QED BY <2>1, <2>2, <1>1 DEF FreshIsReserved
<1>9. FreshHasOneOwner'
  BY <1>1, <1>7 DEF FreshHasOneOwner
<1>10. LateIsAlone' /\ LateKnows'
  BY <1>1 DEF LateIsAlone, LateKnows
<1>11. OwnedIsUntouched'
  BY <1>1, <1>7 DEF OwnedIsUntouched, Working
<1>12. OneContinuePerAttempt' /\ ContinueIsAnnounced' /\ RecordIsTruthful'
  BY DEF OneContinuePerAttempt, ContinueIsAnnounced, RecordIsTruthful
<1> QED BY <1>4, <1>6, <1>8, <1>9, <1>10, <1>11, <1>12

\* What an executor does to the records, typed.
RecordsTyped == /\ audit' \in [Attempt -> SUBSET AuditState]
                /\ notSent' \subseteq Attempt
                /\ sends' \in [Attempt -> 0..MaxSends]

\* What an executor may do: the assumptions are those of the code, that it takes
\* a fresh attempt from nobody, is armed only by a look at a fresh row, and
\* writes of its own attempt alone.
LEMMA LocalStep ==
  ASSUME IInv, LogAges, ReservedGrows, RecordsTyped, UNCHANGED <<prompt, structured>>,
         NEW x \in Executor, NEW to \in Control, NEW j \in Job,
         pc' = [pc EXCEPT ![x] = to], job' = [job EXCEPT ![x] = j],
         to \notin {"idle", "gone"} => j.session # None /\ j.epoch > 0,
         j.epoch < next',
         \* It starts to work on a fresh attempt only if nobody has,
         to \in Working => /\ pc[x] \notin {"idle", "gone"}
                           /\ j.session = job[x].session /\ j.epoch = job[x].epoch,
         to \in Working /\ pc[x] \notin Working =>
           /\ Fresh(Key(x)) => /\ \A y \in Executor : pc[y] \in Working => Key(y) # Key(x)
                               /\ ~ Touched(Key(x))
           /\ reserved'[Of(x)].epoch >= job[x].epoch,
         \* gets near delivery only while the attempt is fresh,
         to \in Late /\ pc[x] \notin Late => pc[x] = "recheck_row" /\ Fresh(Key(x)),
         to \in Owned => pc[x] \notin Late,
         \* and writes of its own attempt alone, and truthfully.
         \A a \in Attempt : (pc[x] \in Working /\ a = Key(x)) \/ Same(a),
         pc[x] \in Working => audit[Key(x)] \subseteq audit'[Key(x)],
         pc[x] \in Owned => /\ audit'[Key(x)] \subseteq audit[Key(x)] \cup {"evaluating"}
                            /\ sends'[Key(x)] = sends[Key(x)]
                            /\ Key(x) \in notSent' <=> Key(x) \in notSent,
         Knows(x)',
         \A a \in Attempt : Truthful(a) => Truthful(a)'
  PROVE  IInv'
<1> USE DEF IInv
<1>1. /\ \A y \in Executor : y # x => /\ pc'[y] = pc[y] /\ job'[y] = job[y]
                                      /\ Key(y)' = Key(y) /\ Of(y)' = Of(y)
      /\ pc'[x] = to /\ job'[x] = j
  BY DEF TypeOK, Key, Of
<1>2. \A y \in Executor : pc[y] \notin {"idle", "gone"} =>
         Key(y) \in Attempt /\ Key(y)[1] = Of(y) /\ Key(y)[2] = job[y].epoch
  BY KeyOf
<1>3. to \in Working => Key(x)' = Key(x) /\ Of(x)' = Of(x)
  BY <1>1 DEF Key, Of
<1>4. \A a \in Attempt : Touched(a)' => Touched(a) \/ (pc[x] \in Late /\ a = Key(x))
  <2> SUFFICES ASSUME NEW a \in Attempt, Touched(a)', ~(pc[x] \in Late /\ a = Key(x))
               PROVE  Touched(a)
    OBVIOUS
  <2>1. CASE Same(a)
    BY <2>1 DEF Same, Touched
  <2>2. CASE pc[x] \in Owned /\ a = Key(x)
    BY <2>2 DEF Touched
  <2> QED BY <2>1, <2>2 DEF Working
<1>5. TypeOK'
  <2>1. pc' \in [Executor -> Control] /\ job' \in [Executor -> Job]
    BY DEF TypeOK
  <2>2. \A y \in Executor : pc'[y] \notin {"idle", "gone"} => job'[y].session # None /\ job'[y].epoch > 0
    BY <1>1 DEF TypeOK
  <2> QED BY <2>1, <2>2 DEF TypeOK, LogAges, ReservedGrows, RecordsTyped
<1>6. /\ next \in Nat /\ next' \in Nat /\ \A y \in Executor : job[y].epoch \in Nat
      /\ \A a \in Attempt : a[1] \in Session /\ a[2] \in Nat /\ reserved'[a[1]].epoch \in Nat
                            /\ reserved[a[1]].epoch \in Nat
  BY <1>5 DEF TypeOK, LogTypeOK, Job, Attempt
<1>7. \A y \in Executor :
        pc[y] \notin {"idle", "gone"} /\ Key(y)' = Key(y) /\ Fresh(Key(y))' => Fresh(Key(y))
  <2> SUFFICES ASSUME NEW y \in Executor, pc[y] \notin {"idle", "gone"}, Key(y)' = Key(y), Fresh(Key(y))'
               PROVE  Fresh(Key(y))
    OBVIOUS
  <2>1. PICK a \in Attempt : a = Key(y)
    BY <1>2
  <2>2. a[2] < next
    BY <2>1, <1>2 DEF NumbersAreOld
  <2>3. Fresh(a)'
    BY <2>1 DEF Fresh
  <2> QED BY <2>1, <2>2, <2>3 DEF LogAges
<1>8. \A a \in Attempt : Touched(a)' => a[2] < next
  BY <1>2, <1>4 DEF NumbersAreOld, Late, Armed
<1>9. NumbersAreOld'
  BY <1>1, <1>6, <1>8 DEF NumbersAreOld, LogAges
<1>10. FreshIsReserved'
  <2>1. ASSUME NEW y \in Executor, (pc[y] \in Working /\ Fresh(Key(y)))', pc[y] \in Working
        PROVE  (reserved[Of(y)].epoch >= job[y].epoch)'
    <3>1. Key(y)' = Key(y) /\ Of(y)' = Of(y) /\ job'[y].epoch = job[y].epoch
      BY <2>1, <1>1, <1>3
    <3>2. Key(y) \in Attempt /\ Key(y)[1] = Of(y) /\ Fresh(Key(y))' /\ Fresh(Key(y))
      BY <2>1, <3>1, <1>2, <1>7 DEF Working, Owned, Late, Armed
    <3>3. PICK a \in Attempt : a = Key(y) /\ a[1] = Of(y) /\ a[2] = job[y].epoch /\ Fresh(a)'
      BY <2>1, <3>1, <3>2, <1>2 DEF Fresh, Working, Owned, Late, Armed
    <3>4. reserved'[a[1]].epoch >= reserved[a[1]].epoch /\ reserved[a[1]].epoch >= a[2]
      BY <2>1, <3>2, <3>3 DEF FreshIsReserved, ReservedGrows
    <3> QED BY <3>1, <3>3, <3>4, <1>6
  <2>2. ASSUME NEW y \in Executor, (pc[y] \in Working /\ Fresh(Key(y)))', pc[y] \notin Working
        PROVE  (reserved[Of(y)].epoch >= job[y].epoch)'
    BY <2>2, <1>1, <1>3
  <2>3. ASSUME NEW a \in Attempt, Touched(a)', Fresh(a)' PROVE reserved'[a[1]].epoch >= a[2]
    <3>1. Fresh(a)
      BY <2>3, <1>8 DEF LogAges
    <3>2. reserved[a[1]].epoch >= a[2]
      BY <2>3, <3>1, <1>2, <1>4 DEF FreshIsReserved, Working, Late, Armed
    <3> QED BY <2>3, <3>2, <1>6 DEF ReservedGrows
  <2> QED BY <2>1, <2>2, <2>3 DEF FreshIsReserved
<1>11. \A y \in Executor : pc'[y] \in Working => Key(y)' = Key(y) /\ Of(y)' = Of(y)
  BY <1>1, <1>3
<1>12. \A y \in Executor : pc'[y] \in Working /\ pc[y] \notin Working => y = x
  BY <1>1
<1>13. \A y \in Executor : pc'[y] \in Working /\ Fresh(Key(y))' => Fresh(Key(y)) /\ pc[y] \notin {"idle", "gone"}
  BY <1>1, <1>7, <1>11 DEF Working, Owned, Late, Armed
<1>14. FreshHasOneOwner'
  BY <1>1, <1>11, <1>12, <1>13 DEF FreshHasOneOwner
<1>15. LateIsAlone'
  BY <1>1, <1>3 DEF LateIsAlone, FreshHasOneOwner, Working, Owned
<1>16. OwnedIsUntouched'
  BY <1>1, <1>2, <1>3, <1>4, <1>13 DEF OwnedIsUntouched, FreshHasOneOwner, Working, Owned, Late, Armed
<1>17. ASSUME NEW y \in Executor, y # x PROVE Knows(y)'
  <2>1. Knows(y) /\ pc'[y] = pc[y] /\ job'[y] = job[y] /\ Key(y)' = Key(y) /\ Of(y)' = Of(y)
    BY <1>1, <1>17, LateKnowsIs
  <2>2. CASE pc[y] \notin {"recheck_row"} \cup Late
    BY <2>1, <2>2 DEF Knows, Late, Armed
  <2>3. CASE pc[y] \in {"recheck_row"} \cup Late /\ Same(Key(y))
    BY <2>1, <2>3 DEF Knows, Same, Touched
  <2>4. CASE pc[y] = "recheck_row" /\ pc[x] \in Working /\ Key(y) = Key(x)
    BY <2>1, <2>4 DEF Knows, Late, Armed
  <2>5. CASE pc[y] \in Late /\ pc[x] \in Owned /\ Key(y) = Key(x)
    BY <2>1, <2>5 DEF Knows, Touched, Working
  <2>6. CASE pc[y] \in Late /\ pc[x] \in Late /\ Key(y) = Key(x)
    BY <2>6, <1>17 DEF LateIsAlone
  <2>7. Key(y) \in Attempt \/ pc[y] \notin {"recheck_row"} \cup Late
    BY <1>2 DEF Late, Armed
  <2> QED BY <2>2, <2>3, <2>4, <2>5, <2>6, <2>7 DEF Working
<1>18. LateKnows'
  BY <1>17, LateKnowsIs DEF LateKnows, Knows
<1>19. OneContinuePerAttempt' /\ ContinueIsAnnounced' /\ RecordIsTruthful'
  BY RecordIs DEF OneContinuePerAttempt, ContinueIsAnnounced, RecordIsTruthful, Truthful
<1> QED BY <1>5, <1>9, <1>10, <1>14, <1>15, <1>16, <1>18, <1>19

------------------------------------------------------------------------------
(* The shapes that steps of an executor have. *)

\* What a step may write: of the attempt of x only, and truthfully.
Writes(x) ==
  /\ RecordsTyped
  /\ \A a \in Attempt : (pc[x] \in Working /\ a = Key(x)) \/ Same(a)
  /\ pc[x] \in Working => audit[Key(x)] \subseteq audit'[Key(x)]
  /\ pc[x] \in Owned => /\ audit'[Key(x)] \subseteq audit[Key(x)] \cup {"evaluating"}
                        /\ sends'[Key(x)] = sends[Key(x)]
                        /\ Key(x) \in notSent' <=> Key(x) \in notSent
  /\ \A a \in Attempt : Truthful(a) => Truthful(a)'

\* To write nothing is always allowed.
LEMMA WritesNothing ==
  ASSUME TypeOK, NEW x, UNCHANGED <<audit, notSent, sends, structured>> PROVE Writes(x)
BY DEF Writes, RecordsTyped, TypeOK, Same, Truthful

\* A step that ends the work of an executor.
LEMMA LeaveStep ==
  ASSUME IInv, NEW x \in Executor, Leave(x), Writes(x), ReservedGrows,
         UNCHANGED <<logVars, prompt, structured>>
  PROVE  IInv'
<1> USE DEF IInv
<1>1. PICK to \in {"idle", "gone"} : pc' = [pc EXCEPT ![x] = to]
  BY DEF Leave, Goto
<1>2. NoJob \in Job /\ NoJob.epoch = 0
  BY LogAssumption DEF NoJob, Job
<1>3. job' = [job EXCEPT ![x] = NoJob] /\ pc'[x] = to
  BY <1>1 DEF Leave, TypeOK
<1>4. to \in Control /\ to \notin Working /\ to \notin Late /\ to \notin Owned
  BY <1>1 DEF Control, Working, Owned, Late, Armed
<1>5. Knows(x)'
  BY <1>1, <1>3 DEF Knows, Late, Armed
<1>6. 0 < next'
  BY DEF TypeOK, LogTypeOK, logVars
<1> HIDE DEF IInv
<1> QED
  BY <1>1, <1>2, <1>3, <1>4, <1>5, <1>6, QuietLog, LocalStep DEF Writes, IInv

\* A step from one place of the work on an attempt to another.
LEMMA MoveStep ==
  ASSUME IInv, NEW x \in Executor, pc[x] \notin {"idle", "gone"},
         NEW to \in Control \ {"idle", "gone"}, NEW j \in Job,
         j.session = job[x].session, j.epoch = job[x].epoch,
         Goto(x, to), job' = [job EXCEPT ![x] = j],
         to \in Working /\ pc[x] \notin Working =>
           /\ Fresh(Key(x)) => /\ \A y \in Executor : pc[y] \in Working => Key(y) # Key(x)
                               /\ ~ Touched(Key(x))
           /\ reserved'[Of(x)].epoch >= job[x].epoch,
         to \in Late /\ pc[x] \notin Late => pc[x] = "recheck_row" /\ Fresh(Key(x)),
         to \in Owned => pc[x] \notin Late,
         Writes(x), Knows(x)', ReservedGrows, UNCHANGED <<logVars, prompt, structured>>
  PROVE  IInv'
<1>1. j.session # None /\ j.epoch > 0
  BY DEF IInv, TypeOK
<1>2. j.epoch < next'
  BY DEF IInv, NumbersAreOld, logVars
<1>3. LogAges
  BY QuietLog DEF IInv
<1>4. pc' = [pc EXCEPT ![x] = to]
  BY DEF Goto
<1> QED
  BY <1>1, <1>2, <1>3, <1>4, LocalStep DEF Writes

\* A step that only looks.
LEMMA LookStep ==
  ASSUME IInv, NEW x \in Executor, pc[x] \notin {"idle", "gone"},
         NEW to \in Control \ {"idle", "gone"}, NEW j \in Job,
         j.session = job[x].session, j.epoch = job[x].epoch,
         Goto(x, to), job' = [job EXCEPT ![x] = j],
         to \in Working => pc[x] \in Working,
         to \in Late /\ pc[x] \notin Late => pc[x] = "recheck_row" /\ Fresh(Key(x)),
         to \in Owned => pc[x] \notin Late, Knows(x)',
         UNCHANGED <<logVars, storeVars, sends, prompt, structured>>
  PROVE  IInv'
<1>1. TypeOK /\ UNCHANGED <<audit, notSent, sends, structured, reserved>>
  BY DEF storeVars, IInv
<1>2. Writes(x) /\ ReservedGrows
  BY <1>1, WritesNothing, ReservationKept
<1> QED BY <1>2, MoveStep

\* Where x is after a step, and what it sees of its attempt.
LEMMA Moved ==
  ASSUME TypeOK, NEW x \in Executor, NEW to, NEW j, Goto(x, to), job' = [job EXCEPT ![x] = j],
         j.session = job[x].session, j.epoch = job[x].epoch
  PROVE  pc'[x] = to /\ job'[x] = j /\ Key(x)' = Key(x) /\ Of(x)' = Of(x)
BY DEF TypeOK, Goto, Key, Of

\* A job that is left alone.
LEMMA JobKept ==
  ASSUME TypeOK, NEW x \in Executor, UNCHANGED job
  PROVE  job' = [job EXCEPT ![x] = job[x]] /\ job[x] \in Job
BY DEF TypeOK

------------------------------------------------------------------------------
(* The actions. *)

\* A step of an executor outside the work on an attempt.
LEMMA EarlyStep ==
  ASSUME IInv, LogAges, NEW x \in Executor, pc[x] \notin Working,
         NEW to \in {"read", "probe", "infer", "check_row", "check_prompt", "reserve"},
         NEW j \in Job, j.session # None, j.epoch > 0, j.epoch < next',
         Goto(x, to), job' = [job EXCEPT ![x] = j],
         UNCHANGED <<storeVars, sends, prompt, structured>>
  PROVE  IInv'
<1>1. TypeOK /\ UNCHANGED <<audit, notSent, sends, structured, reserved>>
  BY DEF storeVars, IInv
<1>2. Writes(x) /\ ReservedGrows
  BY <1>1, WritesNothing, ReservationKept
<1>3. pc' = [pc EXCEPT ![x] = to] /\ pc'[x] = to
  BY <1>1 DEF Goto, TypeOK
<1>4. to \in Control /\ to \notin Working /\ to \notin Late /\ to \notin Owned
  BY DEF Control, Working, Owned, Late, Armed
<1>5. Knows(x)'
  BY <1>3, <1>4 DEF Knows, Late, Armed
<1> QED BY <1>2, <1>3, <1>4, <1>5, LocalStep DEF Writes

\* Collecting a candidate keeps the invariant.
LEMMA CollectStep ==
  ASSUME IInv, NEW x \in Executor, Collect(x), UNCHANGED structured PROVE IInv'
<1>0. TypeOK /\ NumbersAreOld
  BY DEF IInv
<1>1. CASE HearStop(x)
  <2>1. PICK s \in Reachable, gone \in SUBSET Session :
          /\ Hear(s, TRUE, gone)
          /\ job' = [job EXCEPT ![x].session = s, ![x].epoch = next]
    BY <1>1 DEF HearStop
  <2>2. LogAges /\ next \in 1..MaxSequence /\ next < next'
    BY <1>0, <2>1, HearAges, ReachableAssumption
  <2> DEFINE j == [job[x] EXCEPT !.session = s, !.epoch = next]
  <2>3. j \in Job /\ j.session = s /\ j.epoch = next
    <3>1. next \in 0..MaxSequence /\ s \in Reachable \cup {None} /\ job[x] \in Job
      BY <1>0, <2>2, LogAssumption DEF TypeOK
    <3> QED BY <3>1 DEF Job
  <2>4. job' = [job EXCEPT ![x] = j]
    BY <1>0, <2>1 DEF TypeOK
  <2> HIDE DEF j
  <2>5. pc[x] \notin Working /\ Goto(x, "read") /\ UNCHANGED <<storeVars, sends, prompt, structured>>
    BY <1>1 DEF HearStop, Working, Owned, Late, Armed
  <2>6. s # None /\ next > 0
    BY <2>2, ReachableAssumption, ExecutorAssumption
  <2> QED BY <2>2, <2>3, <2>4, <2>5, <2>6, EarlyStep
<1>2. CASE ReadStop(x)
  <2>1. pc[x] \notin Working /\ job' = [job EXCEPT ![x] = job[x]] /\ job[x] \in Job
    BY <1>0, <1>2, JobKept DEF ReadStop, Working, Owned, Late, Armed
  <2>2. job[x].session # None /\ job[x].epoch > 0 /\ job[x].epoch < next'
    BY <1>0, <1>2 DEF ReadStop, TypeOK, NumbersAreOld, logVars
  <2>3. LogAges /\ Goto(x, "probe") /\ UNCHANGED <<storeVars, sends, prompt, structured>>
    BY <1>0, <1>2, QuietLog DEF ReadStop
  <2> QED BY <2>1, <2>2, <2>3, EarlyStep
<1>3. CASE Scan(x)
  <2>1. PICK s \in Reachable :
          /\ row[s].seq > 0
          /\ job' = [job EXCEPT ![x].session = s, ![x].epoch = row[s].seq]
    BY <1>3 DEF Scan
  <2> DEFINE j == [job[x] EXCEPT !.session = s, !.epoch = row[s].seq]
  <2>2. row[s].seq \in 0..MaxSequence /\ row[s].seq < next /\ s # None
    BY <1>0, <2>1, ReachableAssumption, ExecutorAssumption
       DEF TypeOK, LogTypeOK, Row, NumbersAreOld
  <2>3. j \in Job /\ j.session = s /\ j.epoch = row[s].seq
    BY <1>0, <2>2 DEF TypeOK, Job
  <2>4. job' = [job EXCEPT ![x] = j]
    BY <1>0, <2>1 DEF TypeOK
  <2> HIDE DEF j
  <2>5. /\ pc[x] \notin Working /\ Goto(x, "probe") /\ LogAges /\ next' = next
        /\ UNCHANGED <<storeVars, sends, prompt, structured>>
    BY <1>0, <1>3, QuietLog DEF Scan, Working, Owned, Late, Armed, logVars
  <2> QED BY <2>1, <2>2, <2>3, <2>4, <2>5, EarlyStep
<1>4. CASE Probe(x)
  <2> DEFINE j == [job[x] EXCEPT !.prompt = prompt[Of(x)]]
  <2>1. /\ pc[x] = "probe" /\ Goto(x, "infer") /\ LogAges /\ next' = next
        /\ UNCHANGED <<storeVars, sends, prompt, structured>>
    BY <1>0, <1>4, QuietLog DEF Probe, logVars
  <2>2. prompt[Of(x)] \in Prompt \cup {None}
    BY <1>0, <2>1, KeyOf DEF TypeOK
  <2>3. j \in Job /\ j.session = job[x].session /\ j.epoch = job[x].epoch
    BY <1>0, <2>2 DEF TypeOK, Job
  <2>4. job' = [job EXCEPT ![x] = j]
    BY <1>0, <1>4 DEF Probe, TypeOK
  <2>5. pc[x] \notin Working /\ j.session # None /\ j.epoch > 0 /\ j.epoch < next
    BY <1>0, <2>1, <2>3 DEF TypeOK, NumbersAreOld, Working, Owned, Late, Armed
  <2> HIDE DEF j
  <2> QED BY <2>1, <2>3, <2>4, <2>5, EarlyStep
<1> QED BY <1>1, <1>2, <1>3, <1>4 DEF Collect

\* A look from one place near the delivery to another.
LEMMA ArmedStep ==
  ASSUME IInv, NEW x \in Executor, pc[x] \in Armed, NEW to \in Armed, NEW j \in Job,
         j.session = job[x].session, j.epoch = job[x].epoch,
         Goto(x, to), job' = [job EXCEPT ![x] = j], to = "write" => Of(x) \in structured,
         UNCHANGED <<logVars, storeVars, sends, prompt, structured>>
  PROVE  IInv'
<1>1. TypeOK /\ Knows(x)
  BY LateKnowsIs DEF IInv
<1>2. pc'[x] = to /\ Key(x)' = Key(x) /\ Of(x)' = Of(x)
  BY <1>1, Moved
<1>3. Knows(x)'
  BY <1>1, <1>2 DEF Knows, Touched, storeVars, Armed, Late
<1>4. to \in Control \ {"idle", "gone"} /\ to \in Late /\ to \notin Owned
      /\ pc[x] \in Late /\ pc[x] \in Working /\ pc[x] \notin {"idle", "gone"}
  BY DEF Control, Armed, Late, Owned, Working
<1> QED BY <1>3, <1>4, LookStep

\* To leave without a trace is always allowed.
LEMMA LeaveQuietly ==
  ASSUME IInv, NEW x \in Executor, Leave(x),
         UNCHANGED <<logVars, storeVars, sends, prompt, structured>>
  PROVE  IInv'
<1>1. TypeOK /\ UNCHANGED <<audit, notSent, sends, structured, reserved>>
  BY DEF storeVars, IInv
<1>2. Writes(x) /\ ReservedGrows
  BY <1>1, WritesNothing, ReservationKept
<1> QED BY <1>2, LeaveStep

\* A confirmed look keeps it; the look at the row after the announcement arms.
LEMMA ConfirmStep ==
  ASSUME IInv, NEW x \in Executor, ConfirmRow(x) \/ ConfirmPrompt(x), UNCHANGED structured
  PROVE  IInv'
<1>1. TypeOK /\ NumbersAreOld /\ Knows(x) /\ LogAges
  BY QuietLog, LateKnowsIs DEF IInv, ConfirmRow, ConfirmPrompt
<1>2. /\ UNCHANGED <<logVars, storeVars, sends, prompt, structured>>
      /\ Goto(x, Then(x)) /\ UNCHANGED job
      /\ pc[x] \in RowChecks \cup PromptChecks
  BY DEF ConfirmRow, ConfirmPrompt
<1>3. job' = [job EXCEPT ![x] = job[x]] /\ job[x] \in Job
  BY <1>1, <1>2, JobKept
<1>4. CASE pc[x] \in {"check_row", "check_prompt"}
  <2>1. Then(x) \in {"check_prompt", "reserve"}
    BY <1>4 DEF Then
  <2>2. pc[x] \notin Working /\ job[x].session # None /\ job[x].epoch > 0 /\ job[x].epoch < next'
    BY <1>1, <1>2, <1>4 DEF Working, Owned, Late, Armed, TypeOK, NumbersAreOld, logVars
  <2> QED BY <1>1, <1>2, <1>3, <2>1, <2>2, EarlyStep
<1>5. CASE pc[x] = "recheck_row"
  <2>1. Then(x) = "recheck_prompt" /\ Current(x)
    BY <1>5 DEF Then, ConfirmRow, ConfirmPrompt, PromptChecks
  <2>2. Fresh(Key(x))
    BY <2>1 DEF Current, Fresh, Key, Of
  <2>3. pc'[x] = "recheck_prompt" /\ Key(x)' = Key(x) /\ Of(x)' = Of(x)
    BY <1>1, <1>2, <1>3, <2>1, Moved
  <2>4. ~ Touched(Key(x)) /\ "evaluating" \in audit[Key(x)]
    BY <1>1, <1>5, <2>2 DEF IInv, OwnedIsUntouched, Owned, Knows
  <2>5. Knows(x)'
    BY <2>3, <2>4, <1>2 DEF Knows, Touched, Late, Armed, storeVars
  <2>6. /\ "recheck_prompt" \in Control \ {"idle", "gone"} /\ "recheck_prompt" \notin Owned
        /\ pc[x] \in Working /\ pc[x] \notin {"idle", "gone"}
    BY <1>5 DEF Control, Working, Owned, Late, Armed
  <2> QED BY <1>2, <1>3, <1>5, <2>1, <2>2, <2>5, <2>6, LookStep
<1>6. CASE pc[x] \in {"recheck_prompt", "refresh_row", "refresh_prompt"}
  <2>1. Then(x) \in Armed /\ (Then(x) = "write" => Of(x) \in structured) /\ pc[x] \in Armed
    BY <1>6 DEF Then, Armed
  <2> QED BY <1>2, <1>3, <2>1, ArmedStep
<1> QED BY <1>2, <1>4, <1>5, <1>6 DEF RowChecks, PromptChecks

\* An audit that agrees with what was sent is a truthful write.
LEMMA NoteWrites ==
  ASSUME TypeOK, NEW x \in Executor, Key(x) \in Attempt, pc[x] \in Working, NEW st \in AuditState,
         UNCHANGED audit \/ Note(x, st), UNCHANGED <<sends, notSent, structured>>,
         pc[x] \in Owned => st = "evaluating",
         st = "delivered" => sends[Key(x)] > 0 /\ "delivery_failed" \notin audit[Key(x)],
         st = "delivery_failed" => /\ "delivered" \notin audit[Key(x)]
                                   /\ sends[Key(x)] = 0 \/ Key(x)[1] \in structured
  PROVE  Writes(x)
<1>1. audit \in [Attempt -> SUBSET AuditState]
  BY DEF TypeOK
<1>2. /\ audit' \in [Attempt -> SUBSET AuditState]
      /\ \A a \in Attempt : a # Key(x) => audit'[a] = audit[a]
      /\ audit'[Key(x)] = audit[Key(x)] \/ audit'[Key(x)] = audit[Key(x)] \cup {st}
  BY <1>1 DEF Note
<1>3. \A a \in Attempt : Truthful(a) => Truthful(a)'
  BY <1>2 DEF Truthful
<1> QED BY <1>2, <1>3 DEF Writes, RecordsTyped, Same, TypeOK

\* The first continue of an announced attempt is a truthful write.
LEMMA ContinueWrites ==
  ASSUME TypeOK, NEW x \in Executor, Key(x) \in Attempt, pc[x] \in Late,
         UNCHANGED sends \/ Continue(x), UNCHANGED <<audit, notSent, structured>>,
         ~ Touched(Key(x)), "evaluating" \in audit[Key(x)]
  PROVE  /\ Writes(x)
         /\ Continue(x) => sends'[Key(x)] = 1
<1>1. sends \in [Attempt -> 0..MaxSends] /\ sends[Key(x)] = 0
  BY DEF TypeOK, Touched
<1>2. /\ sends' \in [Attempt -> 0..MaxSends]
      /\ \A a \in Attempt : a # Key(x) => sends'[a] = sends[a]
      /\ sends'[Key(x)] \in {0, 1}
      /\ Continue(x) => sends'[Key(x)] = 1
  BY <1>1 DEF Continue, MaxSends
<1>3. \A a \in Attempt : Truthful(a) => Truthful(a)'
  BY <1>2 DEF Truthful, Touched
<1>4. pc[x] \notin Owned /\ pc[x] \in Working
  BY DEF Owned, Late, Armed, Working
<1> QED BY <1>2, <1>3, <1>4 DEF Writes, RecordsTyped, Same, TypeOK

\* Deciding, reserving and announcing keep the invariant.
LEMMA DecideStep ==
  ASSUME IInv, NEW x \in Executor, Decide(x), UNCHANGED structured PROVE IInv'
<1>0. TypeOK /\ NumbersAreOld /\ Knows(x)
  BY LateKnowsIs DEF IInv
<1>1. CASE Infer(x)
  <2>1. /\ pc[x] \notin Working /\ job[x].session # None /\ job[x].epoch > 0
        /\ job[x].epoch < next' /\ LogAges /\ Goto(x, "check_row")
        /\ UNCHANGED <<storeVars, sends, prompt, structured>>
    BY <1>0, <1>1, QuietLog DEF Infer, Working, Owned, Late, Armed, TypeOK, NumbersAreOld, logVars
  <2>2. job' = [job EXCEPT ![x] = job[x]] /\ job[x] \in Job
    BY <1>0, <1>1, JobKept DEF Infer
  <2> QED BY <2>1, <2>2, EarlyStep
<1>2. CASE ConfirmRow(x) \/ ConfirmPrompt(x)
  BY <1>2, ConfirmStep
<1>3. CASE Abstain(x) \/ ReserveRefused(x)
  BY <1>3, LeaveQuietly DEF Abstain, ReserveRefused
<1>4. CASE Reserve(x)
  <2>1. /\ pc[x] = "reserve" /\ ReserveRows(x) /\ Goto(x, "audit")
        /\ UNCHANGED <<logVars, audit, notSent, prompt, sends, job>>
    BY <1>4 DEF Reserve
  <2>2. Key(x) \in Attempt /\ Key(x)[1] = Of(x) /\ Key(x)[2] = job[x].epoch
    BY <1>0, <2>1, KeyOf
  <2>3. ReservedGrows /\ reserved'[Of(x)].epoch = job[x].epoch
    BY <1>0, <2>1, <2>2, ReserveGrows
  <2>4. job[x].epoch \in Nat /\ reserved[Of(x)].epoch \in Nat
    BY <1>0, <2>2 DEF TypeOK, Job, Attempt
  <2>5. Fresh(Key(x)) => ~(reserved[Of(x)].epoch >= job[x].epoch)
    BY <1>0, <2>1, <2>2, PruneKeepsFresh DEF ReserveRows, Refused
  <2>6. Fresh(Key(x)) => ~ Touched(Key(x))
    BY <2>2, <2>5 DEF IInv, FreshIsReserved
  <2>7. ASSUME Fresh(Key(x)), NEW y \in Executor, pc[y] \in Working PROVE Key(y) # Key(x)
    BY <2>2, <2>5, <2>7 DEF IInv, FreshIsReserved, Key, Of
  <2>8. job' = [job EXCEPT ![x] = job[x]] /\ job[x] \in Job
    BY <1>0, <2>1, JobKept
  <2>9. pc'[x] = "audit"
    BY <1>0, <2>1, <2>8, Moved
  <2>10. Knows(x)' /\ Writes(x)
    BY <1>0, <2>1, <2>9, WritesNothing DEF Knows, Late, Armed
  <2>11. "audit" \in Control \ {"idle", "gone"} /\ "audit" \notin Late /\ pc[x] \notin Late
         /\ pc[x] \notin {"idle", "gone"}
    BY <2>1 DEF Control, Late, Armed
  <2>12. /\ Fresh(Key(x)) => /\ \A y \in Executor : pc[y] \in Working => Key(y) # Key(x)
                             /\ ~ Touched(Key(x))
         /\ reserved'[Of(x)].epoch >= job[x].epoch
    BY <2>3, <2>4, <2>6, <2>7
  <2> QED BY <2>1, <2>3, <2>8, <2>10, <2>11, <2>12, MoveStep
<1>5. CASE ReserveFails(x)
  <2>1. /\ pc[x] = "reserve" /\ Leave(x)
        /\ UNCHANGED reserved \/ ReserveRows(x)
        /\ UNCHANGED <<logVars, audit, notSent, prompt, sends>>
    BY <1>5 DEF ReserveFails
  <2>2. Key(x) \in Attempt
    BY <1>0, <2>1, KeyOf
  <2>3. ReservedGrows /\ Writes(x)
    BY <1>0, <2>1, <2>2, ReserveGrows, WritesNothing
  <2> QED BY <2>1, <2>3, LeaveStep
<1>6. CASE AuditEvaluating(x)
  <2>1. /\ pc[x] = "audit" /\ Note(x, "evaluating") /\ Goto(x, "recheck_row")
        /\ UNCHANGED <<logVars, reserved, notSent, prompt, sends, job>>
    BY <1>6 DEF AuditEvaluating
  <2>2. Key(x) \in Attempt /\ pc[x] \in Working /\ "evaluating" \in AuditState
    BY <1>0, <2>1, KeyOf DEF Working, Owned, AuditState
  <2>3. Writes(x) /\ ReservedGrows
    BY <1>0, <2>1, <2>2, NoteWrites, ReservationKept
  <2>4. job' = [job EXCEPT ![x] = job[x]] /\ job[x] \in Job
    BY <1>0, <2>1, JobKept
  <2>5. pc'[x] = "recheck_row" /\ Key(x)' = Key(x)
    BY <1>0, <2>1, <2>4, Moved
  <2>6. "evaluating" \in audit'[Key(x)]
    BY <1>0, <2>1, <2>2 DEF Note, TypeOK
  <2>7. Knows(x)'
    BY <2>5, <2>6 DEF Knows, Late, Armed
  <2>8. "recheck_row" \in Control \ {"idle", "gone"} /\ "recheck_row" \notin Late /\ pc[x] \notin Late
        /\ pc[x] \notin {"idle", "gone"}
    BY <2>1 DEF Control, Late, Armed
  <2> QED BY <2>1, <2>2, <2>3, <2>4, <2>7, <2>8, MoveStep
<1>7. CASE AuditFails(x)
  <2>1. /\ pc[x] = "audit" /\ Leave(x)
        /\ UNCHANGED audit \/ Note(x, "evaluating")
        /\ UNCHANGED <<logVars, reserved, notSent, prompt, sends>>
    BY <1>7 DEF AuditFails
  <2>2. Key(x) \in Attempt /\ pc[x] \in Working /\ "evaluating" \in AuditState
    BY <1>0, <2>1, KeyOf DEF Working, Owned, AuditState
  <2>3. Writes(x) /\ ReservedGrows
    BY <1>0, <2>1, <2>2, NoteWrites, ReservationKept
  <2> QED BY <2>1, <2>3, LeaveStep
<1> QED BY <1>1, <1>2, <1>3, <1>4, <1>5, <1>6, <1>7 DEF Decide

\* What is known of an attempt that is about to be delivered.
LEMMA ArmedKnows ==
  ASSUME IInv, NEW x \in Executor, pc[x] \in Armed
  PROVE  /\ Key(x) \in Attempt /\ Key(x)[1] = Of(x) /\ pc[x] \in Late /\ pc[x] \in Working
         /\ pc[x] \notin Owned /\ pc[x] \notin {"idle", "gone"}
         /\ ~ Touched(Key(x)) /\ "evaluating" \in audit[Key(x)] /\ sends[Key(x)] = 0
         /\ audit[Key(x)] \cap {"delivered", "delivery_failed"} = {} /\ Key(x) \notin notSent
<1>1. TypeOK /\ Knows(x)
  BY LateKnowsIs DEF IInv
<1>2. pc[x] \in Late /\ pc[x] \in Working /\ pc[x] \notin {"idle", "gone"} /\ pc[x] \notin Owned
  BY DEF Late, Working, Armed, Owned
<1>3. Key(x) \in Attempt /\ Key(x)[1] = Of(x)
  BY <1>1, <1>2, KeyOf
<1>4. sends[Key(x)] \in 0..MaxSends
  BY <1>1, <1>3 DEF TypeOK
<1> QED BY <1>1, <1>2, <1>3, <1>4 DEF Knows, Touched, MaxSends

\* An answer that reached the agent, or may have.
LEMMA SendingStep ==
  ASSUME IInv, NEW x \in Executor, Send(x) \/ SendFails(x) \/ WriteContinue(x) \/ WriteFails(x),
         UNCHANGED structured
  PROVE  IInv'
<1>1. /\ pc[x] \in {"send", "write"} /\ UNCHANGED <<logVars, audit, notSent, reserved, prompt>>
      /\ UNCHANGED sends \/ Continue(x)
  BY DEF Send, SendFails, WriteContinue, WriteFails, storeVars
<1>2. TypeOK /\ Knows(x) /\ pc[x] \in Armed
  BY <1>1, LateKnowsIs DEF IInv, Armed
<1>3. /\ Key(x) \in Attempt /\ Key(x)[1] = Of(x) /\ pc[x] \in Late /\ pc[x] \in Working
      /\ pc[x] \notin Owned /\ pc[x] \notin {"idle", "gone"}
      /\ ~ Touched(Key(x)) /\ "evaluating" \in audit[Key(x)]
      /\ audit[Key(x)] \cap {"delivered", "delivery_failed"} = {} /\ Key(x) \notin notSent
  BY <1>2, ArmedKnows
<1>4. Writes(x) /\ ReservedGrows /\ (Continue(x) => sends'[Key(x)] = 1)
  BY <1>1, <1>2, <1>3, ContinueWrites, ReservationKept
<1>5. CASE SendFails(x)
  BY <1>1, <1>4, <1>5, LeaveStep DEF SendFails
<1>6. ASSUME NEW to \in {"confirm", "told"}, Goto(x, to), UNCHANGED job, Continue(x) PROVE IInv'
  <2>1. job' = [job EXCEPT ![x] = job[x]] /\ job[x] \in Job
    BY <1>2, <1>6, JobKept
  <2>2. pc'[x] = to /\ Key(x)' = Key(x)
    BY <1>2, <1>6, <2>1, Moved
  <2>3. Knows(x)'
    BY <1>1, <1>3, <1>4, <1>6, <2>2 DEF Knows, Armed
  <2>4. to \in Control \ {"idle", "gone"} /\ to \notin Owned
    BY DEF Control, Owned
  <2> QED BY <1>1, <1>3, <1>4, <1>6, <2>1, <2>3, <2>4, MoveStep
<1>7. CASE WriteFails(x)
  <2> DEFINE j == [job[x] EXCEPT !.clean = FALSE]
  <2>1. /\ j \in Job /\ j.session = job[x].session /\ j.epoch = job[x].epoch /\ j.clean = FALSE
        /\ job' = [job EXCEPT ![x] = j]
    BY <1>2, <1>7 DEF WriteFails, Fails, TypeOK, Job
  <2> HIDE DEF j
  <2>2. Goto(x, "failed") /\ Of(x) \in structured
    BY <1>2, <1>7 DEF WriteFails, Fails, Knows
  <2>3. pc'[x] = "failed" /\ job'[x] = j /\ Key(x)' = Key(x) /\ Of(x)' = Of(x)
    BY <1>2, <2>1, <2>2, Moved
  <2>4. Knows(x)'
    BY <1>1, <1>3, <2>1, <2>2, <2>3 DEF Knows, Armed
  <2>5. "failed" \in Control \ {"idle", "gone"} /\ "failed" \notin Owned
    BY DEF Control, Owned
  <2> QED BY <1>1, <1>3, <1>4, <2>1, <2>2, <2>4, <2>5, MoveStep
<1> QED BY <1>5, <1>6, <1>7 DEF Send, WriteContinue, SendFails, WriteFails

\* Nothing is sent, and the pane is known to be as it was.
LEMMA NotSentStep ==
  ASSUME IInv, NEW x \in Executor, NotSent(x), UNCHANGED structured PROVE IInv'
<1>1. /\ TypeOK /\ pc[x] \in Armed /\ Goto(x, "failed")
      /\ UNCHANGED <<logVars, storeVars, prompt, sends>>
  BY DEF IInv, NotSent, Armed, Fails
<1>2. /\ pc[x] \in Late /\ pc[x] \in Working /\ pc[x] \notin {"idle", "gone"}
      /\ "evaluating" \in audit[Key(x)] /\ sends[Key(x)] = 0
      /\ audit[Key(x)] \cap {"delivered", "delivery_failed"} = {} /\ Key(x) \notin notSent
  BY <1>1, ArmedKnows
<1> DEFINE j == [job[x] EXCEPT !.clean = TRUE]
<1>3. /\ j \in Job /\ j.session = job[x].session /\ j.epoch = job[x].epoch /\ j.clean = TRUE
      /\ job' = [job EXCEPT ![x] = j]
  BY <1>1 DEF NotSent, Fails, TypeOK, Job
<1> HIDE DEF j
<1>4. pc'[x] = "failed" /\ job'[x] = j /\ Key(x)' = Key(x)
  BY <1>1, <1>3, Moved
<1>5. Knows(x)'
  BY <1>1, <1>2, <1>3, <1>4 DEF Knows, Armed, storeVars
<1>6. "failed" \in Control \ {"idle", "gone"} /\ "failed" \notin Owned
  BY DEF Control, Owned
<1> QED BY <1>1, <1>2, <1>3, <1>5, <1>6, LookStep

\* What has been sent is looked at.
LEMMA SentStep ==
  ASSUME IInv, NEW x \in Executor, Confirm(x) \/ Postflight(x), UNCHANGED structured PROVE IInv'
<1>1. /\ TypeOK /\ Knows(x) /\ pc[x] \in {"confirm", "postflight"} /\ UNCHANGED job
      /\ UNCHANGED <<logVars, storeVars, prompt, sends>>
  BY LateKnowsIs DEF IInv, Confirm, Postflight
<1>2. PICK to \in {"postflight", "told"} : Goto(x, to)
  BY DEF Confirm, Postflight
<1>3. job' = [job EXCEPT ![x] = job[x]] /\ job[x] \in Job
  BY <1>1, JobKept
<1>4. pc'[x] = to /\ Key(x)' = Key(x)
  BY <1>1, <1>2, <1>3, Moved
<1>5. Knows(x)'
  BY <1>1, <1>4 DEF Knows, Late, Armed, storeVars
<1>6. /\ to \in Control \ {"idle", "gone"} /\ to \notin Owned /\ pc[x] \in Late
      /\ pc[x] \in Working /\ pc[x] \notin {"idle", "gone"}
  BY <1>1 DEF Control, Owned, Late, Working
<1> QED BY <1>1, <1>2, <1>3, <1>5, <1>6, LookStep

\* Delivering, or failing to, keeps the invariant.
LEMMA DeliverStep ==
  ASSUME IInv, NEW x \in Executor, Deliver(x), UNCHANGED structured PROVE IInv'
<1>0. TypeOK
  BY DEF IInv
<1>1. CASE Capture(x)
  <2> DEFINE j == [job[x] EXCEPT !.shown = prompt[Of(x)]]
  <2>1. /\ pc[x] = "capture" /\ Goto(x, "recapture") /\ pc[x] \in Armed /\ "recapture" \in Armed
        /\ UNCHANGED <<logVars, storeVars, prompt, sends>>
    BY <1>1 DEF Capture, Armed
  <2>2. prompt[Of(x)] \in Prompt \cup {None}
    BY <1>0, <2>1, KeyOf DEF TypeOK
  <2>3. /\ j \in Job /\ j.session = job[x].session /\ j.epoch = job[x].epoch
        /\ job' = [job EXCEPT ![x] = j]
    BY <1>0, <1>1, <2>2 DEF Capture, TypeOK, Job
  <2> HIDE DEF j
  <2> QED BY <2>1, <2>3, ArmedStep
<1>2. CASE Recapture(x)
  <2>1. /\ Goto(x, "send") /\ pc[x] \in Armed /\ "send" \in Armed /\ UNCHANGED job
        /\ UNCHANGED <<logVars, storeVars, prompt, sends>>
    BY <1>2 DEF Recapture, Armed
  <2>2. job' = [job EXCEPT ![x] = job[x]] /\ job[x] \in Job
    BY <1>0, <2>1, JobKept
  <2> QED BY <2>1, <2>2, ArmedStep
<1> QED BY <1>1, <1>2, NotSentStep, SendingStep, SentStep DEF Deliver

\* Recording the outcome keeps the invariant.
LEMMA ConcludeStep ==
  ASSUME IInv, NEW x \in Executor, Conclude(x), UNCHANGED structured PROVE IInv'
<1>0. TypeOK /\ Knows(x)
  BY LateKnowsIs DEF IInv
<1>1. CASE Unconfirmed(x)
  BY <1>1, LeaveQuietly DEF Unconfirmed
<1>2. CASE AuditDelivered(x) \/ AuditDeliveredFails(x)
  <2>1. /\ pc[x] = "told" /\ Leave(x)
        /\ UNCHANGED audit \/ Note(x, "delivered")
        /\ UNCHANGED <<logVars, reserved, notSent, prompt, sends>>
    BY <1>2 DEF AuditDelivered, AuditDeliveredFails
  <2>2. /\ Key(x) \in Attempt /\ pc[x] \in Working /\ pc[x] \notin Owned /\ "delivered" \in AuditState
        /\ sends[Key(x)] > 0 /\ "delivery_failed" \notin audit[Key(x)]
    BY <1>0, <2>1, KeyOf DEF Working, Owned, Late, AuditState, Knows
  <2>3. Writes(x) /\ ReservedGrows
    BY <1>0, <2>1, <2>2, NoteWrites, ReservationKept
  <2> QED BY <2>1, <2>3, LeaveStep
<1>3. CASE AuditFailed(x)
  <2>1. /\ pc[x] = "failed"
        /\ UNCHANGED audit \/ Note(x, "delivery_failed")
        /\ UNCHANGED <<logVars, reserved, notSent, prompt, sends>>
    BY <1>3 DEF AuditFailed
  <2>2. /\ Key(x) \in Attempt /\ Key(x)[1] = Of(x) /\ pc[x] \in Working /\ pc[x] \in Late
        /\ pc[x] \notin Owned /\ pc[x] \notin {"idle", "gone"} /\ "delivery_failed" \in AuditState
    BY <1>0, <2>1, KeyOf DEF Working, Owned, Late, AuditState
  <2>3. /\ "delivered" \notin audit[Key(x)] /\ Key(x) \notin notSent
        /\ IF job[x].clean THEN sends[Key(x)] = 0 ELSE Of(x) \in structured
    BY <1>0, <2>1 DEF Knows, Late
  <2>4. Writes(x) /\ ReservedGrows
    BY <1>0, <2>1, <2>2, <2>3, NoteWrites, ReservationKept
  <2>5. CASE ~ job[x].clean
    BY <1>3, <2>1, <2>4, <2>5, LeaveStep DEF AuditFailed
  <2>6. CASE job[x].clean
    <3>1. Goto(x, "report") /\ job' = [job EXCEPT ![x] = job[x]] /\ job[x] \in Job
      BY <1>0, <1>3, <2>6, JobKept DEF AuditFailed
    <3>2. pc'[x] = "report" /\ Key(x)' = Key(x)
      BY <1>0, <3>1, Moved
    <3>3. "evaluating" \in audit'[Key(x)] /\ "delivered" \notin audit'[Key(x)]
      <4>1. audit \in [Attempt -> SUBSET AuditState] /\ "evaluating" \in audit[Key(x)]
        BY <1>0, <2>1 DEF TypeOK, Knows, Late
      <4> QED BY <2>1, <2>2, <2>3, <4>1 DEF Note
    <3>4. Knows(x)'
      BY <2>1, <2>3, <2>6, <3>2, <3>3 DEF Knows, Armed
    <3>5. "report" \in Control \ {"idle", "gone"} /\ "report" \notin Owned
      BY DEF Control, Owned
    <3> QED BY <2>1, <2>2, <2>4, <3>1, <3>4, <3>5, MoveStep
  <2> QED BY <2>5, <2>6
<1>4. CASE Report(x)
  <2>1. /\ pc[x] = "report" /\ Leave(x)
        /\ notSent' = notSent \cup {Key(x)} \/ UNCHANGED notSent
        /\ UNCHANGED <<logVars, reserved, audit, prompt, sends>>
    BY <1>4 DEF Report
  <2>2. /\ Key(x) \in Attempt /\ pc[x] \in Working /\ pc[x] \notin Owned /\ sends[Key(x)] = 0
    BY <1>0, <2>1, KeyOf DEF Working, Owned, Late, Knows
  <2>3. \A a \in Attempt : Truthful(a) => Truthful(a)'
    BY <2>1, <2>2 DEF Truthful
  <2>4. Writes(x) /\ ReservedGrows
    BY <1>0, <2>1, <2>2, <2>3, ReservationKept DEF Writes, RecordsTyped, Same, TypeOK
  <2> QED BY <2>1, <2>4, LeaveStep
<1> QED BY <1>1, <1>2, <1>3, <1>4, SentStep DEF Conclude

\* Dying keeps the invariant.
LEMMA DieStep ==
  ASSUME IInv, NEW x \in Executor, Die(x), UNCHANGED structured PROVE IInv'
BY LeaveQuietly DEF Die

------------------------------------------------------------------------------
(* The theorems. *)

\* The inductive invariant holds initially.
LEMMA InitIInv == Init => IInv
<1> SUFFICES ASSUME Init PROVE IInv
  OBVIOUS
<1>1. TypeOK
  <2>1. LogTypeOK
    BY LogAssumption DEF Init, LogInit, LogTypeOK, Row, Absent
  <2>2. reserved \in [Session -> [epoch : 0..MaxSequence, warm : BOOLEAN]]
    BY LogAssumption DEF Init, NoReservation
  <2>3. job \in [Executor -> Job]
    BY LogAssumption DEF Init, NoJob, Job
  <2>4. /\ pc \in [Executor -> Control] /\ audit \in [Attempt -> SUBSET AuditState]
        /\ sends \in [Attempt -> 0..MaxSends] /\ notSent \subseteq Attempt
    BY DEF Init, Control, MaxSends
  <2> QED BY <2>1, <2>2, <2>3, <2>4 DEF Init, TypeOK
<1>2. /\ \A x \in Executor : pc[x] = "idle" /\ job[x].epoch = 0
      /\ \A a \in Attempt : ~ Touched(a) /\ audit[a] = {} /\ sends[a] = 0 /\ a \notin notSent
      /\ \A s \in Session : row[s].seq = 0
      /\ next = 1
  BY DEF Init, LogInit, Absent, NoJob, Touched
<1>3. NumbersAreOld /\ FreshIsReserved
  BY <1>2 DEF NumbersAreOld, FreshIsReserved, Working, Owned, Late, Armed
<1>4. FreshHasOneOwner /\ LateIsAlone /\ OwnedIsUntouched /\ LateKnows
  BY <1>2 DEF FreshHasOneOwner, LateIsAlone, OwnedIsUntouched, LateKnows, Working, Owned, Late, Armed
<1>5. OneContinuePerAttempt /\ ContinueIsAnnounced /\ RecordIsTruthful
  BY <1>2 DEF OneContinuePerAttempt, ContinueIsAnnounced, RecordIsTruthful
<1> QED BY <1>1, <1>3, <1>4, <1>5 DEF IInv

\* No step disturbs the inductive invariant.
LEMMA NextIInv == IInv /\ [Next]_vars => IInv'
<1> SUFFICES ASSUME IInv, [Next]_vars PROVE IInv'
  OBVIOUS
<1>0. TypeOK /\ NumbersAreOld
  BY DEF IInv
<1>1. ASSUME NEW x \in Executor, Collect(x) \/ Decide(x) \/ Deliver(x) \/ Conclude(x) \/ Die(x),
             UNCHANGED structured
      PROVE  IInv'
  BY <1>1, CollectStep, DecideStep, DeliverStep, ConcludeStep, DieStep
<1>2. CASE OtherEvent /\ UNCHANGED structured
  <2>1. PICK s \in Session, stop \in BOOLEAN, gone \in SUBSET Session : Hear(s, stop, gone)
    <3>1. PICK s \in Session, said \in BOOLEAN, gone \in SUBSET Session :
            Hear(s, said /\ s \in Reachable, gone)
      BY <1>2 DEF OtherEvent
    <3>2. (said /\ s \in Reachable) \in BOOLEAN
      OBVIOUS
    <3> QED BY <3>1, <3>2
  <2>2. LogAges
    BY <1>0, <2>1, HearAges
  <2>3. ReservedGrows
    BY <1>0, <1>2, ReservationKept DEF OtherEvent, storeVars
  <2> QED BY <1>0, <1>2, <2>2, <2>3, WorldStep DEF OtherEvent, storeVars, TypeOK
<1>3. CASE Repaint /\ UNCHANGED structured
  <2>1. LogAges /\ ReservedGrows
    BY <1>0, <1>3, QuietLog, ReservationKept DEF Repaint, storeVars
  <2>2. prompt' \in [Reachable -> Prompt \cup {None}]
    BY <1>0, <1>3 DEF Repaint, TypeOK
  <2> QED BY <1>3, <2>1, <2>2, WorldStep DEF Repaint, storeVars
<1>4. CASE CoolDown /\ UNCHANGED structured
  <2>1. LogAges /\ ReservedGrows
    BY <1>0, <1>4, QuietLog, CoolDownGrows DEF CoolDown
  <2> QED BY <1>0, <1>4, <2>1, WorldStep DEF CoolDown, TypeOK
<1>5. CASE Prune /\ UNCHANGED structured
  <2>1. LogAges /\ ReservedGrows
    BY <1>0, <1>5, QuietLog, PruneGrows DEF Prune
  <2> QED BY <1>0, <1>5, <2>1, WorldStep DEF Prune, TypeOK
<1>6. CASE UNCHANGED vars
  <2>1. LogAges /\ ReservedGrows
    BY <1>0, <1>6, QuietLog, ReservationKept DEF vars, storeVars
  <2> QED BY <1>0, <1>6, <2>1, WorldStep DEF vars, storeVars, TypeOK
<1> QED BY <1>1, <1>2, <1>3, <1>4, <1>5, <1>6 DEF Next

\* The inductive invariant: a stop that is stale stays stale, and a fresh one
\* that anybody works on is reserved and has one owner.
THEOREM Invariance == Spec => []IInv
BY InitIInv, NextIInv, PTL DEF Spec

\* Every variable keeps its type, and an executor at work has an attempt.
THEOREM TypeCorrect == Spec => []TypeOK
<1>1. IInv => TypeOK
  BY DEF IInv
<1> QED BY <1>1, Invariance, PTL

\* For any number of hooks, pollers, sessions and events, one stop is
\* continued at most once (reserve_recovery, recovery.rs).
THEOREM AtMostOneContinue == Spec => []OneContinuePerAttempt
<1>1. IInv => OneContinuePerAttempt
  BY DEF IInv
<1> QED BY <1>1, Invariance, PTL

\* Whatever dies or fails, nothing reaches an agent before its attempt is
\* announced in the activity (execute_recovery_with).
THEOREM Announced == Spec => []ContinueIsAnnounced
<1>1. IInv => ContinueIsAnnounced
  BY DEF IInv
<1> QED BY <1>1, Invariance, PTL

\* The activity and diagnostics of an attempt never contradict what happened
\* to its agent (recovery.rs, append_recovery_activity_if_absent).
THEOREM TruthfulRecord == Spec => []RecordIsTruthful
<1>1. IInv => RecordIsTruthful
  BY DEF IInv
<1> QED BY <1>1, Invariance, PTL
==============================================================================
