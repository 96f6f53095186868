---------------------------- MODULE ProviderProofs ----------------------------
(* Proofs about the provider configuration transaction. *)
EXTENDS ProviderFiles, TLAPS

LEMMA Bounds == MaxVersion \in Nat /\ MaxCommands \in Nat /\ MaxFaults \in Nat
  BY BoundsAreNumbers

LEMMA NoJournalType == NoJournal \in Journal /\ WellFormed(NoJournal) /\ NoEdits \in Edits
  <1>1. NoEdits \in [{} -> Edit]
    BY DEF NoEdits
  <1>2. NoEdits \in Edits
    BY <1>1 DEF Edits
  <1> QED
    BY <1>2, Bounds DEF NoJournal, NoEdits, Journal, WellFormed, Paths

LEMMA EditsAreTyped ==
  ASSUME NEW E \in Edits
  PROVE  DOMAIN E \subseteq File /\ E \in [DOMAIN E -> Edit]
  BY DEF Edits

LEMMA ReplacingIsTyped ==
  ASSUME file \in [File -> Content], NEW S \in SUBSET File, NEW h \in BOOLEAN
  PROVE  /\ Replacing(S, h) \in Edits
         /\ \A f \in DOMAIN Replacing(S, h) :
              Replacing(S, h)[f].original.text = Replacing(S, h)[f].replacement.text
  <1> DEFINE D == {g \in S : file[g].hooks # h}
  <1>1. D \in SUBSET File
    OBVIOUS
  <1>2. \A f \in D : [file[f] EXCEPT !.hooks = h] \in Content
                     /\ [file[f] EXCEPT !.hooks = h].text = file[f].text
    BY DEF Content
  <1>3. Replacing(S, h) \in [D -> Edit]
    BY <1>1, <1>2 DEF Replacing, Edit
  <1> QED
    BY <1>1, <1>2, <1>3 DEF Replacing, Edits

LEMMA RecordedIsTyped ==
  ASSUME NEW j \in Journal, j.inFlight \in File
  PROVE  Recorded(j) \in Journal
  BY DEF Recorded, Journal

LEMMA InFlightIsTyped ==
  ASSUME NEW j \in Journal, NEW f \in File \cup {None}
  PROVE  [j EXCEPT !.inFlight = f] \in Journal
  BY DEF Journal

LEMMA JournalFields ==
  ASSUME NEW j \in Journal
  PROVE  /\ j.id \in 0..MaxCommands /\ j.edits \in Edits /\ Paths(j) \subseteq File
         /\ j.edits \in [Paths(j) -> Edit]
         /\ j.replaced \in SUBSET File /\ j.inFlight \in File \cup {None}
         /\ Temp(j) \in (0..MaxCommands) \X (File \cup {None})
  BY EditsAreTyped DEF Journal, Paths, Temp

-------------------------------------------------------------------------------
(* Types *)

USE DEF disk, control, recovery, user, report, vars

LEMMA InitTypes == Init => TypeOK
  <1>1. [text |-> 0, hooks |-> FALSE] \in Content /\ 0 \in 0..MaxVersion
        /\ 0 \in 0..MaxCommands /\ 0 \in 0..MaxFaults
    BY Bounds DEF Content
  <1> SUFFICES ASSUME Init PROVE TypeOK
    OBVIOUS
  <1>2. file \in [File -> Content] /\ latest \in [File -> 0..MaxVersion]
    BY <1>1 DEF Init
  <1>3. /\ journal \in Journal /\ last \in Edits /\ applied \in BOOLEAN
        /\ tx \in [Proc -> Journal] /\ rec \in [Proc -> Journal]
    BY NoJournalType DEF Init
  <1>4. /\ todo \in [Proc -> SUBSET File] /\ at \in [Proc -> File \cup {None}]
        /\ concurrent \in [Proc -> BOOLEAN]
        /\ temps = {} /\ raced = {} /\ touched = {} /\ overlap = FALSE
    BY DEF Init
  <1> QED
    BY <1>1, <1>2, <1>3, <1>4 DEF Init, TypeOK

LEMMA CommandTypes == ASSUME TypeOK, NEW p \in Proc, Command(p) PROVE TypeOK'
  BY DEF TypeOK, Command, Goto

LEMMA ProceedTypes ==
  ASSUME TypeOK, NEW p \in Proc, NEW b \in BOOLEAN, Proceed(p, b)
  PROVE  /\ pc' \in [Proc -> {"idle", "recover", "probe", "compare", "verify", "restore",
                      "staging", "begin", "prepare", "intend", "check", "rename",
                      "record", "finish"}]
         /\ purpose' \in [Proc -> {"command", "apply", "rollback"}]
         /\ tx' \in [Proc -> Journal]
         /\ applied' \in BOOLEAN /\ UNCHANGED <<commands, overlap, last>>
  <1>1. purpose[p] \in {"command", "apply", "rollback"}
    BY DEF TypeOK
  <1> QED
    BY <1>1, NoJournalType DEF TypeOK, Proceed, Return, Succeed, Gone, Goto

LEMMA ForgetTypes ==
  ASSUME TypeOK, NEW p \in Proc, Forget(p)
  PROVE  /\ rec' \in [Proc -> Journal] /\ todo' \in [Proc -> SUBSET File]
         /\ at' \in [Proc -> File \cup {None}] /\ concurrent' \in [Proc -> BOOLEAN]
  BY NoJournalType DEF TypeOK, Forget

LEMMA GoneTypes ==
  ASSUME TypeOK, NEW p \in Proc, Gone(p)
  PROVE  /\ pc' \in [Proc -> {"idle", "recover", "probe", "compare", "verify", "restore",
                      "staging", "begin", "prepare", "intend", "check", "rename",
                      "record", "finish"}]
         /\ purpose' \in [Proc -> {"command", "apply", "rollback"}]
         /\ tx' \in [Proc -> Journal]
  BY NoJournalType DEF TypeOK, Gone, Goto

LEMMA RestoredType ==
  ASSUME TypeOK, NEW j \in Journal, NEW f \in Paths(j)
  PROVE  /\ [file EXCEPT ![f] = j.edits[f].original] \in [File -> Content]
         /\ [file EXCEPT ![f] = j.edits[f].replacement] \in [File -> Content]
  BY JournalFields DEF TypeOK, Edit

LEMMA FaultTypes == ASSUME TypeOK, Fault PROVE faults' \in 0..MaxFaults
  BY Bounds DEF TypeOK, Fault

LEMMA RecoveryTypes ==
  ASSUME TypeOK, KnowsText, NEW p \in Proc,
         \/ NothingToRecover(p) \/ ReadJournal(p) \/ ProbeTemporary(p)
         \/ \E f \in File : Compare(p, f)
         \/ Verify(p) \/ Restore(p) \/ FinishRecovery(p) \/ RecoveryFault(p)
  PROVE  TypeOK'
  <1>1. CASE NothingToRecover(p)
    BY <1>1, ProceedTypes DEF TypeOK, NothingToRecover
  <1>2. CASE ReadJournal(p)
    BY <1>2, JournalFields DEF TypeOK, ReadJournal, Goto
  <1>3. CASE ProbeTemporary(p)
    <2>1. ToRecover(rec[p]) \subseteq File
      BY JournalFields DEF TypeOK, ToRecover
    <2> QED
      BY <1>3, <2>1 DEF TypeOK, ProbeTemporary, Goto
  <1>4. CASE \E f \in File : Compare(p, f)
    BY <1>4 DEF TypeOK, Compare, Goto
  <1>5. CASE Verify(p)
    BY <1>5, ForgetTypes, GoneTypes
    DEF TypeOK, Verify, RecoveryFails, Return, Goto, Dropped
  <1>6. CASE Restore(p)
    <2>1. at[p] \in Paths(rec[p]) /\ rec[p] \in Journal
      BY <1>6 DEF Restore, KnowsText, TypeOK
    <2> QED
      BY <1>6, <2>1, RestoredType DEF TypeOK, Restore, Goto
  <1>7. CASE FinishRecovery(p)
    <2>1. concurrent[p] \in BOOLEAN
      BY DEF TypeOK
    <2> QED
      BY <1>7, <2>1, ProceedTypes, ForgetTypes, NoJournalType
      DEF TypeOK, FinishRecovery, Dropped
  <1>8. CASE RecoveryFault(p)
    <2>1. file' \in [File -> Content] /\ journal' \in Journal
      <3>1. CASE pc[p] = "restore"
        <4>1. at[p] \in Paths(rec[p]) /\ rec[p] \in Journal
          BY <3>1 DEF KnowsText, TypeOK
        <4> QED
          BY <1>8, <3>1, <4>1, RestoredType DEF TypeOK, RecoveryFault
      <3>2. CASE pc[p] # "restore"
        BY <1>8, <3>2, NoJournalType DEF TypeOK, RecoveryFault
      <3> QED
        BY <3>1, <3>2
    <2> QED
      BY <1>8, <2>1, ForgetTypes, GoneTypes, FaultTypes
      DEF TypeOK, RecoveryFault, RecoveryFails, Return, Dropped
  <1> QED
    BY <1>1, <1>2, <1>3, <1>4, <1>5, <1>6, <1>7, <1>8

LEMMA ApplyTypes ==
  ASSUME TypeOK, KnowsText, NEW p \in Proc,
         \/ \E S \in SUBSET File, h \in BOOLEAN : Stage(p, S, h)
         \/ Leave(p) \/ Begin(p) \/ BeginFails(p)
         \/ \E f \in File : Prepare(p, f)
         \/ Intend(p) \/ Check(p) \/ Rename(p) \/ RenameMisses(p) \/ Record(p) \/ Finish(p)
         \/ ApplyFault(p)
  PROVE  TypeOK'
  <1>1. CASE \E S \in SUBSET File, h \in BOOLEAN : Stage(p, S, h)
    <2>1. PICK S \in SUBSET File, h \in BOOLEAN : Stage(p, S, h)
      BY <1>1
    <2>2. Replacing(S, h) \in Edits
      BY ReplacingIsTyped DEF TypeOK
    <2>3. commands + 1 \in 0..MaxCommands
      <3>1. commands \in 0..MaxCommands /\ commands < MaxCommands
        BY <2>1 DEF Stage, TypeOK
      <3> QED
        BY <3>1, Bounds
    <2> DEFINE j == [NoJournal EXCEPT !.id = commands + 1, !.edits = Replacing(S, h)]
    <2>4. j \in Journal
      BY <2>2, <2>3, NoJournalType DEF Journal
    <2>5. tx' = [tx EXCEPT ![p] = j]
      BY <2>1 DEF Stage
    <2> HIDE DEF j
    <2> QED
      BY <2>1, <2>2, <2>3, <2>4, <2>5 DEF TypeOK, Stage, Goto
  <1>2. CASE Leave(p)
    BY <1>2, GoneTypes DEF TypeOK, Leave, Return
  <1>3. CASE Begin(p)
    BY <1>3 DEF TypeOK, Begin, Persist, Goto
  <1>4. CASE BeginFails(p)
    BY <1>4, GoneTypes, FaultTypes DEF TypeOK, BeginFails, Return
  <1>5. CASE \E f \in File : Prepare(p, f)
    <2>1. PICK f \in File : Prepare(p, f)
      BY <1>5
    <2>2. [tx[p] EXCEPT !.inFlight = f] \in Journal
      BY InFlightIsTyped DEF TypeOK
    <2>3. <<tx[p].id, f>> \in (0..MaxCommands) \X (File \cup {None})
      BY JournalFields DEF TypeOK
    <2>4. tx' = [tx EXCEPT ![p] = [tx[p] EXCEPT !.inFlight = f]]
      BY <2>1 DEF Prepare
    <2> QED
      BY <2>1, <2>2, <2>3, <2>4 DEF TypeOK, Prepare, Goto
  <1>6. CASE Intend(p)
    BY <1>6 DEF TypeOK, Intend, Persist, Goto
  <1>7. CASE Check(p)
    BY <1>7 DEF TypeOK, Check, Rollback, Goto
  <1>8. ASSUME pc[p] = "rename", Replaced(p)
        PROVE  file' \in [File -> Content] /\ temps' \subseteq temps
    <2>1. Target(p) \in Paths(tx[p]) /\ tx[p] \in Journal
      BY <1>8, NoneIsNoFile DEF TypeOK, KnowsText, WellFormed, Target
    <2> QED
      BY <1>8, <2>1, RestoredType DEF Replaced
  <1>9. pc[p] = "record" => Recorded(tx[p]) \in Journal
    BY RecordedIsTyped DEF TypeOK, KnowsText, Target
  <1>10. CASE Rename(p)
    BY <1>10, <1>8 DEF TypeOK, Rename, Goto
  <1>14. CASE RenameMisses(p)
    BY <1>14 DEF TypeOK, RenameMisses, Rollback, Goto
  <1>11. CASE Record(p)
    <2>1. tx' = [tx EXCEPT ![p] = Recorded(tx[p])] /\ pc[p] = "record"
      BY <1>11 DEF Record
    <2> QED
      BY <1>11, <1>9, <2>1 DEF TypeOK, Record, Goto
  <1>12. CASE Finish(p)
    BY <1>12, GoneTypes, NoJournalType DEF TypeOK, Finish, Succeed
  <1>13. CASE ApplyFault(p)
    <2>1. /\ file' \in [File -> Content] /\ journal' \in Journal
          /\ temps' \subseteq temps
      BY <1>13, <1>8, <1>9, NoJournalType DEF TypeOK, ApplyFault
    <2> QED
      BY <1>13, <2>1, FaultTypes DEF TypeOK, ApplyFault, Rollback, Goto
  <1> QED
    BY <1>1, <1>2, <1>3, <1>4, <1>5, <1>6, <1>7, <1>10, <1>11, <1>12, <1>13, <1>14

LEMMA WorldTypes ==
  ASSUME TypeOK, \/ \E p \in Proc : Crash(p)
                 \/ \E f \in File : UserWrites(f)
  PROVE  TypeOK'
  <1>1. CASE \E p \in Proc : Crash(p)
    BY <1>1, GoneTypes, ForgetTypes, FaultTypes DEF TypeOK, Crash, Return
  <1>2. CASE \E f \in File : UserWrites(f)
    <2>1. PICK f \in File : UserWrites(f)
      BY <1>2
    <2>2. version + 1 \in 0..MaxVersion /\ file[f].text \in 0..MaxVersion
      BY <2>1, Bounds DEF UserWrites, TypeOK, Content
    <2> QED
      BY <2>1, <2>2 DEF UserWrites, TypeOK, Content
  <1> QED
    BY <1>1, <1>2

-------------------------------------------------------------------------------
(* What the user wrote *)

LEMMA InitText == Init => UserTextSurvives /\ KnowsText
  <1>1. SUFFICES ASSUME Init PROVE UserTextSurvives /\ KnowsText
    OBVIOUS
  <1> QED
    BY <1>1, NoJournalType DEF Init, UserTextSurvives, KnowsText

Knows(p) ==
  /\ WellFormed(tx[p]) /\ WellFormed(rec[p])
  /\ pc[p] \in {"intend", "check", "rename", "record"} => Target(p) \in File
  /\ todo[p] \subseteq Paths(rec[p])
  /\ pc[p] \in {"verify", "restore"} => at[p] \in Paths(rec[p])
  /\ pc[p] = "rename" /\ Target(p) \notin raced
       => tx[p].edits[Target(p)].original.text = latest[Target(p)]
  /\ pc[p] = "restore" /\ at[p] \notin raced
       => rec[p].edits[at[p]].original.text = latest[at[p]]

LEMMA KnowsAll == KnowsText <=> WellFormed(journal) /\ \A p \in Proc : Knows(p)
  BY DEF KnowsText, Knows

\* Another process's step leaves what a process knows alone.
LEMMA OthersKnow ==
  ASSUME TypeOK, KnowsText, NEW p \in Proc, NEW q \in Proc, q # p,
         UNCHANGED user,
         pc'[q] = pc[q], tx'[q] = tx[q], rec'[q] = rec[q],
         todo'[q] = todo[q], at'[q] = at[q]
  PROVE  Knows(q)'
  BY KnowsAll DEF Knows, WellFormed, Target, Paths

LEMMA GoneKnows ==
  ASSUME TypeOK, KnowsText, NEW p \in Proc, Gone(p),
         UNCHANGED user, \/ UNCHANGED <<rec, todo>>
                         \/ Forget(p)
  PROVE  Knows(p)'
  <1>1. tx'[p] = NoJournal /\ pc'[p] = "idle"
    BY DEF Gone, Goto, TypeOK
  <1>2. CASE Forget(p)
    BY <1>1, <1>2, NoJournalType DEF Knows, Forget, TypeOK, WellFormed, Paths, Target
  <1>3. CASE UNCHANGED <<rec, todo>>
    BY <1>1, <1>3, NoJournalType, KnowsAll DEF Knows, WellFormed, Paths, Target
  <1> QED
    BY <1>2, <1>3

LEMMA ProceedKnows ==
  ASSUME TypeOK, KnowsText, NEW p \in Proc, NEW b \in BOOLEAN, Proceed(p, b),
         UNCHANGED user, \/ UNCHANGED <<rec, todo>>
                         \/ Forget(p)
  PROVE  Knows(p)'
  <1>1. CASE Gone(p)
    BY <1>1, GoneKnows
  <1>2. CASE UNCHANGED tx /\ (Goto(p, "staging") \/ Goto(p, "begin"))
    <2>1. pc'[p] \in {"staging", "begin"}
      BY <1>2 DEF Goto, TypeOK
    <2>2. CASE Forget(p)
      BY <1>2, <2>1, <2>2, NoJournalType, KnowsAll
      DEF Knows, Forget, TypeOK, WellFormed, Paths, Target
    <2>3. CASE UNCHANGED <<rec, todo>>
      BY <1>2, <2>1, <2>3, KnowsAll DEF Knows, WellFormed, Paths, Target
    <2> QED
      BY <2>2, <2>3
  <1> QED
    <2>1. purpose[p] \in {"command", "apply", "rollback"}
      BY DEF TypeOK
    <2> QED
      BY <2>1, <1>1, <1>2 DEF Proceed, Return, Succeed

\* The step of a process changes nothing of another one.
LEMMA ProceedIsLocal ==
  ASSUME TypeOK, NEW p \in Proc, NEW b \in BOOLEAN, Proceed(p, b), NEW q \in Proc, q # p
  PROVE  pc'[q] = pc[q] /\ tx'[q] = tx[q] /\ purpose'[q] = purpose[q]
  <1>1. purpose[p] \in {"command", "apply", "rollback"}
    BY DEF TypeOK
  <1> QED
    BY <1>1 DEF Proceed, Return, Succeed, Gone, Goto, TypeOK

LEMMA ForgetIsLocal ==
  ASSUME TypeOK, NEW p \in Proc, Forget(p), NEW q \in Proc, q # p
  PROVE  rec'[q] = rec[q] /\ todo'[q] = todo[q] /\ at'[q] = at[q]
  BY DEF Forget, TypeOK

LEMMA RestoreText ==
  ASSUME TypeOK, UserTextSurvives, KnowsText, NEW p \in Proc, pc[p] = "restore",
         file' = [file EXCEPT ![at[p]] = rec[p].edits[at[p]].original],
         UNCHANGED user
  PROVE  UserTextSurvives'
  BY DEF UserTextSurvives, KnowsText, TypeOK

LEMMA RenameText ==
  ASSUME TypeOK, UserTextSurvives, KnowsText, NEW p \in Proc, pc[p] = "rename",
         Replaced(p), UNCHANGED user
  PROVE  UserTextSurvives'
  <1>1. Target(p) \in Paths(tx[p])
    BY NoneIsNoFile DEF KnowsText, WellFormed, Target
  <1>2. tx[p].edits[Target(p)].replacement.text = tx[p].edits[Target(p)].original.text
    BY <1>1 DEF KnowsText, WellFormed
  <1> QED
    BY <1>1, <1>2 DEF UserTextSurvives, KnowsText, TypeOK, Replaced

RecoveryStep(p) ==
  \/ NothingToRecover(p) \/ ReadJournal(p) \/ ProbeTemporary(p)
  \/ \E f \in File : Compare(p, f)
  \/ Verify(p) \/ Restore(p) \/ FinishRecovery(p) \/ RecoveryFault(p)

ApplyStep(p) ==
  \/ \E S \in SUBSET File, h \in BOOLEAN : Stage(p, S, h)
  \/ Leave(p) \/ Begin(p) \/ BeginFails(p)
  \/ \E f \in File : Prepare(p, f)
  \/ Intend(p) \/ Check(p) \/ Rename(p) \/ RenameMisses(p) \/ Record(p) \/ Finish(p)
  \/ ApplyFault(p)

LEMMA StepSurvives ==
  ASSUME TypeOK, UserTextSurvives, KnowsText, NEW p \in Proc,
         \/ RecoveryStep(p) \/ ApplyStep(p) \/ Command(p) \/ Crash(p)
  PROVE  UserTextSurvives'
  <1>1. CASE UNCHANGED <<file, latest, raced>>
    BY <1>1 DEF UserTextSurvives
  <1>2. CASE Restore(p)
    BY <1>2, RestoreText DEF Restore
  <1>3. CASE RecoveryFault(p)
    BY <1>1, <1>3, RestoreText DEF RecoveryFault
  <1>4. CASE Rename(p)
    BY <1>4, RenameText DEF Rename
  <1>5. CASE ApplyFault(p)
    BY <1>1, <1>5, RenameText DEF ApplyFault
  <1>6. CASE \E S \in SUBSET File, h \in BOOLEAN : Stage(p, S, h)
    BY <1>1, <1>6 DEF Stage
  <1> QED
    BY <1>1, <1>2, <1>3, <1>4, <1>5, <1>6
    DEF RecoveryStep, ApplyStep, NothingToRecover, ReadJournal, ProbeTemporary,
        Compare, Verify, FinishRecovery, Leave, Begin, BeginFails, Prepare,
        Intend, Check, RenameMisses, Record, Finish, Command, Crash

LEMMA RecoveryKnows ==
  ASSUME TypeOK, UserTextSurvives, KnowsText, NEW p \in Proc, RecoveryStep(p)
  PROVE  KnowsText'
  <1>1. WellFormed(journal')
    BY NoJournalType, KnowsAll
    DEF RecoveryStep, NothingToRecover, ReadJournal, ProbeTemporary, Compare,
        Verify, Restore, FinishRecovery, RecoveryFault
  <1>2. UNCHANGED user
    BY DEF RecoveryStep, NothingToRecover, ReadJournal, ProbeTemporary, Compare,
           Verify, Restore, FinishRecovery, RecoveryFault
  <1>3. ASSUME NEW q \in Proc, q # p
        PROVE  /\ pc'[q] = pc[q] /\ tx'[q] = tx[q]
               /\ rec'[q] = rec[q] /\ todo'[q] = todo[q] /\ at'[q] = at[q]
    <2>1. CASE NothingToRecover(p)
      BY <2>1, <1>3, ProceedIsLocal DEF NothingToRecover
    <2>2. CASE FinishRecovery(p)
      BY <2>2, <1>3, ProceedIsLocal, ForgetIsLocal DEF FinishRecovery, TypeOK
    <2>3. CASE Verify(p) \/ RecoveryFault(p)
      BY <2>3, <1>3, ForgetIsLocal
      DEF Verify, RecoveryFault, RecoveryFails, Return, Gone, Goto, TypeOK
    <2>4. CASE ReadJournal(p) \/ ProbeTemporary(p) \/ Restore(p) \/ \E f \in File : Compare(p, f)
      BY <2>4, <1>3 DEF ReadJournal, ProbeTemporary, Restore, Compare, Goto, TypeOK
    <2> QED
      BY <2>1, <2>2, <2>3, <2>4 DEF RecoveryStep
  <1>4. \A q \in Proc \ {p} : Knows(q)'
    BY <1>2, <1>3, OthersKnow
  <1>5. Knows(p)'
    <2>1. CASE NothingToRecover(p)
      BY <2>1, ProceedKnows DEF NothingToRecover
    <2>2. CASE FinishRecovery(p)
      BY <2>2, ProceedKnows DEF FinishRecovery, TypeOK
    <2>3. CASE RecoveryFault(p)
      BY <2>3, GoneKnows DEF RecoveryFault, RecoveryFails, Return
    <2>4. CASE ReadJournal(p)
      BY <2>4, KnowsAll DEF ReadJournal, Goto, TypeOK, Knows, WellFormed, Paths, Target
    <2>5. CASE ProbeTemporary(p)
      <3>1. ToRecover(rec[p]) \subseteq Paths(rec[p])
        BY KnowsAll DEF Knows, WellFormed, ToRecover
      <3> QED
        BY <2>5, <3>1, KnowsAll
        DEF ProbeTemporary, Goto, TypeOK, Knows, WellFormed, Paths, Target
    <2>6. CASE \E f \in File : Compare(p, f)
      BY <2>6, KnowsAll DEF Compare, Goto, TypeOK, Knows, WellFormed, Paths, Target
    <2>7. CASE Verify(p)
      <3>1. CASE RecoveryFails(p)
        BY <2>7, <3>1, GoneKnows DEF Verify, RecoveryFails, Return
      <3>2. CASE ~RecoveryFails(p)
        <4>1. /\ file[at[p]] = rec[p].edits[at[p]].replacement
              /\ pc' = [pc EXCEPT ![p] = "restore"]
              /\ UNCHANGED <<tx, rec, todo, at, user>> /\ pc[p] = "verify"
          BY <2>7, <3>2 DEF Verify, Goto
        <4>2. at[p] \in Paths(rec[p]) /\ at[p] \in File
          BY <4>1, KnowsAll, JournalFields DEF Knows, TypeOK
        <4>3. rec[p].edits[at[p]].original.text = file[at[p]].text
          BY <4>1, <4>2, KnowsAll DEF Knows, WellFormed
        <4>4. at[p] \notin raced => rec[p].edits[at[p]].original.text = latest[at[p]]
          BY <4>2, <4>3 DEF UserTextSurvives
        <4> QED
          BY <4>1, <4>2, <4>4, KnowsAll DEF Knows, TypeOK, WellFormed, Paths, Target
      <3> QED
        BY <3>1, <3>2
    <2>8. CASE Restore(p)
      BY <2>8, KnowsAll DEF Restore, Goto, TypeOK, Knows, WellFormed, Paths, Target
    <2> QED
      BY <2>1, <2>2, <2>3, <2>4, <2>5, <2>6, <2>7, <2>8 DEF RecoveryStep
  <1>6. WellFormed(journal)'
    BY <1>1 DEF WellFormed, Paths
  <1> QED
    BY <1>4, <1>5, <1>6 DEF KnowsText, Knows

LEMMA ApplyKnows ==
  ASSUME TypeOK, UserTextSurvives, KnowsText, NEW p \in Proc, ApplyStep(p)
  PROVE  KnowsText'
  <1>1. CASE \E S \in SUBSET File, h \in BOOLEAN : Stage(p, S, h)
    <2>1. PICK S \in SUBSET File, h \in BOOLEAN : Stage(p, S, h)
      BY <1>1
    <2> DEFINE j == [NoJournal EXCEPT !.id = commands + 1, !.edits = Replacing(S, h)]
    <2>2. tx' = [tx EXCEPT ![p] = j]
      BY <2>1 DEF Stage
    <2>3. WellFormed(j)
      BY ReplacingIsTyped DEF TypeOK, WellFormed, Paths, NoJournal
    <2> HIDE DEF j
    <2>4. ASSUME NEW q \in Proc PROVE Knows(q)'
      <3>1. CASE q = p
        <4>1. pc'[p] = "recover" /\ UNCHANGED <<rec, todo, at>>
          BY <2>1 DEF Stage, Goto, TypeOK
        <4>2. tx'[p] = j
          BY <2>2 DEF TypeOK
        <4> QED
          BY <2>3, <3>1, <4>1, <4>2, KnowsAll DEF Knows, WellFormed, Paths, Target
      <3>2. CASE q # p
        <4>1. pc'[q] = pc[q] /\ tx'[q] = tx[q] /\ UNCHANGED <<rec, todo, at, latest, raced>>
          BY <2>1, <2>2, <3>2 DEF Stage, Goto, TypeOK
        <4> QED
          BY <4>1, KnowsAll DEF Knows, WellFormed, Target, Paths
      <3> QED
        BY <3>1, <3>2
    <2> QED
      BY <2>1, <2>4, KnowsAll DEF Stage, KnowsText, Knows, WellFormed, Paths
  <1>2. CASE ~\E S \in SUBSET File, h \in BOOLEAN : Stage(p, S, h)
    <2>1. /\ \/ Leave(p) \/ Begin(p) \/ BeginFails(p)
             \/ \E f \in File : Prepare(p, f)
             \/ Intend(p) \/ Check(p) \/ Rename(p) \/ RenameMisses(p) \/ Record(p) \/ Finish(p)
             \/ ApplyFault(p)
      BY <1>2 DEF ApplyStep
    <2>2. UNCHANGED <<user, recovery>>
      BY <2>1 DEF Leave, Begin, BeginFails, Prepare, Intend, Check, Rename, RenameMisses, Record,
                  Finish, ApplyFault
    <2>3. pc[p] = "record" => WellFormed(Recorded(tx[p]))
      BY KnowsAll, NoneIsNoFile DEF Knows, WellFormed, Recorded, Paths, Target
    <2>4. WellFormed(journal')
      BY <2>1, <2>3, NoJournalType, KnowsAll
      DEF Leave, Begin, BeginFails, Prepare, Intend, Check, Rename, RenameMisses, Record,
          Finish, ApplyFault, Knows, Persist, TypeOK, Replaced
    <2>5. ASSUME NEW q \in Proc, q # p
          PROVE  pc'[q] = pc[q] /\ tx'[q] = tx[q]
      BY <2>1, <2>5
      DEF Leave, Begin, BeginFails, Prepare, Intend, Check, Rename, RenameMisses, Record, Finish,
          ApplyFault, TypeOK, Return, Succeed, Gone, Goto, Rollback, Persist
    <2>6. \A q \in Proc \ {p} : Knows(q)'
      BY <2>2, <2>5, OthersKnow
    <2>7. Knows(p)'
      <3>1. CASE Leave(p) \/ BeginFails(p) \/ Finish(p)
        BY <2>2, <3>1, GoneKnows DEF Leave, BeginFails, Finish, Return, Succeed
      <3>2. CASE Begin(p) \/ Intend(p) \/ Rename(p)
        <4>1. UNCHANGED tx /\ pc'[p] \in {"prepare", "check", "record"}
              /\ (pc'[p] # "prepare" => pc[p] \in {"intend", "rename"})
          BY <3>2 DEF Begin, Intend, Rename, Persist, Goto, TypeOK
        <4> QED
          BY <2>2, <4>1, KnowsAll DEF Knows, WellFormed, Paths, Target
      <3>3. CASE \E f \in File : Prepare(p, f)
        <4>1. PICK f \in File : Prepare(p, f)
          BY <3>3
        <4>2. tx'[p] = [tx[p] EXCEPT !.inFlight = f] /\ pc'[p] = "intend" /\ f \in Paths(tx[p])
          BY <4>1 DEF Prepare, Goto, TypeOK
        <4>3. WellFormed(tx'[p]) /\ tx'[p].inFlight = f
          BY <4>2, KnowsAll DEF Knows, WellFormed, Paths, TypeOK, Journal
        <4> QED
          BY <2>2, <4>2, <4>3, KnowsAll DEF Knows, WellFormed, Paths, Target
      <3>4. CASE Check(p)
        <4>1. UNCHANGED tx /\ pc[p] = "check"
          BY <3>4 DEF Check, Rollback
        <4>2. Target(p) \in Paths(tx[p]) /\ Target(p) \in File
          BY <4>1, KnowsAll, NoneIsNoFile DEF Knows, WellFormed, Target
        <4>3. CASE file[Target(p)] = tx[p].edits[Target(p)].original
          <5>1. pc'[p] = "rename"
            BY <3>4, <4>3 DEF Check, Goto, TypeOK
          <5>2. Target(p) \notin raced
                  => tx[p].edits[Target(p)].original.text = latest[Target(p)]
            BY <4>2, <4>3 DEF UserTextSurvives
          <5> QED
            BY <2>2, <4>1, <4>2, <5>1, <5>2, KnowsAll DEF Knows, WellFormed, Paths, Target
        <4>4. CASE file[Target(p)] # tx[p].edits[Target(p)].original
          <5>1. pc'[p] = "recover"
            BY <3>4, <4>4 DEF Check, Rollback, Goto, TypeOK
          <5> QED
            BY <2>2, <4>1, <5>1, KnowsAll DEF Knows, WellFormed, Paths, Target
        <4> QED
          BY <4>3, <4>4
      <3>5. CASE Record(p)
        <4>1. tx'[p] = Recorded(tx[p]) /\ pc'[p] \in {"finish", "prepare"} /\ pc[p] = "record"
          BY <3>5 DEF Record, Goto, TypeOK
        <4> QED
          BY <2>2, <2>3, <4>1, KnowsAll DEF Knows, WellFormed, Paths, Target
      <3>6. CASE ApplyFault(p) \/ RenameMisses(p)
        <4>1. UNCHANGED tx /\ pc'[p] = "recover"
          BY <3>6 DEF ApplyFault, RenameMisses, Rollback, Goto, TypeOK
        <4> QED
          BY <2>2, <4>1, KnowsAll DEF Knows, WellFormed, Paths, Target
      <3> QED
        BY <2>1, <3>1, <3>2, <3>3, <3>4, <3>5, <3>6
    <2> QED
      BY <2>4, <2>6, <2>7 DEF KnowsText, Knows, WellFormed, Paths
  <1> QED
    BY <1>1, <1>2

LEMMA CommandKnows ==
  ASSUME TypeOK, KnowsText, NEW p \in Proc, Command(p) \/ Crash(p)
  PROVE  KnowsText'
  <1>1. UNCHANGED <<journal, user>>
    BY DEF Command, Crash
  <1>2. ASSUME NEW q \in Proc, q # p
        PROVE  /\ pc'[q] = pc[q] /\ tx'[q] = tx[q]
               /\ rec'[q] = rec[q] /\ todo'[q] = todo[q] /\ at'[q] = at[q]
    BY <1>2, ForgetIsLocal DEF Command, Crash, Return, Gone, Goto, TypeOK
  <1>3. \A q \in Proc \ {p} : Knows(q)'
    BY <1>1, <1>2, OthersKnow
  <1>4. CASE Command(p)
    <2>1. Knows(p)'
      BY <1>1, <1>4, KnowsAll DEF Command, Goto, TypeOK, Knows, WellFormed, Paths, Target
    <2> QED
      BY <1>1, <1>3, <2>1, KnowsAll DEF KnowsText, Knows, WellFormed, Paths
  <1>5. CASE Crash(p)
    <2>1. Knows(p)'
      BY <1>1, <1>5, GoneKnows DEF Crash, Return
    <2> QED
      BY <1>1, <1>3, <2>1, KnowsAll DEF KnowsText, Knows, WellFormed, Paths
  <1> QED
    BY <1>4, <1>5

\* A write of the user between the two steps of a replacement is a race.
LEMMA UserWriteKnows ==
  ASSUME TypeOK, UserTextSurvives, KnowsText, NEW f \in File, UserWrites(f)
  PROVE  UserTextSurvives' /\ KnowsText'
  <1>1. PICK t \in {file[f].text, version + 1}, h \in BOOLEAN :
          /\ file' = [file EXCEPT ![f] = [text |-> t, hooks |-> h]]
          /\ latest' = [latest EXCEPT ![f] = t]
    BY DEF UserWrites
  <1>2. raced \subseteq raced' /\ (AboutToReplace(f) # {} => f \in raced')
        /\ UNCHANGED <<journal, pc, tx, rec, todo, at>>
    BY DEF UserWrites
  <1>3. UserTextSurvives'
    BY <1>1, <1>2 DEF UserTextSurvives, TypeOK
  <1>4. ASSUME NEW q \in Proc PROVE Knows(q)'
    <2>1. \A g \in File \ raced' : g # f => latest'[g] = latest[g]
      BY <1>1 DEF TypeOK
    <2>2. /\ pc[q] = "rename" /\ Target(q) = f => f \in raced'
          /\ pc[q] = "restore" /\ at[q] = f => f \in raced'
      BY <1>2 DEF AboutToReplace
    <2>3. /\ pc[q] = "rename" => Target(q) \in File
          /\ pc[q] = "restore" => at[q] \in File
      BY KnowsAll, JournalFields DEF Knows, TypeOK
    <2> QED
      BY <1>2, <2>1, <2>2, <2>3, KnowsAll DEF Knows, WellFormed, Paths, Target
  <1> QED
    BY <1>2, <1>3, <1>4, KnowsAll DEF KnowsText, Knows, WellFormed, Paths

TextInv == TypeOK /\ UserTextSurvives /\ KnowsText

LEMMA NextCases ==
  Next <=> \/ \E p \in Proc : RecoveryStep(p) \/ ApplyStep(p) \/ Command(p) \/ Crash(p)
           \/ \E f \in File : UserWrites(f)
  BY DEF Next, Step, RecoveryStep, ApplyStep

LEMMA TextStep == TextInv /\ [Next]_vars => TextInv'
  <1> SUFFICES ASSUME TextInv, [Next]_vars PROVE TextInv'
    OBVIOUS
  <1> USE DEF TextInv
  <1>1. ASSUME NEW p \in Proc, RecoveryStep(p) PROVE TextInv'
    BY <1>1, RecoveryTypes, StepSurvives, RecoveryKnows DEF RecoveryStep
  <1>2. ASSUME NEW p \in Proc, ApplyStep(p) PROVE TextInv'
    BY <1>2, ApplyTypes, StepSurvives, ApplyKnows DEF ApplyStep
  <1>3. ASSUME NEW p \in Proc, Command(p) \/ Crash(p) PROVE TextInv'
    BY <1>3, CommandTypes, WorldTypes, StepSurvives, CommandKnows
  <1>4. ASSUME NEW f \in File, UserWrites(f) PROVE TextInv'
    BY <1>4, WorldTypes, UserWriteKnows
  <1>5. CASE UNCHANGED vars
    BY <1>5 DEF TypeOK, UserTextSurvives, KnowsText, WellFormed, Paths, Target
  <1> QED
    BY <1>1, <1>2, <1>3, <1>4, <1>5, NextCases

\* What the user wrote into a provider file survives every transaction, recovery,
\* crash and failing call of any number of overlapping commands, unless the user
\* wrote between the hash that guards a replacement and its rename.
THEOREM UserEditsAreKept == Spec => []UserTextSurvives
  <1>1. Init => TextInv
    BY InitTypes, InitText DEF TextInv
  <1>2. TextInv /\ [Next]_vars => TextInv'
    BY TextStep
  <1>3. TextInv => UserTextSurvives
    BY DEF TextInv
  <1> QED
    BY <1>1, <1>2, <1>3, PTL DEF Spec

-------------------------------------------------------------------------------
(* All or nothing *)

\* What a step of p leaves of the other processes while nobody overlaps.
Others(p) == \A q \in Proc \ {p} : /\ pc[q] = "idle" /\ pc'[q] = "idle"
                                   /\ purpose[q] = "command" /\ purpose'[q] = "command"
                                   /\ tx[q] = NoJournal /\ tx'[q] = NoJournal

LEMMA SoundStep ==
  ASSUME NEW p \in Proc, Others(p), Placed(p)', Recoverable'
  PROVE  Sound'
  <1>1. ASSUME NEW q \in Proc, q # p PROVE Placed(q)' /\ pc'[q] = "idle"
    BY <1>1 DEF Others, Placed, Standing
  <1> QED
    BY <1>1 DEF Sound, Alone

LEMMA OnlyOne ==
  ASSUME TypeOK, Sound, ~overlap, NEW p \in Proc,
         pc[p] # "idle" \/ \A q \in Proc : pc[q] = "idle",
         \A q \in Proc \ {p} : UNCHANGED <<pc[q], purpose[q], tx[q]>>
  PROVE  Others(p) /\ Placed(p) /\ Recoverable
  BY DEF Sound, Others, Alone, Placed

LEMMA RecoveryIsLocal ==
  ASSUME TypeOK, NEW p \in Proc, RecoveryStep(p)
  PROVE  \A q \in Proc \ {p} : UNCHANGED <<pc[q], purpose[q], tx[q]>>
  <1> SUFFICES ASSUME NEW q \in Proc, q # p
               PROVE  pc'[q] = pc[q] /\ purpose'[q] = purpose[q] /\ tx'[q] = tx[q]
    OBVIOUS
  <1>1. CASE NothingToRecover(p)
    BY <1>1, ProceedIsLocal DEF NothingToRecover
  <1>2. CASE FinishRecovery(p)
    BY <1>2, ProceedIsLocal DEF FinishRecovery, TypeOK
  <1>3. CASE Verify(p) \/ RecoveryFault(p)
    BY <1>3 DEF Verify, RecoveryFault, RecoveryFails, Return, Gone, Goto, TypeOK
  <1>4. CASE ReadJournal(p) \/ ProbeTemporary(p) \/ Restore(p) \/ \E f \in File : Compare(p, f)
    BY <1>4 DEF ReadJournal, ProbeTemporary, Restore, Compare, Goto, TypeOK
  <1> QED
    BY <1>1, <1>2, <1>3, <1>4 DEF RecoveryStep

LEMMA ApplyIsLocal ==
  ASSUME TypeOK, NEW p \in Proc, ApplyStep(p)
  PROVE  \A q \in Proc \ {p} : UNCHANGED <<pc[q], purpose[q], tx[q]>>
  BY DEF ApplyStep, Stage, Leave, Begin, BeginFails, Prepare, Intend, Check, Rename, RenameMisses,
         Record, Finish, ApplyFault, TypeOK, Return, Succeed, Gone, Goto, Rollback, Persist

\* A process that returns or dies leaves the disk as it is.
LEMMA GonePlaced ==
  ASSUME TypeOK, NEW p \in Proc, Gone(p)
  PROVE  Placed(p)'
  BY DEF TypeOK, Gone, Goto, Placed, Standing

LEMMA SameDisk ==
  ASSUME Recoverable, UNCHANGED <<file, journal, touched, last, applied>>,
         temps' \subseteq temps
  PROVE  Recoverable'
  BY DEF Recoverable, AllReplaced, AllOriginal, Explained, Untouched, Original, Changed,
         ToRecover, Temp

LEMMA ProceedPlaced ==
  ASSUME TypeOK, NEW p \in Proc, NEW b \in BOOLEAN, Proceed(p, b), Placed(p),
         AllReplaced \/ AllOriginal, applied => AllReplaced,
         journal' = NoJournal, UNCHANGED <<file, touched>>,
         purpose[p] = "apply" => /\ AllOriginal
                                 /\ pc[p] = "recover" \/ journal # NoJournal
                                 /\ tx[p].replaced = {} /\ Target(p) = None
  PROVE  Placed(p)' /\ Recoverable'
  <1>1. UNCHANGED last
    BY ProceedTypes
  <1>2. (AllReplaced <=> AllReplaced') /\ (AllOriginal <=> AllOriginal')
    BY <1>1 DEF AllReplaced, AllOriginal
  <1>3. CASE purpose[p] = "command"
    <2>1. pc'[p] = "staging" /\ UNCHANGED <<purpose, tx, applied>>
      BY <1>3 DEF Proceed, Goto, TypeOK
    <2> QED
      BY <1>1, <1>2, <1>3, <2>1 DEF Placed, Standing, Recoverable
  <1>4. CASE purpose[p] = "apply" /\ ~b /\ Paths(tx[p]) = {}
    <2>1. Gone(p) /\ AllReplaced
      BY <1>4 DEF Proceed, Succeed, Placed, Paths, AllReplaced
    <2> QED
      BY <1>2, <2>1, GonePlaced DEF Recoverable
  <1>5. CASE purpose[p] = "apply" /\ ~b /\ Paths(tx[p]) # {}
    <2>1. pc'[p] = "begin" /\ UNCHANGED <<purpose, tx, applied>>
      BY <1>5 DEF Proceed, Goto, TypeOK
    <2> QED
      BY <1>1, <1>2, <1>5, <2>1 DEF Placed, Standing, Recoverable, Waiting, Target
  <1>6. CASE Return(p)
    BY <1>2, <1>6, GonePlaced DEF Recoverable, Return
  <1> QED
    <2>1. purpose[p] \in {"command", "apply", "rollback"}
      BY DEF TypeOK
    <2> QED
      BY <2>1, <1>3, <1>4, <1>5, <1>6 DEF Proceed

LEMMA RestoreSound ==
  ASSUME TypeOK, KnowsText, NEW p \in Proc, Placed(p), Recoverable, pc[p] = "restore",
         file' = [file EXCEPT ![at[p]] = rec[p].edits[at[p]].original],
         UNCHANGED <<journal, touched, last, applied>>, temps' \subseteq temps
  PROVE  /\ Recoverable'
         /\ \A f \in Untouched \ todo[p] : Original(f)'
  <1>1. Restored(p, todo[p] \cup {at[p]}) /\ at[p] \in Paths(rec[p])
    BY DEF Placed, Standing, KnowsText
  <1>2. rec[p] = journal /\ journal # NoJournal /\ journal.edits = last /\ ~applied
    BY <1>1 DEF Restored, Recoverable
  <1>3. last \in [DOMAIN last -> Edit] /\ DOMAIN last \subseteq File
    BY EditsAreTyped DEF TypeOK
  <1>4. \A f \in Untouched : Original(f) => Original(f)'
    BY <1>2, <1>3 DEF Original, Untouched, TypeOK
  <1>5. \A f \in Untouched : f = at[p] => Original(f)'
    BY <1>2, <1>3 DEF Original, Untouched, TypeOK
  <1>6. \A f \in Untouched : Explained(f)'
    <2> SUFFICES ASSUME NEW f \in Untouched PROVE Explained(f)'
      OBVIOUS
    <2>1. CASE f = at[p]
      BY <2>1, <1>5 DEF Explained
    <2>2. CASE f # at[p]
      BY <2>2, <1>2, <1>3, <1>4
      DEF Recoverable, Explained, Changed, Untouched, TypeOK, ToRecover, Temp
    <2> QED
      BY <2>1, <2>2
  <1> QED
    BY <1>1, <1>2, <1>4, <1>5, <1>6 DEF Recoverable, Restored, Untouched

LEMMA RecoverySound ==
  ASSUME TypeOK, KnowsText, Sound, NEW p \in Proc, RecoveryStep(p)
  PROVE  Sound'
  <1>1. SUFFICES ASSUME ~overlap PROVE Sound'
    <2>1. UNCHANGED overlap
      BY ProceedTypes
      DEF RecoveryStep, NothingToRecover, ReadJournal, ProbeTemporary, Compare,
          Verify, Restore, FinishRecovery, RecoveryFault, RecoveryFails, Return, TypeOK
    <2> QED
      BY <1>1, <2>1 DEF Sound
  <1>2. pc[p] # "idle"
    BY DEF RecoveryStep, NothingToRecover, ReadJournal, ProbeTemporary, Compare,
           Verify, Restore, FinishRecovery, RecoveryFault
  <1>3. Others(p) /\ Placed(p) /\ Recoverable
    BY <1>1, <1>2, OnlyOne, RecoveryIsLocal
  <1>4. SUFFICES Placed(p)' /\ Recoverable'
    <2>1. Others(p)
      BY <1>3
    <2> QED
      BY <1>4, <2>1, SoundStep
  <1>5. CASE NothingToRecover(p)
    <2>1. purpose[p] = "apply" => AllOriginal /\ tx[p].replaced = {} /\ Target(p) = None
      BY <1>3, <1>5 DEF NothingToRecover, Placed, Waiting
    <2> QED
      BY <1>3, <1>5, <2>1, ProceedPlaced DEF NothingToRecover, Recoverable
  <1>6. CASE ReadJournal(p)
    <2>1. purpose[p] # "apply"
      BY <1>3, <1>6 DEF ReadJournal, Placed, Waiting
    <2>2. /\ pc'[p] = "probe" /\ rec'[p] = journal /\ todo'[p] = journal.replaced
          /\ journal # NoJournal /\ UNCHANGED <<disk, purpose, tx, user, report>>
      BY <1>6 DEF ReadJournal, Goto, TypeOK
    <2>3. Untouched \subseteq File
      BY EditsAreTyped DEF TypeOK, Untouched
    <2>4. Placed(p)'
      BY <1>3, <2>1, <2>2, <2>3 DEF Placed, Standing, Restored, Untouched
    <2> QED
      BY <1>3, <2>2, <2>4, SameDisk
  <1>7. CASE ProbeTemporary(p)
    <2>1. /\ pc'[p] = "compare" /\ todo'[p] = todo[p] \cup ToRecover(rec[p])
          /\ UNCHANGED <<disk, purpose, tx, rec, user, report>>
      BY <1>7 DEF ProbeTemporary, Goto, TypeOK
    <2>2. Restored(p, File) /\ todo[p] = journal.replaced
      BY <1>3, <1>7 DEF ProbeTemporary, Placed, Standing
    <2>3. \A f \in Untouched \ todo'[p] : Original(f)
      BY <1>3, <2>1, <2>2 DEF Recoverable, Explained, Restored
    <2>4. Restored(p, todo[p])'
      BY <2>1, <2>2, <2>3 DEF Restored, Untouched, Original
    <2>5. Placed(p)'
      BY <1>3, <2>1, <2>2, <2>4 DEF Placed, Standing, Restored
    <2> QED
      BY <1>3, <2>1, <2>5, SameDisk
  <1>8. CASE \E f \in File : Compare(p, f)
    <2>1. PICK f \in File : Compare(p, f)
      BY <1>8
    <2> DEFINE ours == file[f] = rec[p].edits[f].replacement
    <2>2. /\ pc'[p] = IF ours THEN "verify" ELSE "compare"
          /\ todo'[p] = todo[p] \ {f} /\ (ours => at'[p] = f)
          /\ UNCHANGED <<disk, purpose, tx, rec, user, report>>
      BY <2>1 DEF Compare, Goto, TypeOK
    <2>3. Restored(p, todo[p])
      BY <1>3, <2>1 DEF Compare, Placed, Standing
    <2>4. ~ours /\ f \in Untouched => Original(f)
      BY <1>3, <2>3 DEF Recoverable, Restored, Explained, Changed
    <2>5. CASE ours
      <3>1. Restored(p, todo[p] \cup {at[p]})'
        BY <2>2, <2>3, <2>5 DEF Restored, Untouched, Original
      <3> QED
        BY <1>3, <2>2, <2>3, <2>5, <3>1, SameDisk DEF Placed, Standing, Restored
    <2>6. CASE ~ours
      <3>1. Restored(p, todo[p])'
        BY <2>2, <2>3, <2>4, <2>6 DEF Restored, Untouched, Original
      <3> QED
        BY <1>3, <2>2, <2>3, <2>6, <3>1, SameDisk DEF Placed, Standing, Restored
    <2> QED
      BY <2>5, <2>6
  <1>9. ASSUME RecoveryFails(p), UNCHANGED <<file, journal, user>>
        PROVE  Placed(p)' /\ Recoverable'
    <2>1. temps' \subseteq temps /\ Gone(p) /\ UNCHANGED <<last, applied>>
      BY <1>9 DEF RecoveryFails, Return
    <2> QED
      BY <1>3, <1>9, <2>1, GonePlaced, SameDisk
  <1>10. CASE Verify(p)
    <2>1. CASE RecoveryFails(p)
      BY <1>9, <1>10, <2>1 DEF Verify
    <2>2. CASE ~RecoveryFails(p)
      <3>1. /\ pc'[p] = "restore" /\ pc[p] = "verify"
            /\ UNCHANGED <<disk, purpose, tx, rec, todo, at, user, report>>
        BY <1>10, <2>2 DEF Verify, Goto, TypeOK
      <3>2. Restored(p, todo[p] \cup {at[p]})'
        BY <1>3, <3>1 DEF Placed, Standing, Restored, Untouched, Original
      <3> QED
        BY <1>3, <3>1, <3>2, SameDisk DEF Placed, Standing, Restored
    <2> QED
      BY <2>1, <2>2
  <1>11. CASE Restore(p)
    <2>1. /\ pc'[p] = "compare" /\ pc[p] = "restore"
          /\ UNCHANGED <<journal, temps, purpose, tx, rec, todo, user, report>>
      BY <1>11 DEF Restore, Goto, TypeOK
    <2>2. Recoverable' /\ \A f \in Untouched \ todo[p] : Original(f)'
      BY <1>3, <1>11, <2>1, RestoreSound DEF Restore
    <2>3. rec[p] = journal /\ journal # NoJournal /\ purpose[p] # "apply"
      BY <1>3, <2>1 DEF Placed, Standing, Restored
    <2>4. Restored(p, todo[p])'
      BY <2>1, <2>2, <2>3 DEF Restored, Untouched
    <2> QED
      BY <1>3, <2>1, <2>2, <2>3, <2>4 DEF Placed, Standing
  <1>12. pc[p] = "compare" /\ todo[p] = {}
           => AllOriginal /\ ~applied /\ purpose[p] # "apply" /\ journal # NoJournal
    BY <1>3 DEF Placed, Standing, Restored, Recoverable, AllOriginal, Untouched, Original
  <1>13. CASE FinishRecovery(p)
    <2>1. concurrent[p] \in BOOLEAN
      BY DEF TypeOK
    <2> QED
      BY <1>3, <1>12, <1>13, <2>1, ProceedPlaced DEF FinishRecovery
  <1>14. CASE RecoveryFault(p)
    <2>1. Placed(p)' /\ UNCHANGED <<touched, last, applied>> /\ temps' \subseteq temps
      BY <1>14, GonePlaced DEF RecoveryFault, RecoveryFails, Return
    <2>2. CASE UNCHANGED <<file, journal>>
      BY <1>3, <2>1, <2>2, SameDisk
    <2>3. CASE pc[p] = "restore" /\ UNCHANGED journal
               /\ file' = [file EXCEPT ![at[p]] = rec[p].edits[at[p]].original]
      BY <1>3, <2>1, <2>3, RestoreSound
    <2>4. CASE pc[p] = "compare" /\ todo[p] = {} /\ journal' = NoJournal /\ UNCHANGED file
      BY <1>12, <2>1, <2>4 DEF Recoverable, AllOriginal
    <2> QED
      BY <1>14, <2>1, <2>2, <2>3, <2>4 DEF RecoveryFault
  <1> QED
    BY <1>5, <1>6, <1>7, <1>8, <1>10, <1>11, <1>13, <1>14 DEF RecoveryStep

\* The effects of the writes of a transaction, whether they are reported or not.
LEMMA IntendEffect ==
  ASSUME TypeOK, KnowsText, NEW p \in Proc, Placed(p), Recoverable, pc[p] = "intend",
         journal' = tx[p], UNCHANGED <<file, temps, touched, last, applied>>
  PROVE  Recoverable'
  <1>1. /\ Applying(p, [tx[p] EXCEPT !.inFlight = None])
        /\ Target(p) \in Untouched => Original(Target(p))
        /\ ~applied /\ tx[p].edits = last /\ Target(p) \in File
    BY DEF Placed, Standing, KnowsText, Applying
  <1>2. tx[p] # NoJournal
    BY <1>1, NoneIsNoFile DEF NoJournal, Target
  <1>3. \A f \in Untouched : Original(f) \/ (Changed(f) /\ f \in tx[p].replaced)
    BY <1>1 DEF Applying
  <1> QED
    BY <1>1, <1>2, <1>3
    DEF Recoverable, Explained, Untouched, Original, Changed, AllReplaced

LEMMA RenameEffect ==
  ASSUME TypeOK, KnowsText, NEW p \in Proc, Placed(p), Recoverable, pc[p] = "rename",
         Replaced(p), UNCHANGED <<journal, touched, last, applied>>
  PROVE  /\ Recoverable'
         /\ \A f \in Untouched : /\ Changed(f) => Changed(f)'
                                 /\ f # Target(p) /\ Original(f) => Original(f)'
                                 /\ f = Target(p) => Changed(f)'
  <1>1. /\ Applying(p, tx[p]) /\ ~applied /\ tx[p].edits = last /\ Target(p) \in Paths(tx[p])
    BY NoneIsNoFile DEF Placed, Standing, KnowsText, Applying, WellFormed, Target
  <1>2. DOMAIN last \subseteq File
    BY EditsAreTyped DEF TypeOK
  <1>3. /\ file' = [file EXCEPT ![Target(p)] = last[Target(p)].replacement]
        /\ temps' = temps \ {Temp(tx[p])}
    BY <1>1 DEF Replaced
  <1>4. \A f \in Untouched : /\ Changed(f) => Changed(f)'
                             /\ f # Target(p) /\ Original(f) => Original(f)'
                             /\ f = Target(p) => Changed(f)'
    BY <1>2, <1>3 DEF Untouched, Changed, Original, TypeOK
  <1>5. journal = tx[p] /\ Target(p) # None
    BY <1>1, NoneIsNoFile, JournalFields DEF Applying, TypeOK
  <1>6. ToRecover(journal)' = {Target(p)}
    BY <1>3, <1>5 DEF ToRecover, Temp, Target
  <1>7. \A f \in Untouched : Explained(f)'
    <2> SUFFICES ASSUME NEW f \in Untouched PROVE Explained(f)'
      OBVIOUS
    <2>1. IF f \in tx[p].replaced THEN Changed(f) ELSE Original(f) \/ f = Target(p)
      BY <1>1 DEF Applying
    <2>2. Explained(f)' <=> \/ Original(f)'
                            \/ Changed(f)' /\ f \in (journal.replaced \cup {Target(p)})
      BY <1>6 DEF Explained
    <2> QED
      BY <1>4, <1>5, <2>1, <2>2
  <1>8. journal # NoJournal
    BY <1>5 DEF NoJournal, Target
  <1> QED
    BY <1>1, <1>4, <1>5, <1>7, <1>8 DEF Recoverable, Untouched

LEMMA RecordEffect ==
  ASSUME TypeOK, KnowsText, NEW p \in Proc, Placed(p), Recoverable, pc[p] = "record",
         journal' = Recorded(tx[p]), UNCHANGED <<file, temps, touched, last, applied>>
  PROVE  Recoverable'
  <1>1. /\ Applying(p, tx[p]) /\ ~applied /\ tx[p].edits = last /\ Target(p) \in File
        /\ Target(p) \in Untouched => Changed(Target(p))
    BY DEF Placed, Standing, KnowsText, Applying
  <1>2. /\ Recorded(tx[p]).replaced = tx[p].replaced \cup {Target(p)}
        /\ Recorded(tx[p]).edits = last /\ Recorded(tx[p]).inFlight = None
    BY <1>1 DEF Recorded, TypeOK, Journal, Target
  <1>3. Recorded(tx[p]) # NoJournal
    BY <1>2 DEF NoJournal
  <1>4. \A f \in Untouched : Original(f) \/ (Changed(f) /\ f \in Recorded(tx[p]).replaced)
    BY <1>1, <1>2 DEF Applying
  <1> QED
    BY <1>1, <1>2, <1>3, <1>4
    DEF Recoverable, Explained, Untouched, Original, Changed

LEMMA FinishEffect ==
  ASSUME TypeOK, NEW p \in Proc, Placed(p), pc[p] = "finish",
         journal' = NoJournal, UNCHANGED <<file, touched, last>>
  PROVE  Recoverable'
  <1>1. AllReplaced
    BY DEF Placed, Standing, Applying, AllReplaced, Untouched, Changed, Paths
  <1> QED
    BY <1>1 DEF Recoverable, AllReplaced

LEMMA StageSound ==
  ASSUME TypeOK, NEW p \in Proc, NEW S \in SUBSET File, NEW h \in BOOLEAN,
         Stage(p, S, h), Placed(p)
  PROVE  Placed(p)' /\ Recoverable'
  <1> DEFINE j == [NoJournal EXCEPT !.id = commands + 1, !.edits = Replacing(S, h)]
  <1>1. /\ tx'[p] = j /\ purpose'[p] = "apply" /\ pc'[p] = "recover"
        /\ touched' = {} /\ last' = Replacing(S, h) /\ applied' = FALSE
        /\ UNCHANGED disk
    BY DEF Stage, Goto, TypeOK
  <1>2. j.edits = last' /\ j.replaced = {} /\ j.inFlight = None
    BY <1>1 DEF NoJournal
  <1>3. journal = NoJournal
    BY DEF Stage, Placed, Standing
  <1>4. AllOriginal'
    BY <1>1 DEF AllOriginal, Replacing
  <1> HIDE DEF j
  <1> QED
    BY <1>1, <1>2, <1>3, <1>4
    DEF Placed, Standing, Waiting, Target, Recoverable

LEMMA BeginEffect ==
  ASSUME TypeOK, NEW p \in Proc, Placed(p), Recoverable, pc[p] = "begin",
         journal' = tx[p], UNCHANGED <<file, touched, last, applied>>
  PROVE  Recoverable'
  <1>1. Waiting(p) /\ tx[p].edits = last /\ ~applied
    BY DEF Placed, Standing
  <1> QED
    BY <1>1 DEF Recoverable, Waiting, AllOriginal, AllReplaced, Explained, Original, Untouched

LEMMA ApplySound ==
  ASSUME TypeOK, KnowsText, Sound, NEW p \in Proc, ApplyStep(p)
  PROVE  Sound'
  <1>1. SUFFICES ASSUME ~overlap PROVE Sound'
    <2>1. UNCHANGED overlap
      BY DEF ApplyStep, Stage, Leave, Begin, BeginFails, Prepare, Intend, Check, Rename, RenameMisses,
             Record, Finish, ApplyFault, Return, Succeed
    <2> QED
      BY <1>1, <2>1 DEF Sound
  <1>2. pc[p] # "idle"
    BY DEF ApplyStep, Stage, Leave, Begin, BeginFails, Prepare, Intend, Check, Rename, RenameMisses,
           Record, Finish, ApplyFault
  <1>3. Others(p) /\ Placed(p) /\ Recoverable
    BY <1>1, <1>2, OnlyOne, ApplyIsLocal
  <1>4. SUFFICES Placed(p)' /\ Recoverable'
    <2>1. Others(p)
      BY <1>3
    <2> QED
      BY <1>4, <2>1, SoundStep
  <1>5. CASE \E S \in SUBSET File, h \in BOOLEAN : Stage(p, S, h)
    BY <1>3, <1>5, StageSound
  <1>6. CASE Leave(p)
    BY <1>3, <1>6, GonePlaced, SameDisk DEF Leave, Return
  <1>7. CASE Begin(p)
    <2>1. /\ pc[p] = "begin" /\ pc'[p] = "prepare" /\ journal' = tx[p]
          /\ UNCHANGED <<file, temps, purpose, tx, user, report>>
      BY <1>7 DEF Begin, Persist, Goto, TypeOK
    <2>2. Recoverable'
      BY <1>3, <2>1, BeginEffect
    <2>3. Waiting(p) /\ tx[p].edits = last /\ ~applied /\ purpose[p] = "apply"
      BY <1>3, <2>1 DEF Placed, Standing
    <2>4. Applying(p, tx[p])' /\ Target(p)' = None
      BY <2>1, <2>3 DEF Applying, Waiting, Target, AllOriginal, Original, Untouched
    <2> QED
      BY <1>3, <2>1, <2>2, <2>3, <2>4 DEF Placed, Standing
  <1>8. CASE BeginFails(p)
    <2>1. /\ Placed(p)' /\ pc[p] = "begin"
          /\ UNCHANGED <<file, temps, touched, last, applied>>
      BY <1>8, GonePlaced DEF BeginFails, Return
    <2> QED
      BY <1>3, <1>8, <2>1, SameDisk, BeginEffect DEF BeginFails
  <1>9. CASE \E f \in File : Prepare(p, f)
    <2>1. PICK f \in File : Prepare(p, f)
      BY <1>9
    <2>2. /\ pc[p] = "prepare" /\ pc'[p] = "intend" /\ f \notin tx[p].replaced
          /\ tx'[p] = [tx[p] EXCEPT !.inFlight = f]
          /\ temps' = temps \cup {<<tx[p].id, f>>}
          /\ UNCHANGED <<file, journal, purpose, user, report>>
      BY <2>1 DEF Prepare, Goto, TypeOK
    <2>3. Applying(p, tx[p]) /\ Target(p) = None
      BY <1>3, <2>2 DEF Placed, Standing
    <2>4. /\ [tx'[p] EXCEPT !.inFlight = None] = tx[p]
          /\ tx'[p].edits = tx[p].edits /\ tx'[p].replaced = tx[p].replaced
          /\ tx'[p].id = tx[p].id /\ tx'[p].inFlight = f
      BY <2>2, <2>3 DEF TypeOK, Journal, Target
    <2>5. Applying(p, [tx[p] EXCEPT !.inFlight = None])'
      <3>1. journal = tx[p] /\ purpose[p] = "apply" /\ tx[p].edits = last
        BY <2>3 DEF Applying
      <3>2. \A g \in Untouched : IF g \in tx[p].replaced THEN Changed(g) ELSE Original(g)
        BY <2>3, NoneIsNoFile, EditsAreTyped DEF Applying, TypeOK, Untouched
      <3>3. /\ Untouched' = Untouched
            /\ \A g \in Untouched : (Changed(g)' <=> Changed(g)) /\ (Original(g)' <=> Original(g))
        BY <2>2 DEF Untouched, Original, Changed
      <3>4. /\ journal' = [tx'[p] EXCEPT !.inFlight = None]
            /\ purpose'[p] = "apply" /\ tx'[p].edits = last'
        BY <2>2, <2>4, <3>1
      <3>5. \A g \in Untouched' :
              IF g \in tx'[p].replaced THEN Changed(g)' ELSE Original(g)' \/ g = Target(p)'
        BY <2>4, <3>2, <3>3
      <3> QED
        BY <3>4, <3>5 DEF Applying
    <2>6. Temp(tx[p])' \in temps' /\ Target(p)' = f
      BY <2>2, <2>4 DEF Temp, Target
    <2>7. f \in Untouched => Original(f)
      BY <2>2, <2>3, NoneIsNoFile DEF Applying
    <2>8. Target(p)' \in Untouched' => Original(Target(p))'
      BY <2>2, <2>6, <2>7 DEF Untouched, Original
    <2>9. ToRecover(journal)' = ToRecover(journal)
      BY <2>2, <2>3 DEF Applying, ToRecover, Target
    <2>10. Recoverable'
      BY <1>3, <2>2, <2>9
      DEF Recoverable, AllReplaced, AllOriginal, Explained, Untouched, Original, Changed
    <2> QED
      BY <1>3, <2>2, <2>4, <2>5, <2>6, <2>8, <2>10 DEF Placed, Standing, Applying
  <1>10. CASE Intend(p)
    <2>1. /\ pc[p] = "intend" /\ pc'[p] = "check" /\ journal' = tx[p]
          /\ UNCHANGED <<file, temps, purpose, tx, user, report>>
      BY <1>10 DEF Intend, Persist, Goto, TypeOK
    <2>2. Recoverable'
      BY <1>3, <2>1, IntendEffect
    <2> QED
      BY <1>3, <2>1, <2>2
      DEF Placed, Standing, Applying, Target, Temp, Untouched, Original, Changed
  <1>11. CASE Check(p)
    <2>1. pc[p] = "check" /\ UNCHANGED <<disk, tx, user, report>>
      BY <1>11 DEF Check, Rollback
    <2>2. Recoverable' /\ Applying(p, tx[p])
      BY <1>3, <2>1, SameDisk DEF Placed, Standing
    <2>3. \/ pc'[p] = "rename" /\ UNCHANGED purpose
          \/ pc'[p] = "recover" /\ purpose'[p] = "rollback"
      BY <1>11 DEF Check, Goto, Rollback, TypeOK
    <2> QED
      BY <1>3, <2>1, <2>2, <2>3
      DEF Placed, Standing, Applying, Target, Temp, Untouched, Original, Changed
  <1>12. CASE Rename(p)
    <2>1. /\ pc[p] = "rename" /\ pc'[p] = "record" /\ Replaced(p)
          /\ UNCHANGED <<journal, purpose, tx, user, report>>
      BY <1>12 DEF Rename, Goto, TypeOK
    <2>2. /\ Recoverable'
          /\ \A f \in Untouched : /\ Changed(f) => Changed(f)'
                                  /\ f # Target(p) /\ Original(f) => Original(f)'
                                  /\ f = Target(p) => Changed(f)'
      BY <1>3, <2>1, RenameEffect
    <2>3. Applying(p, tx[p])
      BY <1>3, <2>1 DEF Placed, Standing
    <2>4. Untouched' = Untouched /\ Target(p)' = Target(p) /\ UNCHANGED <<last, tx>>
      BY <2>1 DEF Untouched, Target
    <2>5. Applying(p, tx[p])'
      BY <2>1, <2>2, <2>3, <2>4 DEF Applying
    <2>6. Target(p)' \in Untouched' => Changed(Target(p))'
      BY <2>2, <2>4 DEF Changed
    <2>7. Temp(tx[p])' \notin temps'
      BY <2>1 DEF Replaced, Temp
    <2> QED
      BY <1>3, <2>1, <2>2, <2>5, <2>6, <2>7 DEF Placed, Standing, Applying
  <1>16. CASE RenameMisses(p)
    <2>1. /\ pc[p] = "rename" /\ pc'[p] = "recover" /\ purpose'[p] = "rollback"
          /\ UNCHANGED <<disk, tx, user, report>>
      BY <1>16 DEF RenameMisses, Rollback, Goto, TypeOK
    <2>2. Recoverable' /\ ~applied
      BY <1>3, <2>1, SameDisk DEF Placed, Standing, Applying
    <2> QED
      BY <2>1, <2>2 DEF Placed, Standing
  <1>13. CASE Record(p)
    <2>1. /\ pc[p] = "record" /\ tx'[p] = Recorded(tx[p]) /\ journal' = Recorded(tx[p])
          /\ \/ pc'[p] = "finish" /\ Recorded(tx[p]).replaced = Paths(tx[p])
             \/ pc'[p] = "prepare"
          /\ UNCHANGED <<file, temps, purpose, user, report>>
      BY <1>13 DEF Record, Goto, TypeOK
    <2>2. Recoverable'
      BY <1>3, <2>1, RecordEffect
    <2>3. /\ Applying(p, tx[p])
          /\ Target(p) \in Untouched => Changed(Target(p))
      BY <1>3, <2>1 DEF Placed, Standing
    <2>4. /\ tx'[p].replaced = tx[p].replaced \cup {Target(p)}
          /\ tx'[p].edits = tx[p].edits /\ tx'[p].inFlight = None
      BY <2>1 DEF Recorded, TypeOK, Journal, Target
    <2>5. Applying(p, tx[p])' /\ Target(p)' = None
      BY <2>1, <2>3, <2>4 DEF Applying, Target, Untouched, Original, Changed
    <2> QED
      BY <1>3, <2>1, <2>2, <2>4, <2>5 DEF Placed, Standing, Applying, Paths
  <1>14. CASE Finish(p)
    BY <1>3, <1>14, FinishEffect, GonePlaced DEF Finish, Succeed
  <1>15. CASE ApplyFault(p)
    <2>1. /\ pc'[p] = "recover" /\ purpose'[p] = "rollback"
          /\ UNCHANGED <<tx, recovery, user, report>>
      BY <1>15 DEF ApplyFault, Rollback, Goto, TypeOK
    <2>2. ~applied
      BY <1>3, <1>15 DEF ApplyFault, Placed, Standing, Applying
    <2>3. Placed(p)'
      BY <2>1, <2>2 DEF Placed, Standing
    <2>4. CASE UNCHANGED disk
      BY <1>3, <2>1, <2>3, <2>4, SameDisk
    <2>5. CASE pc[p] = "intend" /\ journal' = tx[p] /\ UNCHANGED <<file, temps>>
      BY <1>3, <2>1, <2>3, <2>5, IntendEffect
    <2>6. CASE pc[p] = "rename" /\ Replaced(p) /\ UNCHANGED journal
      BY <1>3, <2>1, <2>3, <2>6, RenameEffect
    <2>7. CASE pc[p] = "record" /\ journal' = Recorded(tx[p]) /\ UNCHANGED <<file, temps>>
      BY <1>3, <2>1, <2>3, <2>7, RecordEffect
    <2>8. CASE pc[p] = "finish" /\ journal' = NoJournal /\ UNCHANGED <<file, temps>>
      BY <1>3, <2>1, <2>3, <2>8, FinishEffect
    <2> QED
      BY <1>15, <2>4, <2>5, <2>6, <2>7, <2>8 DEF ApplyFault
  <1> QED
    BY <1>5, <1>6, <1>7, <1>8, <1>9, <1>10, <1>11, <1>12, <1>13, <1>14, <1>15, <1>16
    DEF ApplyStep

LEMMA CommandSound ==
  ASSUME TypeOK, Sound, NEW p \in Proc, Command(p) \/ Crash(p)
  PROVE  Sound'
  <1>1. SUFFICES ASSUME ~overlap' PROVE Sound'
    BY DEF Sound
  <1>2. ~overlap /\ (Command(p) => \A q \in Proc : pc[q] = "idle")
    <2>1. CASE Crash(p)
      <3>1. UNCHANGED overlap /\ pc[p] # "idle"
        BY <2>1 DEF Crash, Return
      <3>2. ~Command(p)
        BY <3>1 DEF Command
      <3> QED
        BY <1>1, <3>1, <3>2
    <2>2. CASE Command(p)
      <3>1. overlap' = (overlap \/ \E q \in Proc : pc[q] # "idle")
        BY <2>2 DEF Command
      <3> QED
        BY <1>1, <3>1
    <2> QED
      BY <2>1, <2>2
  <1>3. \A q \in Proc \ {p} : UNCHANGED <<pc[q], purpose[q], tx[q]>>
    BY DEF Command, Crash, Return, Gone, Goto, TypeOK
  <1>4. pc[p] # "idle" \/ \A q \in Proc : pc[q] = "idle"
    BY <1>2 DEF Crash
  <1>5. Others(p) /\ Placed(p) /\ Recoverable
    BY <1>2, <1>3, <1>4, OnlyOne
  <1>6. Recoverable'
    BY <1>5, SameDisk DEF Command, Crash, Return
  <1>7. Placed(p)'
    <2>1. CASE Command(p)
      <3>1. /\ pc'[p] = "recover" /\ purpose'[p] = "command" /\ UNCHANGED tx
            /\ pc[p] = "idle"
        BY <2>1 DEF Command, Goto, TypeOK
      <3> QED
        BY <1>5, <3>1 DEF Placed, Standing
    <2>2. CASE Crash(p)
      BY <2>2, GonePlaced DEF Crash, Return
    <2> QED
      BY <2>1, <2>2
  <1> QED
    BY <1>5, <1>6, <1>7, SoundStep

\* Where a process stands does not change while it does nothing.
LEMMA PlacedKept ==
  ASSUME TypeOK, NEW p \in Proc, Placed(p),
         UNCHANGED <<journal, temps, control, recovery, applied, last>>,
         \A f \in Untouched' : /\ f \in Untouched
                               /\ Original(f)' <=> Original(f)
                               /\ Changed(f)' <=> Changed(f),
         AllOriginal => AllOriginal'
  PROVE  Placed(p)'
  <1>1. /\ (Target(p) \in Untouched => Original(Target(p)))
             => (Target(p) \in Untouched => Original(Target(p)))'
        /\ (Target(p) \in Untouched => Changed(Target(p)))
             => (Target(p) \in Untouched => Changed(Target(p)))'
    BY DEF Target, Original, Changed
  <1>2. /\ Restored(p, File) => Restored(p, File)'
        /\ Restored(p, todo[p]) => Restored(p, todo[p])'
        /\ Restored(p, todo[p] \cup {at[p]}) => Restored(p, todo[p] \cup {at[p]})'
    BY DEF Restored
  <1>3. /\ Applying(p, tx[p]) => Applying(p, tx[p])'
        /\ Applying(p, [tx[p] EXCEPT !.inFlight = None])
             => Applying(p, [tx[p] EXCEPT !.inFlight = None])'
    BY DEF Applying, Target
  <1>4. /\ Temp(tx[p])' = Temp(tx[p]) /\ Paths(tx[p])' = Paths(tx[p])
        /\ Target(p)' = Target(p) /\ UNCHANGED <<pc, purpose, tx, rec, todo, at, journal, temps>>
    BY DEF Temp, Paths, Target
  <1>5. Standing(p)'
    <2>1. Standing(p)
      BY DEF Placed
    <2>2. CASE pc[p] \in {"idle", "recover", "staging", "begin"}
      BY <1>4, <2>1, <2>2 DEF Standing
    <2>3. CASE pc[p] \in {"probe", "compare", "verify", "restore"}
      BY <1>2, <1>4, <2>1, <2>3 DEF Standing
    <2>4. CASE pc[p] = "prepare"
      BY <1>3, <1>4, <2>1, <2>4 DEF Standing
    <2>5. CASE pc[p] = "intend"
      BY <1>1, <1>3, <1>4, <2>1, <2>5 DEF Standing
    <2>6. CASE pc[p] \in {"check", "rename"}
      BY <1>1, <1>3, <1>4, <2>1, <2>6 DEF Standing
    <2>7. CASE pc[p] = "record"
      BY <1>1, <1>3, <1>4, <2>1, <2>7 DEF Standing
    <2>8. CASE pc[p] = "finish"
      BY <1>3, <1>4, <2>1, <2>8 DEF Standing
    <2> QED
      BY <2>2, <2>3, <2>4, <2>5, <2>6, <2>7, <2>8 DEF TypeOK
  <1>6. Waiting(p) => Waiting(p)'
    BY DEF Waiting, Target
  <1> QED
    BY <1>4, <1>5, <1>6 DEF Placed

LEMMA UserWriteSound ==
  ASSUME TypeOK, Sound, NEW f \in File, UserWrites(f)
  PROVE  Sound'
  <1>1. /\ UNCHANGED <<journal, temps, control, recovery, report>>
        /\ Untouched' = Untouched \ {f}
    BY DEF UserWrites, Untouched
  <1>2. \A g \in DOMAIN last : g # f => file'[g] = file[g]
    <2>1. DOMAIN last \subseteq File
      BY EditsAreTyped DEF TypeOK
    <2> QED
      BY <2>1 DEF UserWrites, TypeOK
  <1>3. \A g \in Untouched' : /\ g \in Untouched
                              /\ Original(g)' <=> Original(g)
                              /\ Changed(g)' <=> Changed(g)
    BY <1>1, <1>2 DEF Original, Changed, Untouched
  <1>4. (AllReplaced => AllReplaced') /\ (AllOriginal => AllOriginal')
    BY <1>1, <1>3 DEF AllReplaced, AllOriginal, Untouched, Original, Changed
  <1>5. Recoverable => Recoverable'
    BY <1>1, <1>3, <1>4 DEF Recoverable, Explained, ToRecover, Temp
  <1>6. ASSUME NEW p \in Proc, Placed(p) PROVE Placed(p)'
    BY <1>1, <1>3, <1>4, <1>6, PlacedKept
  <1> QED
    BY <1>1, <1>5, <1>6 DEF Sound, Alone

LEMMA InitSound == Init => Sound
  BY NoJournalType
  DEF Init, Sound, Placed, Standing, Alone, Recoverable, AllReplaced, NoEdits

LEMMA SoundPreserved == IInv /\ [Next]_vars => IInv'
  <1> SUFFICES ASSUME IInv, [Next]_vars PROVE IInv'
    OBVIOUS
  <1>1. TextInv /\ TextInv'
    BY TextStep DEF IInv, TextInv
  <1>2. Sound /\ TypeOK /\ KnowsText
    BY DEF IInv
  <1>3. Sound'
    <2>1. ASSUME NEW p \in Proc, RecoveryStep(p) PROVE Sound'
      BY <1>2, <2>1, RecoverySound
    <2>2. ASSUME NEW p \in Proc, ApplyStep(p) PROVE Sound'
      BY <1>2, <2>2, ApplySound
    <2>3. ASSUME NEW p \in Proc, Command(p) \/ Crash(p) PROVE Sound'
      BY <1>2, <2>3, CommandSound
    <2>4. ASSUME NEW f \in File, UserWrites(f) PROVE Sound'
      BY <1>2, <2>4, UserWriteSound
    <2>5. CASE UNCHANGED vars
      <3>1. \A f : /\ f \in Untouched' <=> f \in Untouched
                   /\ Original(f)' <=> Original(f)
                   /\ Changed(f)' <=> Changed(f)
        BY <2>5 DEF Untouched, Original, Changed
      <3>2. (AllOriginal => AllOriginal') /\ (Recoverable => Recoverable')
        BY <2>5, SameDisk DEF AllOriginal
      <3>3. \A p \in Proc : Placed(p) => Placed(p)'
        BY <1>2, <2>5, <3>1, <3>2, PlacedKept
      <3> QED
        BY <1>2, <2>5, <3>2, <3>3 DEF Sound, Alone
    <2> QED
      BY <2>1, <2>2, <2>3, <2>4, <2>5, NextCases
  <1> QED
    BY <1>1, <1>3 DEF IInv, TextInv

\* The inductive invariant of the transaction: what a process about to replace a
\* file has seen, and what the journal says of the files.
THEOREM Invariance == Spec => []IInv
  <1>1. Init => IInv
    BY InitTypes, InitText, InitSound DEF IInv
  <1>2. IInv /\ [Next]_vars => IInv'
    BY SoundPreserved
  <1> QED
    BY <1>1, <1>2, PTL DEF Spec

\* After a transaction and after every recovery, whatever crashed or failed, the
\* files the user left alone are all replaced or all as they were, if commands
\* do not overlap.
THEOREM AllOrNoneReplaced == Spec => []AllOrNothing
  <1>1. IInv => AllOrNothing
    BY DEF IInv, Sound, Recoverable, AllOrNothing
  <1> QED
    BY <1>1, Invariance, PTL

\* A transaction that reports success has replaced every file the user left
\* alone, if commands do not overlap.
THEOREM SuccessMeansReplaced == Spec => []SuccessIsComplete
  <1>1. IInv => SuccessIsComplete
    BY DEF IInv, Sound, Recoverable, SuccessIsComplete
  <1> QED
    BY <1>1, Invariance, PTL
===============================================================================
