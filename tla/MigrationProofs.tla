----------------------------- MODULE MigrationProofs ---------------------------
(* The migration implements Cutover, and admits hooks to the whole history.   *)
EXTENDS Migration, TLAPS

USE SourcesAreDistinct, VersionsAreBounded, MarksAreNoData DEF Over, TypeOK, Freezing
--------------------------------------------------------------------------------
(* Data *)

LEMMA OrderFacts ==
  /\ Len(Order) \in Nat /\ DOMAIN Order = 1 .. Len(Order)
  /\ \A i \in DOMAIN Order : Order[i] \in BrainSource
  /\ Order \in Seq(BrainSource)
  /\ \A s \in BrainSource : \E i \in DOMAIN Candidates : Candidates[i] = s
  /\ BrainSource \subseteq Source /\ Review \in Source /\ Journals \in BrainSource
  <1>1. Logs \in Seq(ToSet(Logs))
    OBVIOUS
  <1>2. /\ Order \in Seq(ToSet(Logs) \cup {Journals}) /\ Len(Order) = Len(Logs) + 1
        /\ Order[Len(Order)] = Journals
    BY <1>1 DEF Order
  <1>3. Len(Order) \in Nat /\ DOMAIN Order = 1 .. Len(Order) /\ Len(Order) \in DOMAIN Order
    BY <1>1, <1>2
  <1>4. \A i \in DOMAIN Order : Order[i] \in BrainSource
    BY DEF BrainSource, ToSet
  <1>5. \A s \in BrainSource : \E i \in DOMAIN Order : Order[i] = s
    BY DEF BrainSource, ToSet
  <1>6. Order \in Seq(BrainSource)
    BY <1>2, <1>4
  <1>7. \A i \in DOMAIN Order : i \in DOMAIN Append(Order, Review) /\ Append(Order, Review)[i] = Order[i]
    BY <1>3, <1>6
  <1>8. \A s \in BrainSource : \E i \in DOMAIN Candidates : Candidates[i] = s
    BY <1>5, <1>7 DEF Candidates
  <1> QED
    BY <1>2, <1>3, <1>4, <1>6, <1>8 DEF Source

LEMMA CandidatesAreNumbered ==
  /\ \E n \in Nat : DOMAIN Candidates = 1 .. n
  /\ \A i \in DOMAIN Candidates : Candidates[i] \in Source
  <1>1. Order \in Seq(Source)
    BY OrderFacts
  <1>2. Candidates \in Seq(Source)
    BY <1>1, OrderFacts DEF Candidates
  <1> QED
    BY <1>2

LEMMA WithStatus ==
  ASSUME NEW st \in StateFile, NEW x \in Status
  PROVE  LET nx == [st EXCEPT !.status = x]
         IN /\ nx \in StateFile /\ nx.status = x /\ nx.fp = st.fp /\ nx.phase = st.phase
            /\ nx.digest = st.digest
  BY DEF StateFile

LEMMA WithFingerprints ==
  ASSUME NEW st \in StateFile, NEW x \in [BrainSource -> Nat]
  PROVE  LET nx == [st EXCEPT !.fp = x]
         IN /\ nx \in StateFile /\ nx.status = st.status /\ nx.fp = x /\ nx.phase = st.phase
            /\ nx.digest = st.digest
  BY DEF StateFile

LEMMA WithReview ==
  ASSUME NEW st \in StateFile, NEW x \in ReviewResult, NEW m \in Nat
  PROVE  LET nx == [st EXCEPT !.review = x, !.mark = m]
         IN /\ nx \in StateFile /\ nx.status = st.status /\ nx.fp = st.fp
            /\ nx.phase = st.phase /\ nx.digest = st.digest
  BY DEF StateFile

LEMMA WithPhase ==
  ASSUME NEW st \in StateFile, NEW x \in Phase
  PROVE  LET nx == [st EXCEPT !.phase = x]
         IN /\ nx \in StateFile /\ nx.status = st.status /\ nx.fp = st.fp /\ nx.phase = x
            /\ nx.digest = st.digest
  BY DEF StateFile

LEMMA WithDigest ==
  ASSUME NEW st \in StateFile, NEW x \in Phase, NEW d \in [Source -> Nat]
  PROVE  LET nx == [st EXCEPT !.phase = x, !.digest = d]
         IN /\ nx \in StateFile /\ nx.status = st.status /\ nx.fp = st.fp /\ nx.phase = x
            /\ nx.digest = d
  BY DEF StateFile

LEMMA FingerprintsAreTyped == TypeOK => Fingerprints \in [BrainSource -> Nat]
  BY OrderFacts DEF DiskTypes, Fingerprints
--------------------------------------------------------------------------------
(* Claims of a state file stay true. *)

LEMMA SoundStays ==
  ASSUME NEW st, Sound(st), TypeOK, TypeOK', st.fp \in [BrainSource -> Nat],
         \A s \in BrainSource : src[s] <= src'[s],
         frozen \subseteq frozen', sealed => sealed',
         brain.rows' = brain.rows
  PROVE  Sound(st)'
  BY OrderFacts DEF Sound, DiskTypes

\* The parts of the invariant that only read the files, the database and the state.
LEMMA ClaimsStay ==
  ASSUME IInv, TypeOK', UNCHANGED <<src, frozen, sealed, state>>,
         brain'.rows = brain.rows, brain'.row = brain.row, hook' = hook
  PROVE  StateIsSound' /\ Untouched' /\ FrozenStays' /\ MarkIsLast' /\ HookSeesMark'
  <1>1. StateIsSound'
    BY DEF IInv, StateIsSound, Sound
  <1>2. Untouched'
    BY DEF IInv, Untouched
  <1>3. FrozenStays'
    BY DEF IInv, FrozenStays, Frozen
  <1>4. MarkIsLast' /\ HookSeesMark'
    BY DEF IInv, MarkIsLast, HookSeesMark
  <1> QED
    BY <1>1, <1>2, <1>3, <1>4

\* A step to another point of the run, with nothing to be written.
LEMMA Moves ==
  ASSUME IInv, TypeOK', UNCHANGED <<src, frozen, sealed, state, temp>>,
         brain'.rows = brain.rows, brain'.row = brain.row, hook' = hook,
         goal' = None, pc' \notin {"open", "write", "rename", "import"},
         temp # None => pc' \in {"idle", "refused", "recover"},
         RunFits', FreezeIsQuiet'
  PROVE  IInv'
  <1>1. StateIsSound' /\ Untouched' /\ FrozenStays' /\ MarkIsLast' /\ HookSeesMark'
    BY ClaimsStay
  <1>2. GoalFits' /\ ImportIsCurrent'
    BY DEF GoalFits, ImportIsCurrent
  <1>3. TempFits'
    BY DEF IInv, TempFits, Sound
  <1> QED
    BY <1>1, <1>2, <1>3 DEF IInv

\* A step that sets out to replace the state.
LEMMA Replaces ==
  ASSUME IInv, TypeOK', UNCHANGED <<src, frozen, sealed, state, temp>>,
         brain'.rows = brain.rows, brain'.row = brain.row, hook' = hook,
         temp = None, state \notin {None, Torn},
         pc' = "open", goal' # None,
         Sound(goal'.next), Follows(state, goal'.next), At(goal'.then, goal'.next),
         goal'.then \in Freezing => held',
         goal'.then = "freezeDirectory" => \A s \in BrainSource : src[s] = goal'.next.digest[s]
  PROVE  IInv'
  <1>1. StateIsSound' /\ Untouched' /\ FrozenStays' /\ MarkIsLast' /\ HookSeesMark'
    BY ClaimsStay
  <1>2. GoalFits'
    BY DEF GoalFits, Sound, Follows, At
  <1>3. TempFits' /\ RunFits' /\ ImportIsCurrent'
    BY DEF TempFits, RunFits, ImportIsCurrent, At
  <1>4. FreezeIsQuiet'
    BY DEF FreezeIsQuiet
  <1> QED
    BY <1>1, <1>2, <1>3, <1>4 DEF IInv
--------------------------------------------------------------------------------
(* The processes around the coordinator *)

LEMMA LegacyWriteStep ==
  ASSUME IInv, NEW s \in Source, LegacyWrite(s)
  PROVE  IInv'
  <1>1. /\ UNCHANGED <<frozen, sealed, state, temp, stores, control, hook, crashes>>
        /\ ~held /\ ~Frozen(s)
        /\ src' = [src EXCEPT ![s] = @ + 1]
    BY DEF LegacyWrite
  <1>2. TypeOK'
    BY <1>1 DEF IInv, DiskTypes, RunTypes, stores, control
  <1>3. /\ \A x \in Source : src[x] \in Nat /\ src[x] <= src'[x]
        /\ \A x \in Source : x # s => src'[x] = src[x]
    BY <1>1 DEF IInv, DiskTypes, RunTypes
  <1>4. ASSUME NEW st \in StateFile, Sound(st) PROVE Sound(st)'
    <2>1. st.fp \in [BrainSource -> Nat]
      BY DEF StateFile
    <2> QED
      BY <1>1, <1>2, <1>3, <1>4, <2>1, OrderFacts, SoundStays DEF IInv, stores
  <1>5. StateIsSound'
    BY <1>1, <1>4 DEF IInv, DiskTypes, RunTypes, StateIsSound
  <1>6. GoalFits'
    BY <1>1, <1>4 DEF IInv, RunTypes, Goal, GoalFits, control
  <1>7. TempFits'
    BY <1>1, <1>4 DEF IInv, DiskTypes, RunTypes, TempFits, Replacement, control
  <1>8. RunFits' /\ Untouched' /\ MarkIsLast' /\ HookSeesMark'
    BY <1>1 DEF IInv, RunFits, Untouched, MarkIsLast, HookSeesMark, stores, control
  <1>9. FrozenStays'
    BY <1>1, <1>3, OrderFacts DEF IInv, FrozenStays, Frozen
  <1>10. FreezeIsQuiet'
    BY <1>1 DEF IInv, FreezeIsQuiet, control
  <1>11. ImportIsCurrent'
    <2> SUFFICES ASSUME pc' = "import", NEW i \in 1 .. seen
                 PROVE  /\ seen <= Len(Order)
                        /\ state.fp[Order[i]] <= brain.rows[Order[i]]
                        /\ brain.rows[Order[i]] <= src'[Order[i]]
      BY <1>1 DEF ImportIsCurrent, stores, control, IInv
    <2>1. pc = "import"
      BY <1>1 DEF control
    <2>2. /\ seen <= Len(Order) /\ seen \in Nat
          /\ state.fp[Order[i]] <= brain.rows[Order[i]]
          /\ brain.rows[Order[i]] <= src[Order[i]]
      BY <2>1 DEF IInv, ImportIsCurrent, RunTypes
    <2>3. Order[i] \in BrainSource /\ Order[i] \in Source
      BY <2>2, OrderFacts
    <2>4. brain.rows[Order[i]] \in Nat /\ src[Order[i]] \in Nat /\ src'[Order[i]] \in Nat
      BY <2>3, <1>2 DEF IInv, DiskTypes, RunTypes
    <2> QED
      BY <2>2, <2>3, <2>4, <1>3
  <1> QED
    BY <1>2, <1>5, <1>6, <1>7, <1>8, <1>9, <1>10, <1>11 DEF IInv

LEMMA CrashStep == ASSUME IInv, Crash PROVE IInv'
  <1>1. /\ UNCHANGED <<src, frozen, sealed, state, temp, brain, hook>>
        /\ pc' = "idle" /\ goal' = None
    BY DEF Crash, legacy, stores
  <1>2. TypeOK'
    <2>1. DiskTypes'
      BY DEF Crash, IInv, DiskTypes, legacy, stores
    <2>2. RunTypes'
      <3>1. crashes' \in 0 .. MaxCrashes
        BY DEF Crash, IInv, RunTypes
      <3>2. hook' \in {"idle", "unmanaged", "opening", "admitted"}
        BY <1>1 DEF IInv, RunTypes
      <3> QED
        BY <1>1, <3>1, <3>2 DEF Crash, RunTypes
    <2> QED
      BY <2>1, <2>2
  <1>3. RunFits' /\ FreezeIsQuiet'
    BY <1>1 DEF RunFits, FreezeIsQuiet
  <1> QED
    BY <1>1, <1>2, <1>3, Moves

LEMMA HookStep ==
  ASSUME IInv, HookLoad \/ HookLook \/ HookOpen \/ HookDone
  PROVE  IInv'
  <1>1. UNCHANGED <<legacy, state, temp, stores, control, crashes>>
    BY DEF HookLoad, HookLook, HookOpen, HookDone
  <1>2. hook' \in {"idle", "unmanaged", "opening", "admitted"}
    BY DEF HookLoad, HookLook, HookOpen, HookDone
  <1>3. TypeOK'
    BY <1>1, <1>2 DEF IInv, DiskTypes, RunTypes, legacy, stores, control
  <1>4. hook' = "admitted" => brain.row = "complete"
    BY DEF HookLoad, HookLook, HookOpen, HookDone, OpensCurrent
  <1>5. /\ StateIsSound' /\ GoalFits' /\ TempFits' /\ RunFits' /\ Untouched' /\ FrozenStays'
        /\ FreezeIsQuiet' /\ ImportIsCurrent' /\ MarkIsLast'
    BY <1>1 DEF IInv, StateIsSound, GoalFits, TempFits, RunFits, Untouched, FrozenStays, Frozen,
                FreezeIsQuiet, ImportIsCurrent, MarkIsLast, Sound, legacy, stores, control
  <1>6. HookSeesMark'
    BY <1>1, <1>4 DEF HookSeesMark, stores
  <1> QED
    BY <1>3, <1>5, <1>6 DEF IInv
--------------------------------------------------------------------------------
(* Steps shared by the phases of a run *)

LEMMA GoTypes ==
  ASSUME RunTypes, pc' \in Running \cup {"idle", "refused"}, goal' = goal \/ goal' = None,
         seen' \in Nat, held' \in BOOLEAN, hook' = hook, crashes' = crashes
  PROVE  RunTypes'
  BY DEF RunTypes

LEMMA ReplaceTypes ==
  ASSUME RunTypes, NEW k \in {"status", "rebase", "review", "freeze"}, NEW nx \in StateFile,
         NEW p \in Target, Replace(k, nx, p),
         held' \in BOOLEAN, hook' = hook, crashes' = crashes
  PROVE  /\ RunTypes' /\ goal' # None /\ pc' = "open"
         /\ goal'.next = nx /\ goal'.then = p
  <1>1. goal' = [kind |-> k, next |-> nx, then |-> p] /\ pc' = "open" /\ seen' = 0
    BY DEF Replace
  <1>2. goal' \in Goal /\ goal'.next = nx /\ goal'.then = p
    BY <1>1 DEF Goal
  <1>3. goal' # None
    BY <1>2
  <1> QED
    BY <1>1, <1>2, <1>3 DEF RunTypes, Running

LEMMA OpenTempStep == ASSUME IInv, OpenTemp PROVE IInv'
  <1>1. /\ pc = "open" /\ UNCHANGED <<src, frozen, sealed, state, brain, hook>>
        /\ UNCHANGED <<review, progress, manifest, crashes>>
    BY DEF OpenTemp, legacy, stores
  <1>2. goal # None /\ state \notin {None, Torn}
    BY <1>1 DEF IInv, GoalFits, RunFits
  <1>3. CASE temp = None
    <2>1. /\ temp' = [kind |-> goal.kind, to |-> Torn] /\ pc' = "write"
          /\ UNCHANGED <<goal, seen, held>>
      BY <1>1, <1>3 DEF OpenTemp, Go
    <2>2. temp' \in Replacement /\ temp'.to = Torn /\ temp' # None
      BY <1>2, <2>1 DEF IInv, RunTypes, Replacement, Goal
    <2>3. DiskTypes' /\ RunTypes'
      BY <1>1, <2>1, <2>2 DEF IInv, DiskTypes, RunTypes, Running
    <2>4. StateIsSound' /\ Untouched' /\ FrozenStays' /\ MarkIsLast' /\ HookSeesMark'
      BY <1>1, <2>3, ClaimsStay
    <2>5. GoalFits'
      BY <1>1, <1>2, <2>1 DEF IInv, GoalFits, Sound
    <2>6. TempFits' /\ RunFits'
      BY <1>1, <1>2, <2>1, <2>2 DEF TempFits, RunFits, At
    <2>7. FreezeIsQuiet' /\ ImportIsCurrent'
      BY <1>1, <2>1 DEF IInv, FreezeIsQuiet, ImportIsCurrent
    <2> QED
      BY <2>3, <2>4, <2>5, <2>6, <2>7 DEF IInv
  <1>4. CASE temp # None
    BY <1>1, <1>4 DEF IInv, TempFits
  <1> QED
    BY <1>3, <1>4

LEMMA WriteTempStep == ASSUME IInv, WriteTemp PROVE IInv'
  <1>1. /\ pc = "write" /\ UNCHANGED <<src, frozen, sealed, state, brain, hook>>
        /\ UNCHANGED <<review, progress, manifest, crashes>>
        /\ temp' = [temp EXCEPT !.to = goal.next] /\ pc' = "rename"
        /\ UNCHANGED <<goal, seen, held>>
    BY DEF WriteTemp, legacy, stores, Go
  <1>2. goal # None /\ temp # None /\ state \notin {None, Torn}
    BY <1>1 DEF IInv, GoalFits, TempFits, RunFits
  <1>3. goal.next \in StateFile
    BY <1>2 DEF IInv, RunTypes, Goal
  <1>4. temp' \in Replacement /\ temp'.to = goal.next
    BY <1>1, <1>2, <1>3 DEF IInv, DiskTypes, Replacement
  <1>5. DiskTypes' /\ RunTypes'
    BY <1>1, <1>4 DEF IInv, DiskTypes, RunTypes, Running
  <1>6. StateIsSound' /\ Untouched' /\ FrozenStays' /\ MarkIsLast' /\ HookSeesMark'
    BY <1>1, <1>5, ClaimsStay
  <1>7. GoalFits'
    BY <1>1, <1>2 DEF IInv, GoalFits, Sound
  <1>8. Sound(goal.next)' /\ Follows(state, goal.next)
    BY <1>1, <1>2, <1>7 DEF GoalFits
  <1>9. TempFits' /\ RunFits'
    BY <1>1, <1>2, <1>4, <1>8 DEF TempFits, RunFits, At
  <1>10. FreezeIsQuiet' /\ ImportIsCurrent'
    BY <1>1 DEF IInv, FreezeIsQuiet, ImportIsCurrent
  <1> QED
    BY <1>5, <1>6, <1>7, <1>9, <1>10 DEF IInv

\* The state is replaced by one that is sound and does not go back.
LEMMA Adopts ==
  ASSUME IInv, RunTypes', UNCHANGED <<src, frozen, sealed, brain, review, progress, manifest>>,
         hook' = hook, NEW nx \in StateFile, Sound(nx), Follows(state, nx),
         state \notin {None, Torn}, state' = nx, temp' = None, goal' = None,
         pc' \notin {"open", "write", "rename", "import", "discard", "restage", "stage",
                    "create"},
         At(pc', nx),
         pc' \in Freezing => held',
         pc' \in {"freeze", "freezeDirectory"} => \A s \in BrainSource : src[s] = nx.digest[s]
  PROVE  IInv'
  <1>1. DiskTypes'
    BY DEF IInv, DiskTypes
  <1>2. StateIsSound'
    BY DEF StateIsSound, Sound
  <1>3. GoalFits' /\ TempFits' /\ ImportIsCurrent'
    BY DEF GoalFits, TempFits, ImportIsCurrent
  <1>4. RunFits' /\ Untouched'
    BY DEF RunFits, Untouched, At
  <1>5. FrozenStays'
    BY DEF IInv, FrozenStays, Frozen, Follows
  <1>6. FreezeIsQuiet'
    BY DEF FreezeIsQuiet
  <1>7. MarkIsLast' /\ HookSeesMark'
    BY DEF IInv, MarkIsLast, HookSeesMark, Follows
  <1> QED
    BY <1>1, <1>2, <1>3, <1>4, <1>5, <1>6, <1>7 DEF IInv

LEMMA RenameTempStep == ASSUME IInv, RenameTemp PROVE IInv'
  <1>1. /\ pc = "rename" /\ UNCHANGED <<src, frozen, sealed, brain, review, progress, manifest>>
        /\ hook' = hook /\ crashes' = crashes
        /\ state' = temp.to /\ temp' = None /\ pc' = goal.then /\ goal' = None /\ seen' = seen
        /\ held' = (held /\ goal.then \notin {"validate", "idle"})
    BY DEF RenameTemp, legacy, stores
  <1>2. /\ goal # None /\ temp # None /\ state \notin {None, Torn} /\ temp.to = goal.next
        /\ Sound(goal.next) /\ Follows(state, goal.next) /\ At(goal.then, goal.next)
    BY <1>1 DEF IInv, GoalFits, TempFits, RunFits
  <1>3. goal.next \in StateFile /\ goal.then \in Target
    BY <1>2 DEF IInv, RunTypes, Goal
  <1>4. held' \in BOOLEAN
    BY <1>1 DEF IInv, RunTypes
  <1>5. RunTypes'
    BY <1>1, <1>3, <1>4 DEF IInv, RunTypes, Target, Running
  <1>6. /\ pc' \in Freezing => held'
        /\ pc' \in {"freeze", "freezeDirectory"} =>
             \A s \in BrainSource : src[s] = goal.next.digest[s]
    BY <1>1, <1>2, <1>3, <1>4 DEF IInv, FreezeIsQuiet, Target
  <1>7. pc' \notin {"open", "write", "rename", "import", "discard", "restage", "stage",
                    "create"}
    BY <1>1, <1>3 DEF Target
  <1> QED
    BY <1>1, <1>2, <1>3, <1>5, <1>6, <1>7, Adopts DEF IInv

LEMMA ExitStep == ASSUME IInv, Exit PROVE IInv'
  <1>1. /\ UNCHANGED <<src, frozen, sealed, state, temp, brain, review, progress, manifest, hook>>
        /\ pc' = "idle" /\ UNCHANGED <<goal, seen, held, crashes>> /\ pc = "refused"
    BY DEF Exit, Go, legacy, stores
  <1>2. goal = None
    BY <1>1 DEF IInv, GoalFits
  <1>3. DiskTypes'
    BY <1>1 DEF IInv, DiskTypes
  <1>4. seen' \in Nat /\ held' \in BOOLEAN
    BY <1>1 DEF IInv, RunTypes
  <1>5. RunTypes'
    BY <1>1, <1>4, GoTypes DEF IInv
  <1>6. RunFits' /\ FreezeIsQuiet'
    BY <1>1, <1>2 DEF RunFits, FreezeIsQuiet
  <1> QED
    BY <1>1, <1>2, <1>3, <1>5, <1>6, Moves

\* Wherever it stands, a run may refuse to go on.
LEMMA Refuses ==
  ASSUME IInv, Refuse, UNCHANGED <<src, frozen, sealed, state, temp, brain, review, progress,
                                   manifest, hook, crashes>>
  PROVE  IInv'
  <1>1. pc' = "refused" /\ goal' = None /\ seen' = 0 /\ held' = FALSE
    BY DEF Refuse
  <1>2. DiskTypes' /\ RunTypes'
    <2>1. DiskTypes'
      BY DEF IInv, DiskTypes
    <2>2. RunTypes'
      BY <1>1, GoTypes DEF IInv
    <2> QED
      BY <2>1, <2>2
  <1>3. RunFits' /\ FreezeIsQuiet'
    BY <1>1 DEF RunFits, FreezeIsQuiet
  <1> QED
    BY <1>1, <1>2, <1>3, Moves

\* A step of the run that writes nothing the invariant speaks of.
LEMMA Goes ==
  ASSUME IInv, DiskTypes', UNCHANGED <<src, frozen, sealed, state, temp, hook, crashes>>,
         brain'.rows = brain.rows, brain'.row = brain.row,
         goal = None, goal' = None, seen' \in Nat, held' \in BOOLEAN,
         pc' \in Running \ {"open", "write", "rename", "import", "create", "freeze",
                            "freezeDirectory"},
         pc' \in Freezing => held',
         temp # None => pc' = "recover",
         state \notin {None, Torn}, At(pc', state),
         pc' \in {"discard", "restage"} => brain'.place = "staging",
         pc' = "stage" => brain'.place \in {"none", "staging"}
  PROVE  IInv'
  <1>1. RunTypes'
    BY GoTypes DEF IInv
  <1>2. RunFits' /\ FreezeIsQuiet'
    BY DEF RunFits, FreezeIsQuiet, At
  <1> QED
    BY <1>1, <1>2, Moves

LEMMA StartStep == ASSUME IInv, Start PROVE IInv'
  <1>1. /\ UNCHANGED <<src, frozen, sealed, state, temp, brain, review, progress, manifest, hook>>
        /\ crashes' = crashes /\ pc = "idle"
    BY DEF Start, legacy, stores
  <1>2. goal = None
    BY <1>1 DEF IInv, GoalFits
  <1>3. DiskTypes'
    BY <1>1 DEF IInv, DiskTypes
  <1>4. CASE state = None
    <2>1. pc' = "create" /\ held' = TRUE /\ UNCHANGED <<goal, seen>>
      BY <1>4 DEF Start
    <2>2. RunTypes'
      BY <1>1, <2>1, GoTypes DEF IInv, RunTypes, Running
    <2>3. temp = None
      BY <1>4 DEF IInv, TempFits
    <2>4. RunFits' /\ FreezeIsQuiet'
      BY <1>1, <1>2, <1>4, <2>1 DEF RunFits, FreezeIsQuiet
    <2> QED
      BY <1>1, <1>2, <1>3, <2>1, <2>2, <2>3, <2>4, Moves
  <1>5. CASE state = Torn
    <2>1. Refuse
      BY <1>5 DEF Start
    <2> QED
      BY <1>1, <2>1, Refuses
  <1>6. CASE state # None /\ state # Torn
    <2>1. pc' = "recover" /\ UNCHANGED <<goal, seen, held>>
      BY <1>6 DEF Start, Go
    <2>2. seen' \in Nat /\ held' \in BOOLEAN
      BY <2>1 DEF IInv, RunTypes
    <2> QED
      BY <1>1, <1>2, <1>3, <1>6, <2>1, <2>2, Goes DEF Running, At
  <1> QED
    BY <1>4, <1>5, <1>6

LEMMA CreateStateStep == ASSUME IInv, CreateState PROVE IInv'
  <1>1. /\ UNCHANGED <<src, frozen, sealed, temp, brain, review, progress, manifest, hook>>
        /\ crashes' = crashes /\ pc = "create" /\ UNCHANGED <<goal, seen>>
    BY DEF CreateState, legacy, stores
  <1>2. goal = None /\ state \in {None, Torn} /\ temp = None /\ frozen = {} /\ ~sealed
        /\ brain.row # "complete"
    BY <1>1 DEF IInv, GoalFits, TempFits, RunFits, Untouched
  <1>3. CASE state = None
    <2>1. state' = Torn /\ pc' = "create" /\ held' = held
      BY <1>1, <1>3 DEF CreateState
    <2>2. DiskTypes' /\ RunTypes'
      <3>1. DiskTypes'
        BY <1>1, <2>1 DEF IInv, DiskTypes
      <3>2. RunTypes'
        BY <1>1, <2>1 DEF IInv, RunTypes
      <3> QED
        BY <3>1, <3>2
    <2>3. StateIsSound' /\ GoalFits' /\ TempFits' /\ RunFits' /\ Untouched' /\ FreezeIsQuiet'
          /\ ImportIsCurrent'
      BY <1>1, <1>2, <2>1 DEF StateIsSound, GoalFits, TempFits, RunFits, Untouched,
                              FreezeIsQuiet, ImportIsCurrent
    <2>4. FrozenStays' /\ MarkIsLast' /\ HookSeesMark'
      BY <1>1, <1>2 DEF IInv, FrozenStays, Frozen, MarkIsLast, HookSeesMark
    <2> QED
      BY <2>2, <2>3, <2>4 DEF IInv
  <1>4. CASE state # None
    <2>1. /\ state' = [status |-> "building", fp |-> Fingerprints,
                       review |-> "pending", mark |-> 0, phase |-> "pending",
                       digest |-> [s \in Source |-> 0]]
          /\ pc' = "recover" /\ held' = FALSE
      BY <1>1, <1>4 DEF CreateState
    <2>2. state' \in StateFile
      BY <2>1, FingerprintsAreTyped DEF IInv, StateFile, Status, Phase, ReviewResult
    <2>3. DiskTypes' /\ RunTypes'
      <3>1. DiskTypes'
        BY <1>1, <2>2 DEF IInv, DiskTypes
      <3>2. RunTypes'
        BY <1>1, <2>1 DEF IInv, RunTypes, Running
      <3> QED
        BY <3>1, <3>2
    <2>4. StateIsSound'
      BY <1>1, <2>1, OrderFacts DEF IInv, DiskTypes, StateIsSound, Sound, Fingerprints
    <2>5. GoalFits' /\ TempFits' /\ RunFits' /\ Untouched' /\ FreezeIsQuiet' /\ ImportIsCurrent'
      BY <1>1, <1>2, <2>1, <2>2 DEF GoalFits, TempFits, RunFits, Untouched, At,
                              FreezeIsQuiet, ImportIsCurrent
    <2>6. FrozenStays' /\ MarkIsLast' /\ HookSeesMark'
      BY <1>1, <1>2 DEF IInv, FrozenStays, Frozen, MarkIsLast, HookSeesMark
    <2> QED
      BY <2>3, <2>4, <2>5, <2>6 DEF IInv
  <1> QED
    BY <1>3, <1>4

LEMMA RecoverStep == ASSUME IInv, Recover PROVE IInv'
  <1>1. /\ UNCHANGED <<src, frozen, sealed, brain, review, progress, manifest, hook>>
        /\ crashes' = crashes /\ pc = "recover"
    BY DEF Recover, legacy, stores
  <1>2. goal = None /\ state \notin {None, Torn} /\ state \in StateFile
    BY <1>1 DEF IInv, GoalFits, RunFits, DiskTypes
  <1>3. ASSUME Refuse /\ UNCHANGED <<state, temp>> PROVE IInv'
    BY <1>1, <1>3, Refuses
  <1>4. ASSUME NEW st \in StateFile
        PROVE  /\ AfterRecovery(st) \in {"rebase", "validate"}
               /\ At(AfterRecovery(st), st)
    BY DEF AfterRecovery, At
  <1>5. CASE temp = None
    <2>1. Go(AfterRecovery(state)) /\ UNCHANGED <<state, temp>>
      BY <1>1, <1>5 DEF Recover
    <2>2. pc' \in {"rebase", "validate"} /\ At(pc', state) /\ UNCHANGED <<goal, seen, held>>
      BY <1>2, <1>4, <2>1 DEF Go
    <2>3. DiskTypes' /\ seen' \in Nat /\ held' \in BOOLEAN
      BY <1>1, <2>1, <2>2 DEF IInv, DiskTypes, RunTypes
    <2> QED
      BY <1>1, <1>2, <1>5, <2>1, <2>2, <2>3, Goes DEF Running
  <1>6. CASE temp # None /\ temp.to = Torn
    BY <1>1, <1>3, <1>6 DEF Recover
  <1>7. CASE temp # None /\ temp.to # Torn /\ Rebuilt
    <2>1. CASE Unmoved /\ brain.place = "staging" /\ brain.row = "in_progress"
      <3>1. temp' = None /\ pc' = "discard" /\ UNCHANGED <<goal, seen, held, state>>
        BY <1>1, <1>7, <2>1 DEF Recover, Go
      <3>2. DiskTypes'
        BY <1>1, <3>1 DEF IInv, DiskTypes
      <3>3. RunTypes'
        BY <1>1, <3>1 DEF IInv, RunTypes, Running
      <3>4. StateIsSound' /\ Untouched' /\ FrozenStays' /\ MarkIsLast' /\ HookSeesMark'
        BY <1>1, <3>1, <3>2, <3>3, ClaimsStay
      <3>5. GoalFits' /\ TempFits' /\ FreezeIsQuiet' /\ ImportIsCurrent'
        BY <1>2, <3>1 DEF GoalFits, TempFits, FreezeIsQuiet, ImportIsCurrent
      <3>6. RunFits'
        BY <1>1, <1>2, <1>7, <2>1, <3>1 DEF RunFits, At, Rebuilt
      <3> QED
        BY <3>2, <3>3, <3>4, <3>5, <3>6 DEF IInv
    <2>2. CASE ~(Unmoved /\ brain.place = "staging" /\ brain.row = "in_progress")
      BY <1>1, <1>3, <1>7, <2>2 DEF Recover
    <2> QED
      BY <2>1, <2>2
  <1>8. CASE temp # None /\ temp.to # Torn /\ ~Rebuilt
    <2>1. CASE Evidence
      <3>1. state' = temp.to /\ temp' = None /\ pc' = AfterRecovery(temp.to)
            /\ UNCHANGED <<goal, seen, held>>
        BY <1>1, <1>8, <2>1 DEF Recover, Go
      <3>2. PICK nx \in StateFile : nx = temp.to
        BY <1>8 DEF IInv, DiskTypes, Replacement
      <3>3. Sound(nx) /\ Follows(state, nx)
        BY <1>8, <3>2 DEF IInv, TempFits
      <3>4. pc' \in {"rebase", "validate"} /\ At(pc', nx)
        BY <1>4, <3>1, <3>2
      <3>5. RunTypes'
        BY <1>1, <3>1, <3>4 DEF IInv, RunTypes, Running
      <3> QED
        BY <1>1, <1>2, <3>1, <3>2, <3>3, <3>4, <3>5, Adopts
    <2>2. CASE ~Evidence
      BY <1>1, <1>3, <1>8, <2>2 DEF Recover
    <2> QED
      BY <2>1, <2>2
  <1> QED
    BY <1>5, <1>6, <1>7, <1>8

\* At a point of the run there is a state, nothing is being replaced, and from
\* "rebase" on no replacement is pending.
LEMMA Standing ==
  ASSUME IInv, pc \notin {"idle", "refused", "create", "open", "write", "rename"}
  PROVE  /\ goal = None /\ state \notin {None, Torn} /\ state \in StateFile
         /\ Sound(state) /\ At(pc, state)
         /\ pc # "recover" => temp = None
         /\ seen \in Nat /\ held \in BOOLEAN
  BY DEF IInv, GoalFits, RunFits, TempFits, StateIsSound, DiskTypes, RunTypes

\* The run sets out to replace the state by nx.
LEMMA SetsOut ==
  ASSUME IInv, DiskTypes', UNCHANGED <<src, frozen, sealed, state, temp, hook, crashes>>,
         brain'.rows = brain.rows, brain'.row = brain.row,
         state \notin {None, Torn}, temp = None, held' \in BOOLEAN,
         NEW k \in {"status", "rebase", "review", "freeze"}, NEW nx \in StateFile,
         NEW p \in Target, Replace(k, nx, p),
         Sound(nx), Follows(state, nx), At(p, nx),
         p \in Freezing => held',
         p = "freezeDirectory" => \A s \in BrainSource : src[s] = nx.digest[s]
  PROVE  IInv'
  <1>1. RunTypes' /\ goal' # None /\ pc' = "open" /\ goal'.next = nx /\ goal'.then = p
    BY ReplaceTypes DEF IInv
  <1> QED
    BY <1>1, Replaces

LEMMA RebaseStep == ASSUME IInv, Rebase PROVE IInv'
  <1>1. /\ UNCHANGED <<src, frozen, sealed, state, temp, brain, review, progress, manifest, hook>>
        /\ crashes' = crashes /\ pc = "rebase"
    BY DEF Rebase, legacy, stores
  <1>2. DiskTypes'
    BY <1>1 DEF IInv, DiskTypes
  <1>3. /\ goal = None /\ state \notin {None, Torn} /\ state \in StateFile
        /\ Sound(state) /\ state.status = "building" /\ temp = None
        /\ seen \in Nat /\ held \in BOOLEAN
    BY <1>1, Standing DEF At
  <1>4. CASE brain.place \notin {"none", "staging"}
    BY <1>1, <1>4, Refuses DEF Rebase
  <1>5. CASE brain.place \in {"none", "staging"} /\ Unmoved
    <2>1. pc' = "validate" /\ UNCHANGED <<goal, seen, held>>
      BY <1>5 DEF Rebase, Go
    <2> QED
      BY <1>1, <1>2, <1>3, <2>1, Goes DEF Running, At
  <1>6. CASE brain.place \in {"none", "staging"} /\ ~Unmoved
    <2> DEFINE nx == [state EXCEPT !.fp = Fingerprints]
    <2>1. \/ Refuse
          \/ Replace("rebase", nx, "validate") /\ held' = TRUE
      BY <1>6 DEF Rebase
    <2>2. Fingerprints \in [BrainSource -> Nat] /\ \A s \in BrainSource : Fingerprints[s] <= src[s]
      BY FingerprintsAreTyped, OrderFacts DEF IInv, DiskTypes, Fingerprints
    <2>3. /\ nx \in StateFile /\ nx.status = state.status /\ nx.fp = Fingerprints
          /\ nx.phase = state.phase /\ nx.digest = state.digest
      BY <1>3, <2>2, WithFingerprints
    <2> HIDE DEF nx
    <2>4. Sound(nx) /\ Follows(state, nx) /\ At("validate", nx)
      BY <1>3, <2>2, <2>3 DEF Sound, Follows, At
    <2>5. CASE Refuse
      BY <1>1, <2>5, Refuses
    <2>6. CASE Replace("rebase", nx, "validate") /\ held' = TRUE
      BY <1>1, <1>2, <1>3, <2>3, <2>4, <2>6, SetsOut DEF Target
    <2> QED
      BY <2>1, <2>5, <2>6
  <1> QED
    BY <1>4, <1>5, <1>6

LEMMA ValidateStep == ASSUME IInv, Validate PROVE IInv'
  <1>1. /\ UNCHANGED <<src, frozen, sealed, state, temp, brain, review, progress, manifest, hook>>
        /\ crashes' = crashes /\ pc = "validate"
    BY DEF Validate, legacy, stores
  <1>2. DiskTypes'
    BY <1>1 DEF IInv, DiskTypes
  <1>3. /\ goal = None /\ state \notin {None, Torn} /\ state \in StateFile
        /\ temp = None /\ seen \in Nat /\ held \in BOOLEAN
    BY <1>1, Standing
  <1>4. CASE ~Valid
    BY <1>1, <1>4, Refuses DEF Validate
  <1>5. CASE Valid
    <2>1. pc' = AfterValidation /\ UNCHANGED <<goal, seen, held>>
      BY <1>5 DEF Validate, Go
    <2>2. state.status \in Status
      BY <1>3 DEF StateFile
    <2>3. CASE state.status = "complete"
      <3>1. pc' = "idle"
        BY <2>1, <2>3 DEF AfterValidation
      <3>2. RunTypes'
        BY <1>1, <1>3, <2>1, <3>1, GoTypes DEF IInv
      <3>3. RunFits' /\ FreezeIsQuiet'
        BY <1>3, <2>1, <3>1 DEF RunFits, FreezeIsQuiet
      <3> QED
        BY <1>1, <1>2, <1>3, <2>1, <3>1, <3>2, <3>3, Moves
    <2>4. CASE state.status = "building"
      <3>1. brain.place \in {"none", "staging"}
        BY <1>5, <2>4 DEF Valid, PresenceFits
      <3>2. pc' = IF brain.place = "staging" THEN "restage" ELSE "stage"
        BY <2>1, <2>4 DEF AfterValidation
      <3>3. At(pc', state) /\ pc' \in {"restage", "stage"}
        BY <2>4, <3>2 DEF At
      <3> QED
        BY <1>1, <1>2, <1>3, <2>1, <3>1, <3>2, <3>3, Goes DEF Running
    <2>5. CASE state.status \in {"verified", "published", "legacyFrozen"}
      <3>1. /\ pc' \in {"republish", "freezeGuard", "review", "completeRow"}
            /\ pc' = "republish" => state.status = "verified"
            /\ pc' \in {"freezeGuard", "review"} => state.status = "published"
            /\ pc' = "completeRow" => state.status = "legacyFrozen"
        BY <2>1, <2>5 DEF AfterValidation
      <3>2. At(pc', state)
        BY <3>1 DEF At
      <3> QED
        BY <1>1, <1>2, <1>3, <2>1, <3>1, <3>2, Goes DEF Running
    <2> QED
      BY <2>2, <2>3, <2>4, <2>5 DEF Status
  <1> QED
    BY <1>4, <1>5
--------------------------------------------------------------------------------
(* The Brain database *)

\* While the state is "building" no claim speaks of the database.
LEMMA Builds ==
  ASSUME IInv, DiskTypes', RunTypes', UNCHANGED <<src, frozen, sealed, state, temp, hook>>,
         state \notin {None, Torn}, state.status = "building", temp = None,
         goal = None, goal' = None, pc' \in {"rebase", "stage", "import"},
         brain.row # "complete" => brain'.row # "complete",
         pc' = "import" => brain'.place = "staging",
         pc' = "stage" => brain'.place \in {"none", "staging"},
         ImportIsCurrent'
  PROVE  IInv' /\ brain.row # "complete"
  <1>1. brain.row # "complete" /\ hook # "admitted"
    BY DEF IInv, MarkIsLast, HookSeesMark
  <1>2. StateIsSound'
    BY DEF IInv, StateIsSound, Sound
  <1>3. GoalFits' /\ TempFits' /\ FreezeIsQuiet'
    BY DEF GoalFits, TempFits, FreezeIsQuiet
  <1>4. RunFits' /\ Untouched'
    BY DEF RunFits, Untouched, At
  <1>5. FrozenStays'
    BY DEF IInv, FrozenStays, Frozen
  <1>6. MarkIsLast' /\ HookSeesMark'
    BY <1>1 DEF MarkIsLast, HookSeesMark
  <1> QED
    BY <1>1, <1>2, <1>3, <1>4, <1>5, <1>6 DEF IInv

LEMMA DiscardStep == ASSUME IInv, Discard PROVE IInv'
  <1>1. /\ UNCHANGED <<src, frozen, sealed, state, temp, review, progress, manifest, hook>>
        /\ crashes' = crashes /\ pc \in {"discard", "restage"} /\ brain' = NoBrain
        /\ pc' \in {"rebase", "stage"} /\ UNCHANGED <<goal, seen, held>>
    BY DEF Discard, legacy, Go
  <1>2. /\ goal = None /\ state \notin {None, Torn} /\ state.status = "building"
        /\ temp = None /\ seen \in Nat /\ held \in BOOLEAN
    BY <1>1, Standing DEF At
  <1>3. DiskTypes'
    BY <1>1 DEF IInv, DiskTypes, NoBrain
  <1>4. RunTypes'
    BY <1>1, <1>2, GoTypes DEF IInv, Running
  <1>5. ImportIsCurrent'
    BY <1>1 DEF ImportIsCurrent
  <1>6. brain'.row # "complete" /\ brain'.place = "none"
    BY <1>1 DEF NoBrain
  <1> QED
    BY <1>1, <1>2, <1>3, <1>4, <1>5, <1>6, Builds

LEMMA StageStep == ASSUME IInv, Stage PROVE IInv'
  <1>1. /\ UNCHANGED <<src, frozen, sealed, state, temp, review, progress, manifest, hook>>
        /\ crashes' = crashes /\ pc = "stage"
    BY DEF Stage, legacy
  <1>2. /\ goal = None /\ state \notin {None, Torn} /\ state.status = "building"
        /\ temp = None /\ seen \in Nat /\ held \in BOOLEAN
    BY <1>1, Standing DEF At
  <1>3. brain.place \in {"none", "staging"}
    BY <1>1 DEF IInv, RunFits
  <1>4. CASE brain.place = "none"
    <2>1. brain' = [NoBrain EXCEPT !.place = "staging"] /\ pc' = "stage"
          /\ UNCHANGED <<goal, seen, held>>
      BY <1>1, <1>4 DEF Stage, Go
    <2>2. DiskTypes'
      BY <1>1, <2>1 DEF IInv, DiskTypes, NoBrain
    <2>3. RunTypes'
      BY <1>1, <1>2, <2>1, GoTypes DEF IInv, Running
    <2>4. ImportIsCurrent'
      BY <2>1 DEF ImportIsCurrent
    <2>5. brain'.row # "complete" /\ brain'.place = "staging"
      BY <2>1 DEF NoBrain
    <2> QED
      BY <1>1, <1>2, <2>1, <2>2, <2>3, <2>4, <2>5, Builds
  <1>5. CASE brain.place = "staging"
    <2>1. brain' = [brain EXCEPT !.row = "in_progress"] /\ pc' = "import" /\ seen' = 0
          /\ UNCHANGED <<goal, held>>
      BY <1>1, <1>5 DEF Stage
    <2>2. DiskTypes' /\ brain'.row = "in_progress" /\ brain'.place = "staging"
      BY <1>1, <1>5, <2>1 DEF IInv, DiskTypes
    <2>3. RunTypes'
      BY <1>1, <1>2, <2>1, GoTypes DEF IInv, Running
    <2>4. ImportIsCurrent'
      BY <2>1, OrderFacts DEF ImportIsCurrent
    <2> QED
      BY <1>1, <1>2, <2>1, <2>2, <2>3, <2>4, Builds
  <1> QED
    BY <1>3, <1>4, <1>5

LEMMA ImportStep == ASSUME IInv, Import PROVE IInv'
  <1>1. /\ UNCHANGED <<src, frozen, sealed, state, temp, review, progress, manifest, hook>>
        /\ crashes' = crashes /\ pc = "import" /\ pc' = pc /\ UNCHANGED <<goal, held>>
        /\ seen < Len(Order) /\ seen' = seen + 1
    BY DEF Import, legacy
  <1>2. /\ goal = None /\ state \notin {None, Torn} /\ state \in StateFile /\ Sound(state)
        /\ state.status = "building" /\ temp = None /\ seen \in Nat /\ held \in BOOLEAN
    BY <1>1, Standing DEF At
  <1>3. PICK s \in BrainSource : s = Order[seen + 1]
    BY <1>1, <1>2, OrderFacts
  <1>4. brain' = [brain EXCEPT !.rows[s] = src[s]]
    BY <1>3 DEF Import
  <1>5. DiskTypes' /\ brain'.row = brain.row /\ brain'.place = brain.place
    BY <1>1, <1>4, OrderFacts DEF IInv, DiskTypes
  <1>6. /\ brain'.rows[s] = src[s]
        /\ \A x \in BrainSource : x # s => brain'.rows[x] = brain.rows[x]
    BY <1>4 DEF IInv, DiskTypes
  <1>7. RunTypes'
    BY <1>1, <1>2, GoTypes DEF IInv, Running
  <1>8. \A x \in BrainSource : state.fp[x] <= src[x] /\ src[x] \in Nat
    BY <1>2, OrderFacts DEF Sound, IInv, DiskTypes
  <1>9. ASSUME NEW i \in 1 .. (seen + 1)
        PROVE  state.fp[Order[i]] <= brain'.rows[Order[i]] /\ brain'.rows[Order[i]] <= src[Order[i]]
    <2>1. Order[i] \in BrainSource
      BY <1>1, <1>2, OrderFacts
    <2>2. CASE Order[i] = s
      BY <1>6, <1>8, <2>1, <2>2
    <2>3. CASE Order[i] # s
      <3>1. i \in 1 .. seen
        BY <1>2, <1>3, <2>3
      <3>2. state.fp[Order[i]] <= brain.rows[Order[i]] /\ brain.rows[Order[i]] <= src[Order[i]]
        BY <1>1, <3>1 DEF IInv, ImportIsCurrent
      <3> QED
        BY <1>6, <2>1, <2>3, <3>2
    <2> QED
      BY <2>2, <2>3
  <1>10. ImportIsCurrent'
    BY <1>1, <1>2, <1>9, OrderFacts DEF ImportIsCurrent
  <1>11. brain.place = "staging"
    BY <1>1 DEF IInv, RunFits
  <1> QED
    BY <1>1, <1>2, <1>5, <1>7, <1>10, <1>11, Builds

LEMMA CompareStep == ASSUME IInv, Compare PROVE IInv'
  <1>1. /\ UNCHANGED <<src, frozen, sealed, state, temp, brain, review, progress, manifest, hook>>
        /\ crashes' = crashes /\ pc = "import" /\ seen = Len(Order)
    BY DEF Compare, legacy, stores
  <1>2. DiskTypes'
    BY <1>1 DEF IInv, DiskTypes
  <1>3. /\ goal = None /\ state \notin {None, Torn} /\ state \in StateFile
        /\ Sound(state) /\ state.status = "building" /\ temp = None
        /\ seen \in Nat /\ held \in BOOLEAN
    BY <1>1, Standing DEF At
  <1>4. CASE ~Unmoved
    BY <1>1, <1>4, Refuses DEF Compare
  <1>5. CASE Unmoved
    <2> DEFINE nx == [state EXCEPT !.status = "verified"]
    <2>1. Replace("status", nx, "publish") /\ held' = held
      BY <1>5 DEF Compare
    <2>2. /\ nx \in StateFile /\ nx.status = "verified" /\ nx.fp = state.fp
          /\ nx.phase = state.phase /\ nx.digest = state.digest
      BY <1>3, WithStatus DEF Status
    <2> HIDE DEF nx
    <2>3. ASSUME NEW s \in BrainSource PROVE brain.rows[s] = state.fp[s]
      <3>1. state.fp[s] = src[s] /\ src[s] \in Nat /\ brain.rows[s] \in Nat
        BY <1>5, OrderFacts DEF Unmoved, Fingerprints, IInv, DiskTypes
      <3>2. PICK i \in DOMAIN Order : Order[i] = s
        BY DEF BrainSource, ToSet
      <3>3. i \in 1 .. seen
        BY <1>1, <3>2, OrderFacts
      <3>4. state.fp[s] <= brain.rows[s] /\ brain.rows[s] <= src[s]
        BY <1>1, <3>2, <3>3 DEF IInv, ImportIsCurrent
      <3> QED
        BY <3>1, <3>4
    <2>4. brain.rows = state.fp
      <3>1. brain.rows \in [BrainSource -> Nat] /\ state.fp \in [BrainSource -> Nat]
        BY <1>3 DEF IInv, DiskTypes, StateFile
      <3> QED
        BY <2>3, <3>1
    <2>5. Sound(nx) /\ Follows(state, nx) /\ At("publish", nx)
      BY <1>3, <2>2, <2>4 DEF Sound, Follows, At
    <2> QED
      BY <1>1, <1>2, <1>3, <2>1, <2>2, <2>5, SetsOut DEF Target
  <1> QED
    BY <1>4, <1>5

LEMMA PublishStep == ASSUME IInv, Publish PROVE IInv'
  <1>1. /\ UNCHANGED <<src, frozen, sealed, state, temp, review, progress, manifest, hook>>
        /\ UNCHANGED <<crashes, pc, goal, seen, held>> /\ pc \in {"publish", "republish"}
        /\ brain' = [brain EXCEPT !.place = IF @ = "staging" THEN "linked" ELSE "canonical"]
    BY DEF Publish, legacy, control
  <1>2. /\ goal = None /\ state \notin {None, Torn} /\ At(pc, state)
        /\ temp = None /\ seen \in Nat /\ held \in BOOLEAN
    BY <1>1, Standing
  <1>3. PICK p \in {"linked", "canonical"} : brain' = [brain EXCEPT !.place = p]
    BY <1>1
  <1>4. brain \in [place : {"none", "staging", "linked", "canonical"},
                  row : {"new", "in_progress", "complete"},
                  rows : [BrainSource -> Nat], sidecars : BOOLEAN]
    BY DEF IInv, DiskTypes
  <1>5. /\ brain'.rows = brain.rows /\ brain'.row = brain.row
        /\ brain' \in [place : {"none", "staging", "linked", "canonical"},
                       row : {"new", "in_progress", "complete"},
                       rows : [BrainSource -> Nat], sidecars : BOOLEAN]
    BY <1>3, <1>4
  <1>6. DiskTypes'
    BY <1>1, <1>5 DEF IInv, DiskTypes
  <1> QED
    BY <1>1, <1>2, <1>5, <1>6, Goes DEF Running

LEMMA AnnounceStep == ASSUME IInv, Announce PROVE IInv'
  <1>1. /\ UNCHANGED <<src, frozen, sealed, state, temp, brain, review, progress, manifest, hook>>
        /\ crashes' = crashes /\ pc \in {"publish", "republish"}
    BY DEF Announce, legacy, stores
  <1>2. DiskTypes'
    BY <1>1 DEF IInv, DiskTypes
  <1>3. /\ goal = None /\ state \notin {None, Torn} /\ state \in StateFile
        /\ Sound(state) /\ state.status = "verified" /\ temp = None
        /\ seen \in Nat /\ held \in BOOLEAN
    BY <1>1, Standing DEF At
  <1>4. CASE pc = "republish" /\ ~Unmoved
    BY <1>1, <1>4, Refuses DEF Announce
  <1>5. CASE ~(pc = "republish" /\ ~Unmoved)
    <2> DEFINE nx == [state EXCEPT !.status = "published"]
    <2>1. Replace("status", nx, "review") /\ held' = held
      BY <1>5 DEF Announce
    <2>2. /\ nx \in StateFile /\ nx.status = "published" /\ nx.fp = state.fp
          /\ nx.phase = state.phase /\ nx.digest = state.digest
      BY <1>3, WithStatus DEF Status
    <2> HIDE DEF nx
    <2>3. Sound(nx) /\ Follows(state, nx) /\ At("review", nx)
      BY <1>3, <2>2 DEF Sound, Follows, At
    <2> QED
      BY <1>1, <1>2, <1>3, <2>1, <2>2, <2>3, SetsOut DEF Target
  <1> QED
    BY <1>4, <1>5
--------------------------------------------------------------------------------
(* The review *)

LEMMA SettleStep ==
  ASSUME IInv, DiskTypes', UNCHANGED <<src, frozen, sealed, state, temp, hook, crashes>>,
         brain' = brain, pc \notin {"idle", "refused", "create", "open", "write", "rename"},
         state.status = "published", temp = None,
         NEW x \in ReviewResult, NEW n \in Nat, Settle(x, n)
  PROVE  IInv'
  <1> DEFINE nx == [state EXCEPT !.review = x, !.mark = n]
             p == IF x \in {"building", "verified"} THEN "review" ELSE "freezeGuard"
  <1>1. Replace("review", nx, p) /\ held' = held
    BY DEF Settle
  <1>2. /\ state \notin {None, Torn} /\ state \in StateFile /\ Sound(state) /\ held \in BOOLEAN
    BY Standing
  <1>3. /\ nx \in StateFile /\ nx.status = state.status /\ nx.fp = state.fp
        /\ nx.phase = state.phase /\ nx.digest = state.digest
    BY <1>2, WithReview
  <1>4. p \in Target /\ p \in {"review", "freezeGuard"}
    BY DEF Target
  <1> HIDE DEF nx, p
  <1>5. Sound(nx) /\ Follows(state, nx) /\ At(p, nx)
    BY <1>2, <1>3, <1>4 DEF Sound, Follows, At
  <1> QED
    BY <1>1, <1>2, <1>3, <1>4, <1>5, SetsOut

LEMMA ReadReviewStep == ASSUME IInv, ReadReview PROVE IInv'
  <1>1. /\ UNCHANGED <<src, frozen, sealed, state, temp, brain, review, progress, manifest, hook>>
        /\ UNCHANGED <<crashes, goal, held>> /\ pc = "review" /\ pc' = "reviewRead"
        /\ seen' = src[Review]
    BY DEF ReadReview, legacy, stores
  <1>2. /\ goal = None /\ state \notin {None, Torn} /\ state.status = "published"
        /\ temp = None /\ held \in BOOLEAN
    BY <1>1, Standing DEF At
  <1>3. DiskTypes' /\ seen' \in Nat
    BY <1>1, OrderFacts DEF IInv, DiskTypes
  <1> QED
    BY <1>1, <1>2, <1>3, Goes DEF Running, At

LEMMA JudgeReviewStep == ASSUME IInv, JudgeReview PROVE IInv'
  <1>1. /\ UNCHANGED <<src, frozen, sealed, state, temp, brain, review, progress, manifest, hook>>
        /\ crashes' = crashes /\ pc = "reviewRead"
    BY DEF JudgeReview, legacy, stores
  <1>2. state.status = "published" /\ temp = None /\ seen \in Nat
    BY <1>1, Standing DEF At
  <1>3. DiskTypes'
    BY <1>1 DEF IInv, DiskTypes
  <1>4. PICK x \in {"unusable", "raced", "building"} : Settle(x, seen)
    BY DEF JudgeReview
  <1>5. x \in ReviewResult
    BY DEF ReviewResult
  <1> QED
    BY <1>1, <1>2, <1>3, <1>4, <1>5, SettleStep

\* A step of the review that touches only the review database.
LEMMA ReviewGoes ==
  ASSUME IInv, UNCHANGED <<src, frozen, sealed, state, temp, brain, progress, manifest, hook,
                           crashes>>,
         pc \in {"review", "reviewCreated", "reviewFilled"},
         review' \in [place : {"none", "staging", "linked", "canonical"},
                      content : {"none", "open", "empty", "full"}],
         NEW p \in {"review", "reviewCreated", "reviewFilled"}, Go(p)
  PROVE  IInv'
  <1>1. /\ goal = None /\ state \notin {None, Torn} /\ state.status = "published"
        /\ temp = None /\ held \in BOOLEAN /\ seen \in Nat
    BY Standing DEF At
  <1>2. DiskTypes'
    BY DEF IInv, DiskTypes
  <1>3. pc' = p /\ UNCHANGED <<goal, seen, held>>
    BY DEF Go
  <1> QED
    BY <1>1, <1>2, <1>3, Goes DEF Running, At

LEMMA BuildReviewStep == ASSUME IInv, BuildReview PROVE IInv'
  <1>1. /\ UNCHANGED <<src, frozen, sealed, state, temp, brain, progress, manifest, hook>>
        /\ crashes' = crashes /\ pc = "review"
    BY DEF BuildReview, legacy
  <1>2. state.status = "published" /\ temp = None /\ state \in StateFile
    BY <1>1, Standing DEF At
  <1>3. state.mark \in Nat
    BY <1>2 DEF StateFile
  <1>4. review.content \in {"none", "open", "empty", "full"}
    BY DEF IInv, DiskTypes
  <1>5. ASSUME NEW x \in {"raced", "unusable", "verified"}, Settle(x, state.mark), review' = review
        PROVE  IInv'
    <2>1. DiskTypes'
      BY <1>1, <1>5 DEF IInv, DiskTypes
    <2>2. x \in ReviewResult
      BY DEF ReviewResult
    <2> QED
      BY <1>1, <1>2, <1>3, <1>5, <2>1, <2>2, SettleStep
  <1>6. CASE \E x \in {"raced", "unusable"} : Settle(x, state.mark) /\ review' = review
    BY <1>5, <1>6
  <1>7. CASE review.content = "none" /\ review' = [place |-> "staging", content |-> "open"]
             /\ Go("reviewCreated")
    BY <1>1, <1>7, ReviewGoes
  <1>8. CASE review.content = "open" /\ Refuse /\ review' = review
    BY <1>1, <1>8, Refuses
  <1>9. CASE review.content = "empty" /\ review' = [review EXCEPT !.content = "open"]
             /\ Go("reviewFilled")
    <2>1. review' \in [place : {"none", "staging", "linked", "canonical"},
                       content : {"none", "open", "empty", "full"}]
      BY <1>9 DEF IInv, DiskTypes
    <2> QED
      BY <1>1, <1>9, <2>1, ReviewGoes
  <1>10. CASE review.content = "full" /\ Settle("verified", state.mark) /\ review' = review
    BY <1>5, <1>10
  <1> QED
    BY <1>4, <1>6, <1>7, <1>8, <1>9, <1>10 DEF BuildReview

LEMMA CloseReviewStep == ASSUME IInv, CloseReview PROVE IInv'
  <1>1. /\ UNCHANGED <<src, frozen, sealed, state, temp, brain, progress, manifest, hook>>
        /\ crashes' = crashes /\ pc \in {"reviewCreated", "reviewFilled"}
    BY DEF CloseReview, legacy
  <1>2. state.status = "published" /\ temp = None /\ state \in StateFile
    BY <1>1, Standing DEF At
  <1>3. state.mark \in Nat
    BY <1>2 DEF StateFile
  <1>4. PICK c \in {"empty", "open", "full"} : review' = [review EXCEPT !.content = c]
    BY DEF CloseReview
  <1>5. review' \in [place : {"none", "staging", "linked", "canonical"},
                     content : {"none", "open", "empty", "full"}]
    BY <1>4 DEF IInv, DiskTypes
  <1>6. CASE \E p \in {"reviewCreated", "reviewFilled"} : Go(p)
    BY <1>1, <1>5, <1>6, ReviewGoes
  <1>7. CASE Settle("verified", state.mark)
    <2>1. DiskTypes'
      BY <1>1, <1>5 DEF IInv, DiskTypes
    <2> QED
      BY <1>1, <1>2, <1>3, <1>7, <2>1, SettleStep DEF ReviewResult
  <1> QED
    BY <1>6, <1>7 DEF CloseReview

LEMMA PublishReviewStep == ASSUME IInv, PublishReview PROVE IInv'
  <1>1. /\ UNCHANGED <<src, frozen, sealed, state, temp, brain, progress, manifest, hook>>
        /\ crashes' = crashes /\ pc = "review"
    BY DEF PublishReview, legacy
  <1>2. state.status = "published" /\ temp = None /\ state \in StateFile
    BY <1>1, Standing DEF At
  <1>3. state.mark \in Nat
    BY <1>2 DEF StateFile
  <1>4. CASE review.place = "canonical"
    <2>1. Settle("published", state.mark) /\ review' = review
      BY <1>4 DEF PublishReview
    <2>2. DiskTypes'
      BY <1>1, <2>1 DEF IInv, DiskTypes
    <2> QED
      BY <1>1, <1>2, <1>3, <2>1, <2>2, SettleStep DEF ReviewResult
  <1>5. CASE review.place # "canonical"
    <2>1. PICK p \in {"linked", "canonical"} : review' = [review EXCEPT !.place = p]
      BY <1>5 DEF PublishReview
    <2>2. review' \in [place : {"none", "staging", "linked", "canonical"},
                       content : {"none", "open", "empty", "full"}]
      BY <2>1 DEF IInv, DiskTypes
    <2>3. Go("review")
      BY <1>5 DEF PublishReview
    <2> QED
      BY <1>1, <2>2, <2>3, ReviewGoes
  <1> QED
    BY <1>4, <1>5
--------------------------------------------------------------------------------
(* The freeze *)

\* The next state of the freeze differs in its phase alone.
LEMMA PhaseStep ==
  ASSUME IInv, DiskTypes', UNCHANGED <<src, frozen, sealed, state, temp, hook, crashes>>,
         brain' = brain, pc \notin {"idle", "refused", "create", "recover", "open", "write", "rename"},
         state.status = "published", state.phase # "pending",
         NEW ph \in Phase \ {"pending"}, NEW p \in Target, ReplacePhase(ph, p),
         ph \notin {"building", "ready"} =>
           \A s \in BrainSource : state.digest[s] > 0 => s \in frozen,
         ph \notin {"building", "ready", "directoryFreezing"} => sealed,
         \A st \in StateFile : st.status = "published" /\ st.phase = ph => At(p, st),
         p \in Freezing => held,
         p = "freezeDirectory" => \A s \in BrainSource : src[s] = state.digest[s]
  PROVE  IInv'
  <1> DEFINE nx == [state EXCEPT !.phase = ph]
  <1>1. Replace("freeze", nx, p) /\ held' = held
    BY DEF ReplacePhase
  <1>2. /\ state \notin {None, Torn} /\ state \in StateFile /\ Sound(state) /\ held \in BOOLEAN
        /\ temp = None
    BY Standing
  <1>3. /\ nx \in StateFile /\ nx.status = state.status /\ nx.fp = state.fp
        /\ nx.phase = ph /\ nx.digest = state.digest
    BY <1>2, WithPhase
  <1> HIDE DEF nx
  <1>4. Sound(nx) /\ Follows(state, nx) /\ At(p, nx)
    BY <1>2, <1>3 DEF Sound, Follows
  <1> QED
    BY <1>1, <1>2, <1>3, <1>4, SetsOut

LEMMA FreezeGuardStep == ASSUME IInv, FreezeGuard PROVE IInv'
  <1>1. /\ UNCHANGED <<src, frozen, sealed, state, temp, brain, review, progress, manifest, hook>>
        /\ crashes' = crashes /\ pc = "freezeGuard"
    BY DEF FreezeGuard, legacy, stores
  <1>2. DiskTypes'
    BY <1>1 DEF IInv, DiskTypes
  <1>3. /\ goal = None /\ state \notin {None, Torn} /\ state \in StateFile
        /\ Sound(state) /\ state.status = "published" /\ temp = None
        /\ seen \in Nat /\ held \in BOOLEAN
    BY <1>1, Standing DEF At
  <1>4. CASE Refuse
    BY <1>1, <1>4, Refuses
  <1>5. CASE state.phase = "pending" /\ Unmoved /\ ~Refuse
    <2> DEFINE nx == [state EXCEPT !.phase = "building", !.digest = src]
    <2>1. Replace("freeze", nx, "progress") /\ held' = TRUE
      BY <1>5 DEF FreezeGuard
    <2>2. src \in [Source -> Nat] /\ "building" \in Phase
      BY DEF IInv, DiskTypes, Phase
    <2>3. /\ nx \in StateFile /\ nx.status = "published" /\ nx.fp = state.fp
          /\ nx.phase = "building" /\ nx.digest = src
      BY <1>3, <2>2 DEF StateFile
    <2> HIDE DEF nx
    <2>4. \A s \in BrainSource : nx.digest[s] = nx.fp[s]
      BY <1>5, <2>3 DEF Unmoved, Fingerprints
    <2>5. Sound(nx) /\ Follows(state, nx) /\ At("progress", nx)
      BY <1>3, <1>5, <2>3, <2>4 DEF Sound, Follows, At
    <2> QED
      BY <1>1, <1>2, <1>3, <2>1, <2>3, <2>5, SetsOut DEF Target
  <1>6. CASE state.phase # "pending" /\ ~Refuse
    <2>1. pc' = "progress" /\ held' = TRUE /\ UNCHANGED <<goal, seen>>
      BY <1>6 DEF FreezeGuard
    <2> QED
      BY <1>1, <1>2, <1>3, <1>6, <2>1, Goes DEF Running, At
  <1> QED
    BY <1>4, <1>5, <1>6 DEF FreezeGuard

LEMMA ProgressIsTyped ==
  ASSUME IInv, NEW s, NEW r \in {"torn", "preparing", "prepared"},
         NEW u \in {"none", "torn", "whole"}, NEW c \in {"none", "partial", "whole"}
  PROVE  LET T == [directory : BOOLEAN,
                   record : [Source -> {"none", "torn", "preparing", "prepared"}],
                   update : [Source -> {"none", "torn", "whole"}],
                   copy : [Source -> {"none", "partial", "whole"}]]
         IN  /\ [progress EXCEPT !.directory = TRUE] \in T
             /\ [progress EXCEPT !.record[s] = r] \in T
             /\ [progress EXCEPT !.update[s] = u] \in T
             /\ [progress EXCEPT !.copy[s] = c] \in T
             /\ [progress EXCEPT !.update[s] = u, !.record[s] = r] \in T
  <1>1. progress \in [directory : BOOLEAN,
                   record : [Source -> {"none", "torn", "preparing", "prepared"}],
                   update : [Source -> {"none", "torn", "whole"}],
                   copy : [Source -> {"none", "partial", "whole"}]]
    BY DEF IInv, DiskTypes
  <1> QED
    BY <1>1

LEMMA ProgressTypes ==
  ASSUME IInv, UNCHANGED <<src, frozen, sealed, state, temp, brain, review, manifest>>,
         progress' \in [directory : BOOLEAN,
                        record : [Source -> {"none", "torn", "preparing", "prepared"}],
                        update : [Source -> {"none", "torn", "whole"}],
                        copy : [Source -> {"none", "partial", "whole"}]]
  PROVE  DiskTypes'
  BY DEF IInv, DiskTypes

LEMMA EnsureProgressStep == ASSUME IInv, EnsureProgress PROVE IInv'
  <1>1. /\ UNCHANGED <<src, frozen, sealed, state, temp, brain, review, manifest, hook>>
        /\ crashes' = crashes /\ pc = "progress"
        /\ progress' = [progress EXCEPT !.directory = TRUE]
    BY DEF EnsureProgress, legacy
  <1>2. DiskTypes'
    <2>1. progress' \in [directory : BOOLEAN,
                   record : [Source -> {"none", "torn", "preparing", "prepared"}],
                   update : [Source -> {"none", "torn", "whole"}],
                   copy : [Source -> {"none", "partial", "whole"}]]
      BY <1>1, ProgressIsTyped
    <2> QED
      BY <1>1, <2>1, ProgressTypes
  <1>3. /\ goal = None /\ state \notin {None, Torn} /\ state \in StateFile
        /\ state.status = "published" /\ state.phase # "pending" /\ temp = None
        /\ seen \in Nat /\ held \in BOOLEAN
    BY <1>1, Standing DEF At
  <1>4. held
    BY <1>1 DEF IInv, FreezeIsQuiet
  <1>5. CASE state.phase = "building"
    <2>1. ReplacePhase("ready", "records")
      BY <1>1, <1>5 DEF EnsureProgress
    <2> QED
      BY <1>1, <1>2, <1>3, <1>4, <2>1, PhaseStep DEF Phase, Target, At
  <1>6. CASE state.phase # "building"
    <2>1. pc' = "records" /\ UNCHANGED <<goal, seen, held>>
      BY <1>1, <1>6 DEF EnsureProgress, Go
    <2> QED
      BY <1>1, <1>2, <1>3, <1>4, <1>6, <2>1, Goes DEF Running, At
  <1> QED
    BY <1>5, <1>6

\* A step among the records of the freeze.
LEMMA RecordGoes ==
  ASSUME IInv, UNCHANGED <<src, frozen, sealed, state, temp, brain, review, manifest, hook,
                           crashes, goal, held>>,
         pc \in {"records", "record"}, pc' \in {"records", "record"}, seen' \in Nat,
         progress' \in [directory : BOOLEAN,
                        record : [Source -> {"none", "torn", "preparing", "prepared"}],
                        update : [Source -> {"none", "torn", "whole"}],
                        copy : [Source -> {"none", "partial", "whole"}]]
  PROVE  IInv'
  <1>1. /\ goal = None /\ state \notin {None, Torn} /\ temp = None /\ held \in BOOLEAN
        /\ state.status = "published" /\ state.phase \notin {"pending", "building"}
    BY Standing DEF At
  <1>2. held
    BY DEF IInv, FreezeIsQuiet
  <1>3. DiskTypes'
    BY ProgressTypes
  <1> QED
    BY <1>1, <1>2, <1>3, Goes DEF Running, At

LEMMA WriteRecordStep == ASSUME IInv, WriteRecord PROVE IInv'
  <1>1. /\ UNCHANGED <<src, frozen, sealed, state, temp, brain, review, manifest, hook,
                       crashes, goal, held>>
    BY DEF WriteRecord, legacy
  <1>2. CASE pc = "records"
    <2>1. PICK i \in Unrecorded :
            /\ progress' = [progress EXCEPT !.record[Candidates[i]] = "torn"]
            /\ pc' = "record" /\ seen' = i
      BY <1>2 DEF WriteRecord
    <2>2. seen' \in Nat
      BY <2>1, CandidatesAreNumbered DEF Unrecorded
    <2> QED
      BY <1>1, <1>2, <2>1, <2>2, ProgressIsTyped, RecordGoes
  <1>3. CASE pc = "record"
    <2>1. /\ progress' = [progress EXCEPT !.record[Candidates[seen]] = "preparing"]
          /\ pc' = "records" /\ seen' = 0
      BY <1>3 DEF WriteRecord
    <2> QED
      BY <1>1, <1>3, <2>1, ProgressIsTyped, RecordGoes
  <1> QED
    BY <1>2, <1>3 DEF WriteRecord

LEMMA AdoptUpdateStep == ASSUME IInv, NEW s \in Source, AdoptUpdate(s) PROVE IInv'
  <1>1. /\ UNCHANGED <<src, frozen, sealed, state, temp, brain, review, manifest, hook,
                       crashes, pc, goal, seen, held>>
        /\ pc = "records"
        /\ progress' = [progress EXCEPT !.update[s] = "none", !.record[s] = "prepared"]
    BY DEF AdoptUpdate, legacy, control
  <1>2. seen \in Nat
    BY <1>1, Standing
  <1> QED
    BY <1>1, <1>2, ProgressIsTyped, RecordGoes

LEMMA IntactIsQuiet == Intact => \A s \in BrainSource : src[s] = state.digest[s]
  BY OrderFacts DEF Intact, ToSet

LEMMA CheckRecordsStep == ASSUME IInv, CheckRecords PROVE IInv'
  <1>1. /\ UNCHANGED <<src, frozen, sealed, state, temp, brain, review, progress, manifest, hook>>
        /\ crashes' = crashes /\ pc = "records"
    BY DEF CheckRecords, legacy, stores
  <1>2. DiskTypes'
    BY <1>1 DEF IInv, DiskTypes
  <1>3. /\ goal = None /\ state \notin {None, Torn} /\ state.phase \in Phase
        /\ state.status = "published" /\ state.phase \notin {"pending", "building"}
        /\ temp = None /\ seen \in Nat /\ held \in BOOLEAN
    BY <1>1, Standing DEF At, StateFile
  <1>4. held
    BY <1>1 DEF IInv, FreezeIsQuiet
  <1>5. CASE ~(~TornRecord /\ Intact)
    BY <1>1, <1>5, Refuses DEF CheckRecords
  <1>6. CASE ~TornRecord /\ Intact
    <2>1. pc' = AfterRecords /\ UNCHANGED <<goal, seen, held>>
      BY <1>6 DEF CheckRecords, Go
    <2>2. CASE state.phase \in {"ready", "directoryFreezing"}
      <3>1. /\ pc' \in {"freeze", "freezeDirectory"}
            /\ pc' = "freeze" => state.phase = "ready"
            /\ pc' = "freezeDirectory" => state.phase = "directoryFreezing"
        BY <2>1, <2>2 DEF AfterRecords
      <3>2. RunTypes'
        BY <1>1, <1>3, <2>1, <3>1, GoTypes DEF IInv, Running
      <3>3. RunFits'
        BY <1>1, <1>3, <3>1 DEF RunFits, At
      <3>4. FreezeIsQuiet'
        BY <1>1, <1>3, <1>4, <1>6, <2>1, IntactIsQuiet DEF FreezeIsQuiet
      <3> QED
        BY <1>1, <1>2, <1>3, <2>1, <3>1, <3>2, <3>3, <3>4, Moves
    <2>3. CASE state.phase \notin {"ready", "directoryFreezing"}
      <3>1. /\ pc' \in {"manifest", "manifestWrite", "manifestPublish", "legacyFrozen"}
            /\ pc' = "manifest" => state.phase = "directoryFrozen"
            /\ pc' = "manifestWrite" => state.phase = "manifestBuilding"
            /\ pc' = "manifestPublish" => state.phase = "manifestVerified"
            /\ pc' = "legacyFrozen" => state.phase = "manifestPublished"
        BY <1>3, <2>1, <2>3 DEF AfterRecords, Phase
      <3>2. At(pc', state)
        BY <1>3, <3>1 DEF At
      <3> QED
        BY <1>1, <1>2, <1>3, <2>1, <3>1, <3>2, Goes DEF Running
    <2> QED
      BY <2>2, <2>3
  <1> QED
    BY <1>5, <1>6

LEMMA FreezeFileStep == ASSUME IInv, FreezeFile PROVE IInv'
  <1>1. /\ UNCHANGED <<src, sealed, state, temp, brain, review, manifest, hook,
                       crashes, pc, goal, seen, held>>
        /\ pc = "freeze"
    BY DEF FreezeFile, control
  <1>2. PICK s \in Source : FreezeSource(s)
    BY CandidatesAreNumbered DEF FreezeFile, Unfinished
  <1>3. /\ goal = None /\ state \notin {None, Torn} /\ state \in StateFile
        /\ state.status = "published" /\ state.phase = "ready" /\ temp = None /\ Sound(state)
    BY <1>1, Standing DEF At
  <1>4. /\ progress' \in [directory : BOOLEAN,
                          record : [Source -> {"none", "torn", "preparing", "prepared"}],
                          update : [Source -> {"none", "torn", "whole"}],
                          copy : [Source -> {"none", "partial", "whole"}]]
        /\ frozen' \in {frozen, frozen \cup {s}}
    <2>1. CASE progress' = [progress EXCEPT !.copy[s] = "partial"] /\ UNCHANGED frozen
      BY <2>1, ProgressIsTyped
    <2>2. CASE progress' = [progress EXCEPT !.copy[s] = "whole"] /\ UNCHANGED frozen
      BY <2>2, ProgressIsTyped
    <2>3. CASE progress' = [progress EXCEPT !.update[s] = "torn"] /\ UNCHANGED frozen
      BY <2>3, ProgressIsTyped
    <2>4. CASE progress' = [progress EXCEPT !.update[s] = "whole"] /\ UNCHANGED frozen
      BY <2>4, ProgressIsTyped
    <2>5. CASE /\ progress' = [progress EXCEPT !.update[s] = "none", !.record[s] = "prepared"]
               /\ UNCHANGED frozen
      BY <2>5, ProgressIsTyped
    <2>6. CASE progress' = [progress EXCEPT !.copy[s] = "none"] /\ frozen' = frozen \cup {s}
      BY <2>6, ProgressIsTyped
    <2> QED
      BY <1>2, <2>1, <2>2, <2>3, <2>4, <2>5, <2>6 DEF FreezeSource
  <1>5. DiskTypes'
    BY <1>1, <1>4 DEF IInv, DiskTypes
  <1>6. RunTypes'
    BY <1>1 DEF IInv, RunTypes
  <1>7. StateIsSound'
    BY <1>1, <1>3, <1>4 DEF StateIsSound, Sound
  <1>8. GoalFits' /\ TempFits' /\ RunFits' /\ Untouched'
    BY <1>1, <1>3 DEF GoalFits, TempFits, RunFits, Untouched, At
  <1>9. FreezeIsQuiet'
    BY <1>1 DEF IInv, FreezeIsQuiet
  <1>10. FrozenStays'
    BY <1>1, <1>3 DEF IInv, FrozenStays, FreezeIsQuiet
  <1>11. ImportIsCurrent' /\ MarkIsLast' /\ HookSeesMark'
    BY <1>1 DEF IInv, ImportIsCurrent, MarkIsLast, HookSeesMark
  <1> QED
    BY <1>5, <1>6, <1>7, <1>8, <1>9, <1>10, <1>11 DEF IInv

LEMMA FilesFrozenStep == ASSUME IInv, FilesFrozen PROVE IInv'
  <1>1. /\ UNCHANGED <<src, frozen, sealed, state, temp, brain, review, progress, manifest, hook>>
        /\ crashes' = crashes /\ pc = "freeze" /\ Unfinished = {}
        /\ ReplacePhase("directoryFreezing", "freezeDirectory")
    BY DEF FilesFrozen, legacy, stores
  <1>2. DiskTypes'
    BY <1>1 DEF IInv, DiskTypes
  <1>3. state.status = "published" /\ state.phase = "ready"
    BY <1>1, Standing DEF At
  <1>4. held /\ \A s \in BrainSource : src[s] = state.digest[s]
    BY <1>1 DEF IInv, FreezeIsQuiet
  <1>5. \A s \in BrainSource : state.digest[s] > 0 => s \in frozen
    BY <1>1, OrderFacts DEF Unfinished
  <1> QED
    BY <1>1, <1>2, <1>3, <1>4, <1>5, PhaseStep DEF Phase, Target, At

LEMMA FreezeDirectoryStep == ASSUME IInv, FreezeDirectory PROVE IInv'
  <1>1. /\ UNCHANGED <<src, frozen, state, temp, brain, review, progress, manifest, hook>>
        /\ crashes' = crashes /\ pc = "freezeDirectory" /\ sealed' = TRUE
        /\ ReplacePhase("directoryFrozen", "manifest")
    BY DEF FreezeDirectory, stores
  <1>2. /\ goal = None /\ state \notin {None, Torn} /\ state \in StateFile
        /\ state.status = "published" /\ state.phase = "directoryFreezing" /\ temp = None
        /\ Sound(state) /\ held \in BOOLEAN
    BY <1>1, Standing DEF At
  <1>3. PICK nx \in StateFile :
          /\ Replace("freeze", nx, "manifest") /\ held' = held
          /\ nx.status = state.status /\ nx.fp = state.fp
          /\ nx.phase = "directoryFrozen" /\ nx.digest = state.digest
    <2> DEFINE n == [state EXCEPT !.phase = "directoryFrozen"]
    <2>1. Replace("freeze", n, "manifest") /\ held' = held
      BY <1>1 DEF ReplacePhase
    <2>2. /\ n \in StateFile /\ n.status = state.status /\ n.fp = state.fp
          /\ n.phase = "directoryFrozen" /\ n.digest = state.digest
      BY <1>2, WithPhase DEF Phase
    <2> HIDE DEF n
    <2> QED
      BY <2>1, <2>2
  <1>4. DiskTypes'
    BY <1>1 DEF IInv, DiskTypes
  <1>5. RunTypes' /\ goal' # None /\ pc' = "open" /\ goal'.next = nx /\ goal'.then = "manifest"
    BY <1>1, <1>2, <1>3, ReplaceTypes DEF IInv, Target
  <1>6. StateIsSound'
    BY <1>1, <1>2 DEF StateIsSound, Sound
  <1>7. Sound(nx)' /\ Follows(state, nx) /\ At("manifest", nx)
    BY <1>1, <1>2, <1>3 DEF Sound, Follows, At
  <1>8. GoalFits'
    BY <1>1, <1>5, <1>7 DEF GoalFits
  <1>9. TempFits' /\ RunFits' /\ Untouched'
    BY <1>1, <1>2, <1>5 DEF TempFits, RunFits, Untouched, At
  <1>10. FrozenStays'
    BY <1>1, <1>2 DEF IInv, FrozenStays, FreezeIsQuiet, Frozen
  <1>11. FreezeIsQuiet'
    BY <1>5 DEF FreezeIsQuiet
  <1>12. ImportIsCurrent' /\ MarkIsLast' /\ HookSeesMark'
    BY <1>1, <1>5 DEF IInv, ImportIsCurrent, MarkIsLast, HookSeesMark
  <1> QED
    BY <1>4, <1>5, <1>6, <1>8, <1>9, <1>10, <1>11, <1>12 DEF IInv

\* A step of the run that writes the manifest or nothing.
LEMMA ManifestGoes ==
  ASSUME IInv, UNCHANGED <<src, frozen, sealed, state, temp, brain, review, progress, hook,
                           crashes>>,
         pc \in {"manifestWrite", "manifestFill", "manifestPublish"},
         manifest' \in {"none", "torn", "staging", "linked", "published"},
         NEW p \in {"manifestWrite", "manifestFill", "manifestPublish"}, Go(p),
         p = "manifestPublish" <=> pc = "manifestPublish"
  PROVE  IInv'
  <1>1. /\ goal = None /\ state \notin {None, Torn} /\ temp = None
        /\ held \in BOOLEAN /\ seen \in Nat /\ At(pc, state)
    BY Standing
  <1>2. At(p, state)
    BY <1>1 DEF At
  <1>3. DiskTypes'
    BY DEF IInv, DiskTypes
  <1>4. pc' = p /\ UNCHANGED <<goal, seen, held>>
    BY DEF Go
  <1> QED
    BY <1>1, <1>2, <1>3, <1>4, Goes DEF Running

LEMMA WriteManifestStep == ASSUME IInv, WriteManifest PROVE IInv'
  <1>1. /\ UNCHANGED <<src, frozen, sealed, state, temp, brain, review, progress, hook>>
        /\ crashes' = crashes /\ pc \in {"manifest", "manifestWrite", "manifestFill"}
    BY DEF WriteManifest, legacy
  <1>2. /\ state.status = "published" /\ state.phase \notin {"pending", "building", "ready"}
        /\ pc = "manifest" => state.phase = "directoryFrozen"
        /\ pc # "manifest" => state.phase = "manifestBuilding"
        /\ Sound(state)
    BY <1>1, Standing DEF At
  <1>3. (\A s \in BrainSource : state.digest[s] > 0 => s \in frozen) /\ sealed
    BY <1>1, <1>2 DEF Sound
  <1>4. CASE pc = "manifest"
    <2>1. ReplacePhase("manifestBuilding", "manifestWrite") /\ manifest' = manifest
      BY <1>4 DEF WriteManifest
    <2>2. DiskTypes'
      BY <1>1, <2>1 DEF IInv, DiskTypes
    <2> QED
      BY <1>1, <1>2, <1>3, <2>1, <2>2, PhaseStep DEF Phase, Target, At
  <1>5. CASE pc = "manifestWrite" /\ manifest = "none"
    BY <1>1, <1>5, ManifestGoes DEF WriteManifest
  <1>6. CASE pc = "manifestWrite" /\ manifest = "torn"
    BY <1>1, <1>6, Refuses DEF WriteManifest
  <1>7. CASE pc = "manifestWrite" /\ manifest = "staging"
    <2>1. ReplacePhase("manifestVerified", "manifestPublish") /\ manifest' = manifest
      BY <1>7 DEF WriteManifest
    <2>2. DiskTypes'
      BY <1>1, <2>1 DEF IInv, DiskTypes
    <2> QED
      BY <1>1, <1>2, <1>3, <2>1, <2>2, PhaseStep DEF Phase, Target, At
  <1>8. CASE pc = "manifestFill"
    BY <1>1, <1>8, ManifestGoes DEF WriteManifest
  <1> QED
    BY <1>4, <1>5, <1>6, <1>7, <1>8 DEF WriteManifest

LEMMA PublishManifestStep == ASSUME IInv, PublishManifest PROVE IInv'
  <1>1. /\ UNCHANGED <<src, frozen, sealed, state, temp, brain, review, progress, hook>>
        /\ crashes' = crashes /\ pc = "manifestPublish"
    BY DEF PublishManifest, legacy
  <1>2. state.status = "published" /\ state.phase = "manifestVerified" /\ Sound(state)
    BY <1>1, Standing DEF At
  <1>3. (\A s \in BrainSource : state.digest[s] > 0 => s \in frozen) /\ sealed
    BY <1>2 DEF Sound
  <1>4. CASE manifest' \in {"linked", "published"} /\ Go("manifestPublish")
    BY <1>1, <1>4, ManifestGoes
  <1>5. CASE ReplacePhase("manifestPublished", "legacyFrozen") /\ manifest' = manifest
    <2>1. DiskTypes'
      BY <1>1, <1>5 DEF IInv, DiskTypes
    <2> QED
      BY <1>1, <1>2, <1>3, <1>5, <2>1, PhaseStep DEF Phase, Target, At
  <1> QED
    BY <1>4, <1>5 DEF PublishManifest

LEMMA MarkFrozenStep == ASSUME IInv, MarkFrozen PROVE IInv'
  <1>1. /\ UNCHANGED <<src, frozen, sealed, state, temp, brain, review, progress, manifest, hook>>
        /\ held' = held /\ crashes' = crashes /\ pc = "legacyFrozen"
    BY DEF MarkFrozen, legacy, stores
  <1>2. DiskTypes'
    BY <1>1 DEF IInv, DiskTypes
  <1>3. /\ state \notin {None, Torn} /\ state \in StateFile /\ Sound(state)
        /\ state.status = "published" /\ state.phase = "manifestPublished"
        /\ temp = None /\ held \in BOOLEAN
    BY <1>1, Standing DEF At
  <1> DEFINE nx == [state EXCEPT !.status = "legacyFrozen"]
  <1>4. Replace("status", nx, "completeRow")
    BY DEF MarkFrozen
  <1>5. /\ nx \in StateFile /\ nx.status = "legacyFrozen" /\ nx.fp = state.fp
        /\ nx.phase = state.phase /\ nx.digest = state.digest
    BY <1>3, WithStatus DEF Status
  <1> HIDE DEF nx
  <1>6. Sound(nx) /\ Follows(state, nx) /\ At("completeRow", nx)
    BY <1>3, <1>5 DEF Sound, Follows, At
  <1> QED
    BY <1>1, <1>2, <1>3, <1>4, <1>5, <1>6, SetsOut DEF Target

LEMMA CompleteRowStep == ASSUME IInv, CompleteRow PROVE IInv'
  <1>1. /\ UNCHANGED <<src, frozen, sealed, state, temp, review, progress, manifest, hook>>
        /\ held' = held /\ crashes' = crashes /\ pc \in {"completeRow", "enterWal", "closeRow"}
    BY DEF CompleteRow, legacy, Go
  <1>2. /\ goal = None /\ state \notin {None, Torn} /\ state \in StateFile /\ Sound(state)
        /\ state.status = "legacyFrozen" /\ temp = None /\ seen \in Nat /\ held \in BOOLEAN
    BY <1>1, Standing DEF At
  <1>3. brain \in [place : {"none", "staging", "linked", "canonical"},
                   row : {"new", "in_progress", "complete"},
                   rows : [BrainSource -> Nat], sidecars : BOOLEAN]
    BY DEF IInv, DiskTypes
  <1>4. ASSUME brain' \in [place : {"none", "staging", "linked", "canonical"},
                           row : {"new", "in_progress", "complete"},
                           rows : [BrainSource -> Nat], sidecars : BOOLEAN]
        PROVE  DiskTypes'
    BY <1>1, <1>4 DEF IInv, DiskTypes
  <1>5. CASE pc = "completeRow"
    <2>1. brain' = [brain EXCEPT !.row = "complete"] /\ pc' = "enterWal"
          /\ UNCHANGED <<goal, seen>>
      BY <1>5 DEF CompleteRow, Go
    <2>2. /\ brain' \in [place : {"none", "staging", "linked", "canonical"},
                           row : {"new", "in_progress", "complete"},
                           rows : [BrainSource -> Nat], sidecars : BOOLEAN]
          /\ brain'.row = "complete" /\ brain'.rows = brain.rows
      BY <1>3, <2>1
    <2>3. DiskTypes'
      BY <1>4, <2>2
    <2>4. RunTypes'
      BY <1>1, <1>2, <2>1, GoTypes DEF IInv, Running
    <2>5. StateIsSound' /\ FrozenStays'
      BY <1>1, <2>2 DEF IInv, StateIsSound, Sound, FrozenStays, Frozen
    <2>6. GoalFits' /\ TempFits' /\ RunFits' /\ Untouched' /\ FreezeIsQuiet' /\ ImportIsCurrent'
      BY <1>1, <1>2, <2>1 DEF GoalFits, TempFits, RunFits, Untouched, FreezeIsQuiet,
                              ImportIsCurrent, At
    <2>7. MarkIsLast' /\ HookSeesMark'
      BY <1>1, <1>2, <2>2 DEF MarkIsLast, HookSeesMark
    <2> QED
      BY <2>3, <2>4, <2>5, <2>6, <2>7 DEF IInv
  <1>6. CASE pc # "completeRow"
    <2>1. PICK b \in BOOLEAN : brain' = [brain EXCEPT !.sidecars = b]
      BY <1>1, <1>6 DEF CompleteRow
    <2>2. /\ brain' \in [place : {"none", "staging", "linked", "canonical"},
                           row : {"new", "in_progress", "complete"},
                           rows : [BrainSource -> Nat], sidecars : BOOLEAN]
          /\ brain'.row = brain.row /\ brain'.rows = brain.rows
      BY <1>3, <2>1
    <2>3. DiskTypes'
      BY <1>4, <2>2
    <2>4. CASE pc = "enterWal"
      <3>1. pc' = "closeRow" /\ UNCHANGED <<goal, seen, held>>
        BY <2>4 DEF CompleteRow, Go
      <3> QED
        BY <1>1, <1>2, <2>2, <2>3, <3>1, Goes DEF Running, At
    <2>5. CASE pc = "closeRow"
      <3> DEFINE nx == [state EXCEPT !.status = "complete"]
      <3>1. Replace("status", nx, "idle")
        BY <2>5 DEF CompleteRow
      <3>2. /\ nx \in StateFile /\ nx.status = "complete" /\ nx.fp = state.fp
            /\ nx.phase = state.phase /\ nx.digest = state.digest
        BY <1>2, WithStatus DEF Status
      <3> HIDE DEF nx
      <3>3. Sound(nx) /\ Follows(state, nx) /\ At("idle", nx)
        BY <1>2, <3>2 DEF Sound, Follows, At
      <3> QED
        BY <1>1, <1>2, <2>2, <2>3, <3>1, <3>2, <3>3, SetsOut DEF Target
    <2> QED
      BY <1>1, <1>6, <2>4, <2>5
  <1> QED
    BY <1>5, <1>6
--------------------------------------------------------------------------------
(* The theorems *)

LEMMA InitHolds == ASSUME Init PROVE IInv
  <1>1. DiskTypes
    <2>1. src \in [Source -> Nat]
      BY DEF Init
    <2>2. brain \in [place : {"none", "staging", "linked", "canonical"},
                    row : {"new", "in_progress", "complete"},
                    rows : [BrainSource -> Nat], sidecars : BOOLEAN]
      BY DEF Init, NoBrain
    <2>3. progress \in [directory : BOOLEAN,
                       record : [Source -> {"none", "torn", "preparing", "prepared"}],
                       update : [Source -> {"none", "torn", "whole"}],
                       copy : [Source -> {"none", "partial", "whole"}]]
      BY DEF Init, NoProgress
    <2> QED
      BY <2>1, <2>2, <2>3 DEF Init, DiskTypes, NoReview
  <1>2. RunTypes
    <2>1. crashes \in 0 .. MaxCrashes
      BY DEF Init
    <2> QED
      BY <2>1 DEF Init, RunTypes
  <1>3. /\ StateIsSound /\ GoalFits /\ TempFits /\ RunFits /\ Untouched /\ FrozenStays
        /\ FreezeIsQuiet /\ ImportIsCurrent
    BY DEF Init, StateIsSound, GoalFits, TempFits, RunFits, Untouched, FrozenStays, Frozen,
           FreezeIsQuiet, ImportIsCurrent, NoBrain
  <1>4. MarkIsLast /\ HookSeesMark
    BY DEF Init, MarkIsLast, HookSeesMark, NoBrain
  <1> QED
    BY <1>1, <1>2, <1>3, <1>4 DEF IInv

LEMMA StutterHolds == ASSUME IInv, UNCHANGED vars PROVE IInv'
  <1>1. UNCHANGED <<src, frozen, sealed, state, temp, brain, review, progress, manifest,
                    pc, goal, seen, held, hook, crashes>>
    BY DEF vars, legacy, stores, control
  <1>2. DiskTypes'
    BY <1>1 DEF IInv, DiskTypes
  <1>3. RunTypes'
    BY <1>1 DEF IInv, RunTypes
  <1>4. StateIsSound' /\ GoalFits' /\ TempFits'
    BY <1>1 DEF IInv, StateIsSound, GoalFits, TempFits, Sound
  <1>5. RunFits' /\ Untouched' /\ FrozenStays' /\ FreezeIsQuiet' /\ ImportIsCurrent'
    BY <1>1 DEF IInv, RunFits, Untouched, FrozenStays, Frozen, FreezeIsQuiet, ImportIsCurrent
  <1>6. MarkIsLast' /\ HookSeesMark'
    BY <1>1 DEF IInv, MarkIsLast, HookSeesMark
  <1> QED
    BY <1>2, <1>3, <1>4, <1>5, <1>6 DEF IInv

LEMMA StepKeeps == ASSUME IInv, [Next]_vars PROVE IInv'
  <1>1. CASE Step
    <2>1. CASE Start \/ CreateState \/ Recover \/ Rebase \/ Validate \/ Exit
      BY <2>1, StartStep, CreateStateStep, RecoverStep, RebaseStep, ValidateStep, ExitStep
    <2>2. CASE OpenTemp \/ WriteTemp \/ RenameTemp
      BY <2>2, OpenTempStep, WriteTempStep, RenameTempStep
    <2>3. CASE Discard \/ Stage \/ Import \/ Compare \/ Publish \/ Announce
      BY <2>3, DiscardStep, StageStep, ImportStep, CompareStep, PublishStep, AnnounceStep
    <2>4. CASE ReadReview \/ JudgeReview \/ BuildReview \/ CloseReview \/ PublishReview
      BY <2>4, ReadReviewStep, JudgeReviewStep, BuildReviewStep, CloseReviewStep,
         PublishReviewStep
    <2>5. CASE FreezeGuard \/ EnsureProgress \/ WriteRecord \/ CheckRecords
      BY <2>5, FreezeGuardStep, EnsureProgressStep, WriteRecordStep, CheckRecordsStep
    <2>6. CASE \E s \in Source : AdoptUpdate(s)
      BY <2>6, AdoptUpdateStep
    <2>7. CASE FreezeFile \/ FilesFrozen \/ FreezeDirectory
      BY <2>7, FreezeFileStep, FilesFrozenStep, FreezeDirectoryStep
    <2>8. CASE WriteManifest \/ PublishManifest \/ MarkFrozen \/ CompleteRow
      BY <2>8, WriteManifestStep, PublishManifestStep, MarkFrozenStep, CompleteRowStep
    <2> QED
      BY <1>1, <2>1, <2>2, <2>3, <2>4, <2>5, <2>6, <2>7, <2>8 DEF Step
  <1>2. CASE Environment
    BY <1>2, LegacyWriteStep, CrashStep, HookStep DEF Environment
  <1>3. CASE UNCHANGED vars
    BY <1>3, StutterHolds
  <1> QED
    BY <1>1, <1>2, <1>3 DEF Next

\* The inductive invariant holds of every reachable state.
THEOREM Invariance == Spec => []IInv
  <1>1. Init => IInv
    BY InitHolds
  <1>2. IInv /\ [Next]_vars => IInv'
    BY StepKeeps
  <1> QED
    BY <1>1, <1>2, PTL DEF Spec

\* The files, the databases and the coordinator keep their types.
THEOREM TypeCorrect == Spec => []TypeOK
  <1>1. IInv => TypeOK
    BY DEF IInv
  <1> QED
    BY <1>1, Invariance, PTL

\* Once the state is past the freeze, what is in the database is frozen.
LEMMA OverIsFrozen ==
  ASSUME IInv, state \notin {None, Torn}, Over(state), NEW s \in BrainSource, brain.rows[s] > 0
  PROVE  Frozen(s) /\ src[s] = brain.rows[s]
  <1>1. Sound(state)
    BY DEF IInv, StateIsSound
  <1>2. /\ brain.rows = state.fp /\ state.phase = "manifestPublished"
        /\ state.digest[s] = state.fp[s] /\ sealed
        /\ state.digest[s] > 0 => s \in frozen
    BY <1>1 DEF Sound
  <1>3. Frozen(s)
    BY <1>2 DEF Frozen
  <1> QED
    BY <1>2, <1>3 DEF IInv, FrozenStays

LEMMA AdmittedIsSafe == IInv => AdmittedSeesHistory
  <1> SUFFICES ASSUME IInv, hook = "admitted", NEW s \in BrainSource, brain.rows[s] > 0
               PROVE  Frozen(s) /\ src[s] = brain.rows[s]
    BY DEF AdmittedSeesHistory
  <1>1. Over(state) /\ state \notin {None, Torn}
    BY DEF IInv, HookSeesMark, MarkIsLast, Untouched
  <1> QED
    BY <1>1, OverIsFrozen

\* A hook that is admitted finds the whole history in the database, and no legacy file
\* that went into it can be written any more.
THEOREM HooksSeeHistory == Spec => []AdmittedSeesHistory
  BY AdmittedIsSafe, Invariance, PTL
--------------------------------------------------------------------------------
(* The migration implements Cutover *)

\* What Cutover sees of a state.
Store == IF brain.place \in {"linked", "canonical"} THEN brain.rows ELSE None
Authority == IF brain.row = "complete" /\ brain.place = "canonical" THEN "store" ELSE "files"

LEMMA QuietStep ==
  ASSUME UNCHANGED <<src, brain>>
  PROVE  UNCHANGED <<Fingerprints, Store, Authority>>
  BY DEF Fingerprints, Store, Authority

LEMMA BuildingStep ==
  ASSUME src' = src, brain.place \in {"none", "staging"}, brain'.place \in {"none", "staging"}
  PROVE  UNCHANGED <<Fingerprints, Store, Authority>>
  BY DEF Fingerprints, Store, Authority

LEMMA WriteRefines ==
  ASSUME IInv, NEW s \in Source, LegacyWrite(s)
  PROVE  [History!Next]_<<Fingerprints, Store, Authority>>
  <1>1. /\ src' = [src EXCEPT ![s] = @ + 1] /\ ~Frozen(s)
        /\ Store' = Store /\ Authority' = Authority
    BY DEF LegacyWrite, stores, Store, Authority
  <1>2. src \in [Source -> Nat] /\ brain.rows \in [BrainSource -> Nat]
    BY DEF IInv, DiskTypes
  <1>3. CASE s \in BrainSource
    <2>1. Fingerprints' = [Fingerprints EXCEPT ![s] = @ + 1]
      BY <1>1, <1>2, <1>3, OrderFacts DEF Fingerprints
    <2>2. Authority = "files" \/ Store[s] = 0
      <3> SUFFICES ASSUME Authority # "files" PROVE Store[s] = 0
        OBVIOUS
      <3>1. brain.row = "complete" /\ Store = brain.rows
        BY DEF Authority, Store
      <3>2. Over(state) /\ state \notin {None, Torn}
        BY <3>1 DEF IInv, MarkIsLast, Untouched
      <3>3. ~(brain.rows[s] > 0)
        BY <1>1, <1>3, <3>2, OverIsFrozen
      <3> QED
        BY <1>2, <1>3, <3>1, <3>3
    <2>3. History!Write(s)
      BY <1>1, <2>1, <2>2 DEF History!Write, Store, Authority
    <2> QED
      BY <1>3, <2>3 DEF History!Next
  <1>4. CASE s \notin BrainSource
    <2>1. Fingerprints' = Fingerprints
      BY <1>1, <1>2, <1>4, OrderFacts DEF Fingerprints
    <2> QED
      BY <1>1, <2>1
  <1> QED
    BY <1>3, <1>4

LEMMA PublishRefines ==
  ASSUME IInv, Publish
  PROVE  [History!Next]_<<Fingerprints, Store, Authority>>
  <1>1. /\ src' = src /\ pc \in {"publish", "republish"}
        /\ brain' = [brain EXCEPT !.place = IF @ = "staging" THEN "linked" ELSE "canonical"]
    BY DEF Publish, legacy
  <1>2. state.status = "verified" /\ Sound(state)
    BY <1>1, Standing DEF At
  <1>3. brain \in [place : {"none", "staging", "linked", "canonical"},
                   row : {"new", "in_progress", "complete"},
                   rows : [BrainSource -> Nat], sidecars : BOOLEAN]
    BY DEF IInv, DiskTypes
  <1>4. PICK p \in {"linked", "canonical"} : brain' = [brain EXCEPT !.place = p]
    BY <1>1
  <1>5. brain'.place \in {"linked", "canonical"} /\ brain'.rows = brain.rows /\ brain'.row = brain.row
    BY <1>3, <1>4
  <1>6. brain.row # "complete"
    BY <1>2 DEF IInv, MarkIsLast
  <1>7. Authority' = Authority /\ Fingerprints' = Fingerprints /\ Store' = brain.rows
    BY <1>1, <1>5, <1>6 DEF Authority, Fingerprints, Store
  <1>8. CASE brain.place \in {"linked", "canonical"}
    BY <1>7, <1>8 DEF Store
  <1>9. CASE brain.place \notin {"linked", "canonical"}
    <2>1. Store = None /\ Store' # None
      BY <1>3, <1>7, <1>9 DEF Store
    <2>2. \A s \in BrainSource : Store'[s] <= Fingerprints[s]
      BY <1>2, <1>7 DEF Sound, Fingerprints
    <2>3. History!Fill
      BY <1>7, <2>1, <2>2 DEF History!Fill, Store, Authority
    <2> QED
      BY <2>3 DEF History!Next
  <1> QED
    BY <1>8, <1>9

LEMMA CompleteRefines ==
  ASSUME IInv, CompleteRow
  PROVE  [History!Next]_<<Fingerprints, Store, Authority>>
  <1>1. src' = src /\ pc \in {"completeRow", "enterWal", "closeRow"}
    BY DEF CompleteRow, legacy
  <1>2. state \notin {None, Torn} /\ Over(state)
    BY <1>1, Standing DEF At
  <1>3. brain \in [place : {"none", "staging", "linked", "canonical"},
                   row : {"new", "in_progress", "complete"},
                   rows : [BrainSource -> Nat], sidecars : BOOLEAN]
    BY DEF IInv, DiskTypes
  <1>4. CASE pc = "completeRow"
    <2>1. brain' = [brain EXCEPT !.row = "complete"]
      BY <1>4 DEF CompleteRow
    <2>2. brain'.place = brain.place /\ brain'.rows = brain.rows /\ brain'.row = "complete"
      BY <1>3, <2>1
    <2>3. Fingerprints' = Fingerprints /\ Store' = Store
      BY <1>1, <2>2 DEF Fingerprints, Store
    <2>4. CASE brain.place = "canonical" /\ brain.row # "complete"
      <3>1. Authority = "files" /\ Authority' = "store" /\ Store = brain.rows /\ Store # None
        BY <1>3, <2>2, <2>4 DEF Authority, Store
      <3>2. \A s \in BrainSource : Store[s] > 0 => Fingerprints[s] = Store[s]
        BY <1>2, <3>1, OverIsFrozen DEF Fingerprints
      <3>3. History!TakeOver
        BY <2>3, <3>1, <3>2 DEF History!TakeOver, Store, Authority
      <3> QED
        BY <3>3 DEF History!Next
    <2>5. CASE ~(brain.place = "canonical" /\ brain.row # "complete")
      BY <2>2, <2>3, <2>5 DEF Authority
    <2> QED
      BY <2>4, <2>5
  <1>5. CASE pc # "completeRow"
    <2>1. PICK b \in BOOLEAN : brain' = [brain EXCEPT !.sidecars = b]
      BY <1>1, <1>5 DEF CompleteRow
    <2>2. brain'.place = brain.place /\ brain'.rows = brain.rows /\ brain'.row = brain.row
      BY <1>3, <2>1
    <2> QED
      BY <1>1, <2>2 DEF Fingerprints, Store, Authority
  <1> QED
    BY <1>4, <1>5

LEMMA NextRefines ==
  ASSUME IInv, [Next]_vars
  PROVE  [History!Next]_<<Fingerprints, Store, Authority>>
  <1>1. CASE Start \/ CreateState \/ Recover \/ Rebase \/ Validate \/ Exit
    BY <1>1, QuietStep DEF Start, CreateState, Recover, Rebase, Validate, Exit, legacy, stores
  <1>2. CASE OpenTemp \/ WriteTemp \/ RenameTemp
    BY <1>2, QuietStep DEF OpenTemp, WriteTemp, RenameTemp, legacy, stores
  <1>3. CASE Discard \/ Stage \/ Import
    <2>1. src' = src /\ pc \in {"discard", "restage", "stage", "import"}
      BY <1>3 DEF Discard, Stage, Import, legacy
    <2>2. brain.place \in {"none", "staging"}
      BY <2>1 DEF IInv, RunFits
    <2>3. brain'.place \in {"none", "staging"}
      <3>1. brain \in [place : {"none", "staging", "linked", "canonical"},
                       row : {"new", "in_progress", "complete"},
                       rows : [BrainSource -> Nat], sidecars : BOOLEAN]
        BY DEF IInv, DiskTypes
      <3> QED
        BY <1>3, <2>2, <3>1 DEF Discard, Stage, Import, NoBrain
    <2> QED
      BY <2>1, <2>2, <2>3, BuildingStep
  <1>4. CASE Publish
    BY <1>4, PublishRefines
  <1>5. CASE Compare \/ Announce
    BY <1>5, QuietStep DEF Compare, Announce, legacy, stores
  <1>6. CASE ReadReview \/ JudgeReview \/ BuildReview \/ CloseReview \/ PublishReview
    BY <1>6, QuietStep DEF ReadReview, JudgeReview, BuildReview, CloseReview, PublishReview,
                           legacy, stores
  <1>7. CASE FreezeGuard \/ EnsureProgress \/ WriteRecord \/ CheckRecords
    BY <1>7, QuietStep DEF FreezeGuard, EnsureProgress, WriteRecord, CheckRecords, legacy, stores
  <1>8. CASE (\E s \in Source : AdoptUpdate(s)) \/ FreezeFile \/ FilesFrozen \/ FreezeDirectory
    BY <1>8, QuietStep DEF AdoptUpdate, FreezeFile, FilesFrozen, FreezeDirectory, legacy, stores
  <1>9. CASE WriteManifest \/ PublishManifest \/ MarkFrozen
    BY <1>9, QuietStep DEF WriteManifest, PublishManifest, MarkFrozen, legacy, stores
  <1>10. CASE CompleteRow
    BY <1>10, CompleteRefines
  <1>11. CASE \E s \in Source : LegacyWrite(s)
    BY <1>11, WriteRefines
  <1>12. CASE Crash \/ HookLoad \/ HookLook \/ HookOpen \/ HookDone
    BY <1>12, QuietStep DEF Crash, HookLoad, HookLook, HookOpen, HookDone, legacy, stores
  <1>13. CASE UNCHANGED vars
    BY <1>13, QuietStep DEF vars, legacy, stores
  <1> QED
    BY <1>1, <1>2, <1>3, <1>4, <1>5, <1>6, <1>7, <1>8, <1>9, <1>10, <1>11, <1>12, <1>13
       DEF Next, Step, Environment

\* The migration, its crashes and the old processes implement Cutover: the database is
\* filled once and takes over in one step, the write of its own mark.
THEOREM CutoverIsImplemented == Spec => ImplementsCutover
  <1>1. Init => History!Init
    <2> SUFFICES ASSUME Init PROVE History!Init
      OBVIOUS
    <2>1. Fingerprints \in [BrainSource -> Nat]
      BY InitHolds, FingerprintsAreTyped DEF IInv
    <2> QED
      BY <2>1 DEF Init, History!Init, NoBrain
  <1>2. IInv /\ [Next]_vars => [History!Next]_<<Fingerprints, Store, Authority>>
    BY NextRefines
  <1> QED
    BY <1>1, <1>2, Invariance, PTL DEF Spec, ImplementsCutover, History!Spec, Store, Authority

\* The cutover is never undone: once the mark stands in the published database
\* (complete_published_migration), the store stays the authority and what it was
\* filled with, through every crash, retry and write of an old process, and what it
\* holds of a legacy file is what that file holds.
THEOREM TakeoverIsFinal ==
  Spec => /\ [][Authority = "store" => UNCHANGED <<Authority, Store>>]_<<Fingerprints, Store, Authority>>
          /\ [](Authority = "store" =>
                  \A s \in BrainSource : Store[s] > 0 => Fingerprints[s] = Store[s])
  <1> DEFINE Filled == Authority = "store" => Store # None
             Held == Authority = "store" =>
                       \A s \in BrainSource : Store[s] > 0 => Fingerprints[s] = Store[s]
  <1>1. IInv => Filled
    BY DEF IInv, DiskTypes, Store, Authority
  <1>2. IInv => Held
    <2> SUFFICES ASSUME IInv, Authority = "store", NEW s \in BrainSource, Store[s] > 0
                 PROVE  Fingerprints[s] = Store[s]
      OBVIOUS
    <2>1. brain.row = "complete" /\ brain.place = "canonical" /\ Store = brain.rows
      BY DEF Authority, Store
    <2>2. Over(state) /\ state \notin {None, Torn}
      BY <2>1 DEF IInv, MarkIsLast, Untouched
    <2>3. Frozen(s) /\ src[s] = brain.rows[s]
      BY <2>1, <2>2, OverIsFrozen
    <2> QED
      BY <2>1, <2>3 DEF Fingerprints
  <1>3. IInv /\ [History!Next]_<<Fingerprints, Store, Authority>> =>
          (Authority = "store" => UNCHANGED <<Authority, Store>>)
    BY <1>1 DEF History!Next, History!Write, History!Fill, History!TakeOver, Store, Authority
  <1>4. IInv /\ [Next]_vars =>
          [Authority = "store" => UNCHANGED <<Authority, Store>>]_<<Fingerprints, Store, Authority>>
    BY <1>3, NextRefines
  <1> QED
    BY <1>2, <1>4, Invariance, PTL DEF Spec
--------------------------------------------------------------------------------
(* A run refuses to go on only for one of four reasons. *)

\* What is real stays real while the stores do.
LEMMA RealStays ==
  ASSUME IInv, src' \in [Source -> Nat], src[Review] <= src'[Review],
         brain'.place = brain.place, brain'.row = brain.row,
         review' = review, manifest' = manifest
  PROVE  /\ \A st \in StateFile : Real(st) => Real(st)'
         /\ \A k, st : \A next \in StateFile : Leads(k, st, next) => Leads(k, st, next)'
  <1>1. src[Review] \in Nat /\ src'[Review] \in Nat
    BY OrderFacts DEF IInv, DiskTypes
  <1>2. \A st \in StateFile : st.mark \in Nat /\ st.digest[Review] \in Nat
    BY OrderFacts DEF StateFile
  <1>3. ASSUME NEW st \in StateFile, Real(st) PROVE Real(st)'
    BY <1>1, <1>2, <1>3 DEF Real
  <1>4. ASSUME NEW k, NEW st, NEW next \in StateFile, Leads(k, st, next)
        PROVE  Leads(k, st, next)'
    BY <1>1, <1>2, <1>4 DEF Leads
  <1> QED
    BY <1>3, <1>4

\* The run goes on and no replacement is concerned.
LEMMA RealMoves ==
  ASSUME IInv, CInv, UNCHANGED <<src, state, temp>>, goal' = None,
         pc' \notin {"write", "refused"},
         temp = None \/ UNCHANGED <<brain, review, manifest>>,
         StateIsReal', RunIsReal'
  PROVE  CInv'
  <1>1. ReplacementIsReal'
    <2>1. CASE temp = None
      BY <2>1 DEF ReplacementIsReal
    <2>2. CASE UNCHANGED <<brain, review, manifest>> /\ temp # None
      <3>1. temp.to # Torn => temp.to \in StateFile
        BY <2>2 DEF IInv, DiskTypes, Replacement
      <3>2. temp.to # Torn => Real(temp.to) /\ Leads(temp.kind, state, temp.to)
        BY <2>2 DEF CInv, ReplacementIsReal
      <3>3. temp.to # Torn => Real(temp.to)' /\ Leads(temp.kind, state, temp.to)'
        BY <2>2, <3>1, <3>2 DEF Real, Leads
      <3> QED
        BY <3>3 DEF ReplacementIsReal
    <2> QED
      BY <2>1, <2>2
  <1> QED
    BY <1>1 DEF CInv, RefusalHasCause

\* The stores are as they were.
LEMMA RealGoes ==
  ASSUME IInv, CInv, UNCHANGED <<src, state, temp, brain, review, manifest>>, goal' = None,
         pc' \notin {"write", "refused"}, RunIsReal'
  PROVE  CInv'
  <1>1. StateIsReal'
    BY DEF CInv, StateIsReal, Real
  <1> QED
    BY <1>1, RealMoves

\* A replacement is prepared.
LEMMA RealReplaces ==
  ASSUME IInv, CInv, UNCHANGED <<src, state, temp>>, temp = None, state \notin {None, Torn},
         NEW k, NEW nx, NEW p, Replace(k, nx, p), StateIsReal', Real(nx)', Leads(k, state, nx)
  PROVE  CInv'
  <1>1. goal' = [kind |-> k, next |-> nx, then |-> p] /\ pc' = "open"
    BY DEF Replace
  <1>2. Leads(k, state, nx)'
    BY DEF Leads
  <1>3. ReplacementIsReal'
    BY <1>1, <1>2 DEF ReplacementIsReal, Real, Leads
  <1>4. RunIsReal' /\ RefusalHasCause'
    BY <1>1 DEF RunIsReal, RefusalHasCause
  <1> QED
    BY <1>3, <1>4 DEF CInv

\* A run refuses.
LEMMA RealRefuses ==
  ASSUME IInv, CInv, Refuse, Caused,
         UNCHANGED <<src, frozen, sealed, state, temp, brain, review, progress, manifest>>
  PROVE  CInv'
  <1>1. pc' = "refused" /\ goal' = None
    BY DEF Refuse
  <1>2. StateIsReal'
    BY DEF CInv, StateIsReal, Real
  <1>3. ReplacementIsReal'
    BY <1>1 DEF CInv, ReplacementIsReal, Real, Leads
  <1>4. RunIsReal'
    BY <1>1 DEF RunIsReal
  <1>5. TornFile' \/ HalfStore' \/ OwnCopy' \/ Moved'
    <2>1. CASE TornFile
      BY <2>1 DEF TornFile, TornRecord
    <2>2. CASE HalfStore
      BY <2>2 DEF HalfStore
    <2>3. CASE OwnCopy
      BY <2>3 DEF OwnCopy
    <2>4. CASE Moved
      BY <2>4 DEF Moved, Unmoved, Fingerprints, ReviewIncluded, Intact, Candidates
    <2> QED
      BY <2>1, <2>2, <2>3, <2>4 DEF Caused
  <1> QED
    BY <1>2, <1>3, <1>4, <1>5 DEF CInv, RefusalHasCause
--------------------------------------------------------------------------------
(* The processes around the coordinator *)

LEMMA RealLegacyWrite ==
  ASSUME IInv, CInv, NEW s \in Source, LegacyWrite(s)
  PROVE  CInv'
  <1>1. /\ UNCHANGED <<frozen, sealed, state, temp, stores, control>>
        /\ src' = [src EXCEPT ![s] = @ + 1]
    BY DEF LegacyWrite
  <1>2. UNCHANGED <<brain, review, progress, manifest, pc, goal, seen>>
    BY <1>1 DEF stores, control
  <1>3. /\ src' \in [Source -> Nat]
        /\ \A x \in Source : src[x] \in Nat /\ src'[x] \in Nat /\ src[x] <= src'[x]
    BY <1>1 DEF IInv, DiskTypes
  <1>4. Review \in Source /\ BrainSource \subseteq Source
    BY OrderFacts
  <1>5. /\ \A st \in StateFile : Real(st) => Real(st)'
        /\ \A k, st : \A next \in StateFile : Leads(k, st, next) => Leads(k, st, next)'
    BY <1>2, <1>3, <1>4, RealStays
  <1>6. StateIsReal'
    BY <1>1, <1>2, <1>5 DEF IInv, DiskTypes, CInv, StateIsReal
  <1>7. ReplacementIsReal'
    <2>1. goal # None => goal.next \in StateFile
      BY DEF IInv, RunTypes, Goal
    <2>2. temp # None /\ temp.to # Torn => temp.to \in StateFile
      BY DEF IInv, DiskTypes, Replacement
    <2>3. goal # None => Real(goal.next)' /\ Leads(goal.kind, state, goal.next)'
      BY <1>1, <1>2, <1>5, <2>1 DEF CInv, ReplacementIsReal
    <2>4. temp # None /\ temp.to # Torn => Real(temp.to)' /\ Leads(temp.kind, state, temp.to)'
      BY <1>1, <1>2, <1>5, <2>2 DEF CInv, ReplacementIsReal
    <2> QED
      BY <1>1, <1>2, <2>3, <2>4 DEF CInv, ReplacementIsReal, Real, Leads
  <1>8. RunIsReal'
    <2>1. seen \in Nat
      BY DEF IInv, RunTypes
    <2> QED
      BY <1>1, <1>2, <1>3, <1>4, <2>1 DEF CInv, RunIsReal
  <1>9. RefusalHasCause'
    <2> SUFFICES ASSUME pc = "refused"
                 PROVE  TornFile' \/ HalfStore' \/ OwnCopy' \/ Moved'
      BY <1>2 DEF RefusalHasCause
    <2>1. CASE TornFile
      BY <1>1, <1>2, <2>1 DEF TornFile, TornRecord
    <2>2. CASE HalfStore
      BY <1>2, <2>2 DEF HalfStore
    <2>3. CASE OwnCopy
      BY <1>2, <2>3 DEF OwnCopy
    <2>4. CASE Moved
      <3>1. state \in StateFile /\ state \notin {None, Torn} /\ Sound(state) /\ Real(state)
        BY <2>4 DEF Moved, IInv, DiskTypes, StateIsSound, CInv, StateIsReal
      <3>2. /\ \A x \in BrainSource : state.fp[x] \in Nat /\ state.fp[x] <= src[x]
            /\ \A x \in Source : state.digest[x] \in Nat
            /\ state.mark \in Nat /\ state.mark <= src[Review]
            /\ state.fp \in [BrainSource -> Nat]
        BY <3>1 DEF StateFile, Sound, Real
      <3>3. CASE state.phase = "pending" /\ ~Unmoved
        <4>1. PICK x \in BrainSource : state.fp[x] # src[x]
          BY <3>2, <3>3 DEF Unmoved, Fingerprints
        <4>2. state.fp[x] # src'[x]
          BY <1>3, <1>4, <3>2, <4>1
        <4>3. ~Unmoved'
          BY <1>1, <4>1, <4>2 DEF Unmoved, Fingerprints
        <4> QED
          BY <1>1, <3>1, <3>3, <4>3 DEF Moved
      <3>4. CASE /\ state.status = "published" /\ state.phase = "pending"
                 /\ ReviewIncluded /\ src[Review] # state.mark
        <4>1. src'[Review] # state.mark
          BY <1>3, <1>4, <3>2, <3>4
        <4> QED
          BY <1>1, <3>1, <3>4, <4>1 DEF Moved, ReviewIncluded
      <3>5. CASE temp # None /\ temp.kind = "review" /\ temp.to # Torn /\ src[Review] # temp.to.mark
        <4>1. temp.to \in StateFile /\ Real(temp.to)
          BY <3>5 DEF IInv, DiskTypes, Replacement, CInv, ReplacementIsReal
        <4>2. temp.to.mark \in Nat /\ temp.to.mark <= src[Review]
          BY <4>1 DEF StateFile, Real
        <4>3. src'[Review] # temp.to.mark
          BY <1>3, <1>4, <3>5, <4>2
        <4> QED
          BY <1>1, <3>1, <3>5, <4>3 DEF Moved
      <3>6. CASE state.phase # "pending" /\ ~Intact
        <4>1. PICK x \in ToSet(Candidates) : src[x] # state.digest[x]
          BY <3>6 DEF Intact
        <4>2. x \in Source /\ state.digest[x] <= src[x]
          <5>1. x \in Source
            BY <4>1, CandidatesAreNumbered DEF ToSet
          <5>2. CASE x \in BrainSource
            BY <3>1, <3>2, <3>6, <5>1, <5>2 DEF Sound
          <5>3. CASE x = Review
            BY <3>1, <5>1, <5>3 DEF Real
          <5> QED
            BY <5>1, <5>2, <5>3 DEF Source
        <4>3. src'[x] # state.digest[x]
          BY <1>3, <3>2, <4>1, <4>2
        <4>4. ~Intact'
          BY <1>1, <4>1, <4>3 DEF Intact, Candidates, ReviewIncluded
        <4> QED
          BY <1>1, <3>1, <3>6, <4>4 DEF Moved
      <3> QED
        BY <2>4, <3>3, <3>4, <3>5, <3>6 DEF Moved
    <2> QED
      BY <2>1, <2>2, <2>3, <2>4 DEF CInv, RefusalHasCause
  <1> QED
    BY <1>6, <1>7, <1>8, <1>9 DEF CInv

LEMMA RealCrash == ASSUME IInv, CInv, Crash PROVE CInv'
  <1>1. /\ UNCHANGED <<src, frozen, sealed, state, temp, brain, review, manifest>>
        /\ pc' = "idle" /\ goal' = None
    BY DEF Crash, legacy, stores
  <1>2. RunIsReal'
    BY <1>1 DEF RunIsReal
  <1> QED
    BY <1>1, <1>2, RealGoes

\* Nothing that the invariant speaks of changes.
LEMMA RealQuiet ==
  ASSUME IInv, CInv, UNCHANGED <<legacy, state, temp, stores, control>>
  PROVE  CInv'
  <1>1. UNCHANGED <<src, frozen, sealed, state, temp, brain, review, progress, manifest,
                    pc, goal, seen>>
    BY DEF legacy, stores, control
  <1>2. StateIsReal' /\ ReplacementIsReal' /\ RunIsReal'
    BY <1>1 DEF CInv, StateIsReal, ReplacementIsReal, RunIsReal, Real, Leads
  <1>3. TornFile => TornFile'
    BY <1>1 DEF TornFile, TornRecord
  <1>4. HalfStore => HalfStore'
    BY <1>1 DEF HalfStore
  <1>5. OwnCopy => OwnCopy'
    BY <1>1 DEF OwnCopy
  <1>6. Moved => Moved'
    BY <1>1 DEF Moved, Unmoved, Fingerprints, ReviewIncluded, Intact, Candidates
  <1> QED
    BY <1>1, <1>2, <1>3, <1>4, <1>5, <1>6 DEF CInv, RefusalHasCause
--------------------------------------------------------------------------------
(* Replacing the state file *)

LEMMA RealOpenTemp == ASSUME IInv, CInv, OpenTemp PROVE CInv'
  <1>1. /\ pc = "open" /\ UNCHANGED <<src, state, brain, review, manifest>>
    BY DEF OpenTemp, legacy, stores
  <1>2. temp = None /\ goal # None
    BY <1>1 DEF IInv, TempFits, GoalFits
  <1>3. temp' = [kind |-> goal.kind, to |-> Torn] /\ pc' = "write" /\ goal' = goal
    BY <1>2 DEF OpenTemp, Go
  <1>4. temp'.to = Torn /\ temp'.kind = goal.kind
    BY <1>3
  <1>5. StateIsReal'
    BY <1>1 DEF CInv, StateIsReal, Real
  <1>6. ReplacementIsReal'
    BY <1>1, <1>3, <1>4 DEF CInv, ReplacementIsReal, Real, Leads
  <1> QED
    BY <1>3, <1>5, <1>6 DEF CInv, RunIsReal, RefusalHasCause

LEMMA RealWriteTemp == ASSUME IInv, CInv, WriteTemp PROVE CInv'
  <1>1. /\ pc = "write" /\ UNCHANGED <<src, state, brain, review, manifest, goal>>
        /\ temp' = [temp EXCEPT !.to = goal.next] /\ pc' = "rename"
    BY DEF WriteTemp, Go, legacy, stores
  <1>2. temp # None /\ goal # None
    BY <1>1 DEF IInv, TempFits, GoalFits
  <1>3. temp'.to = goal.next /\ temp'.kind = goal.kind
    BY <1>1, <1>2 DEF IInv, DiskTypes, Replacement, CInv, ReplacementIsReal
  <1>4. StateIsReal'
    BY <1>1 DEF CInv, StateIsReal, Real
  <1>5. Real(goal.next) /\ Leads(goal.kind, state, goal.next)
    BY <1>2 DEF CInv, ReplacementIsReal
  <1>6. ReplacementIsReal'
    BY <1>1, <1>3, <1>5 DEF ReplacementIsReal, Real, Leads
  <1> QED
    BY <1>1, <1>4, <1>6 DEF CInv, RunIsReal, RefusalHasCause

\* The state is replaced by a real one.
LEMMA RealAdopts ==
  ASSUME IInv, CInv, UNCHANGED <<src, brain, review, manifest>>, goal' = None, temp' = None,
         NEW nx \in StateFile, Real(nx), state' = nx, state \notin {None, Torn},
         pc' \in Target \cup {"rebase"}
  PROVE  CInv'
  <1>1. StateIsReal'
    BY DEF CInv, StateIsReal, Real
  <1>2. ReplacementIsReal' /\ RunIsReal' /\ RefusalHasCause'
    BY DEF ReplacementIsReal, RunIsReal, RefusalHasCause, Target
  <1> QED
    BY <1>1, <1>2 DEF CInv

LEMMA RealRenameTemp == ASSUME IInv, CInv, RenameTemp PROVE CInv'
  <1>1. /\ pc = "rename" /\ UNCHANGED <<src, brain, review, manifest>>
        /\ state' = temp.to /\ temp' = None /\ pc' = goal.then /\ goal' = None
    BY DEF RenameTemp, legacy, stores
  <1>2. goal # None /\ temp.to = goal.next /\ state \notin {None, Torn}
    BY <1>1 DEF IInv, TempFits, GoalFits, RunFits
  <1>3. goal.next \in StateFile /\ goal.then \in Target
    BY <1>2 DEF IInv, RunTypes, Goal
  <1>4. Real(goal.next)
    BY <1>2 DEF CInv, ReplacementIsReal
  <1> QED
    BY <1>1, <1>2, <1>3, <1>4, RealAdopts

LEMMA RealExit == ASSUME IInv, CInv, Exit PROVE CInv'
  <1>1. /\ pc = "refused" /\ UNCHANGED <<src, state, temp, brain, review, manifest, goal>>
        /\ pc' = "idle"
    BY DEF Exit, Go, legacy, stores
  <1>2. goal = None /\ RunIsReal'
    BY <1>1 DEF IInv, GoalFits, RunIsReal
  <1> QED
    BY <1>1, <1>2, RealGoes
--------------------------------------------------------------------------------
(* resume_locked, up to its branch on the status *)

LEMMA RealStart == ASSUME IInv, CInv, Start PROVE CInv'
  <1>1. /\ pc = "idle"
        /\ UNCHANGED <<src, frozen, sealed, state, temp, brain, review, progress, manifest>>
    BY DEF Start, legacy, stores
  <1>2. goal = None
    BY <1>1 DEF IInv, GoalFits
  <1>3. CASE state = Torn
    <2>1. Refuse /\ Caused
      BY <1>3 DEF Start, Caused, TornFile
    <2> QED
      BY <1>1, <2>1, RealRefuses
  <1>4. CASE state # Torn
    <2>1. pc' \in {"create", "recover"} /\ goal' = None
      BY <1>2, <1>4 DEF Start, Go
    <2>2. RunIsReal'
      BY <2>1 DEF RunIsReal
    <2> QED
      BY <1>1, <2>1, <2>2, RealGoes
  <1> QED
    BY <1>3, <1>4

LEMMA RealCreateState == ASSUME IInv, CInv, CreateState PROVE CInv'
  <1>1. /\ pc = "create" /\ UNCHANGED <<src, temp, brain, review, manifest, goal>>
    BY DEF CreateState, legacy, stores
  <1>2. goal = None /\ temp = None /\ state \in {None, Torn}
    BY <1>1 DEF IInv, GoalFits, TempFits, RunFits
  <1>3. brain.place = "none" /\ review.place = "none" /\ manifest = "none"
        /\ (review.place = "none" <=> review.content = "none")
    BY <1>2 DEF CInv, StateIsReal
  <1>4. src[Review] \in Nat /\ Review \in Source
    BY OrderFacts DEF IInv, DiskTypes
  <1>5. StateIsReal' /\ pc' \in {"create", "recover"}
    <2>1. CASE state = None
      <3>1. state' = Torn /\ pc' = pc
        BY <2>1 DEF CreateState
      <3> QED
        BY <1>1, <1>3, <3>1 DEF StateIsReal
    <2>2. CASE state # None
      <3>1. /\ state' = [status |-> "building", fp |-> Fingerprints,
                        review |-> "pending", mark |-> 0, phase |-> "pending",
                        digest |-> [s \in Source |-> 0]]
            /\ pc' = "recover"
        BY <2>2 DEF CreateState
      <3>2. /\ state'.status = "building" /\ state'.review = "pending" /\ state'.mark = 0
            /\ state'.phase = "pending" /\ state'.digest[Review] = 0
        BY <1>4, <3>1
      <3>3. Real(state)'
        BY <1>1, <1>3, <1>4, <3>2 DEF Real
      <3>4. state' \notin {None, Torn}
        <4>1. state' \in StateFile
          BY <3>1, FingerprintsAreTyped DEF IInv, StateFile, Status, Phase, ReviewResult
        <4> QED
          BY <4>1
      <3> QED
        BY <1>1, <1>3, <3>1, <3>3, <3>4 DEF StateIsReal
    <2> QED
      BY <2>1, <2>2
  <1>6. ReplacementIsReal' /\ RunIsReal' /\ RefusalHasCause'
    BY <1>1, <1>2, <1>5 DEF ReplacementIsReal, RunIsReal, RefusalHasCause
  <1> QED
    BY <1>5, <1>6 DEF CInv

\* A pending replacement that cannot be taken up has a cause.
LEMMA StatusHasEvidence ==
  ASSUME IInv, state \notin {None, Torn}, state \in StateFile, Sound(state), Real(state),
         NEW to \in StateFile, Sound(to), Real(to), Follows(state, to), Leads("status", state, to),
         state.status # "building", ~StatusEvidence(to)
  PROVE  Moved
  <1>1. to.status \in {"published", "legacyFrozen", "complete"}
    BY DEF Leads, StateFile, Status
  <1>2. brain.place = "canonical"
    BY <1>1 DEF Real
  <1>3. CASE to.status = "published"
    <2>1. brain.row = "in_progress" /\ state.status = "verified" /\ state.phase = "pending"
      BY <1>3 DEF Real, Leads, Sound
    <2>2. ~Unmoved
      BY <1>2, <1>3, <2>1 DEF StatusEvidence
    <2> QED
      BY <2>1, <2>2 DEF Moved
  <1>4. CASE to.status \in {"legacyFrozen", "complete"}
    <2>1. to.phase = "manifestPublished" /\ state.phase = "manifestPublished"
      BY <1>4 DEF Sound, Leads
    <2>2. manifest = "published" /\ (to.status = "complete" => OpensCurrent)
      BY <1>2, <2>1 DEF Real, OpensCurrent
    <2>3. ~Intact
      BY <1>2, <1>4, <2>2 DEF StatusEvidence
    <2> QED
      BY <2>1, <2>3 DEF Moved
  <1> QED
    BY <1>1, <1>3, <1>4

LEMMA ReviewHasEvidence ==
  ASSUME IInv, state \notin {None, Torn}, state \in StateFile, Real(state),
         temp # None, temp.kind = "review", temp.to # Torn,
         temp.to \in StateFile, Real(temp.to), Leads("review", state, temp.to),
         ~ReviewEvidence(temp.to)
  PROVE  Moved
  <1>1. src[Review] \in Nat /\ temp.to.mark \in Nat
    BY OrderFacts DEF IInv, DiskTypes, StateFile
  <1>2. /\ temp.to.review = "building" => review.place = "none"
        /\ temp.to.review = "verified" => review.place = "staging"
        /\ temp.to.review = "published" => review.place = "canonical"
    BY DEF Real, Leads
  <1>3. temp.to.review = "raced" => src[Review] # temp.to.mark
    BY <1>1 DEF Leads
  <1>4. src[Review] # temp.to.mark
    BY <1>2, <1>3 DEF ReviewEvidence
  <1> QED
    BY <1>4 DEF Moved

LEMMA RealRecover == ASSUME IInv, CInv, Recover PROVE CInv'
  <1>1. /\ pc = "recover"
        /\ UNCHANGED <<src, frozen, sealed, brain, review, progress, manifest>>
    BY DEF Recover, legacy, stores
  <1>2. goal = None /\ state \notin {None, Torn} /\ state \in StateFile /\ Sound(state)
        /\ Real(state)
    BY <1>1, Standing DEF CInv, StateIsReal
  <1>3. ASSUME Refuse, UNCHANGED <<state, temp>>, Caused PROVE CInv'
    BY <1>1, <1>3, RealRefuses
  <1>4. \A st \in StateFile : AfterRecovery(st) \in {"rebase", "validate"}
    BY DEF AfterRecovery
  <1>5. CASE temp = None
    <2>1. pc' \in {"rebase", "validate"} /\ UNCHANGED <<goal, state, temp>>
      BY <1>1, <1>2, <1>4, <1>5 DEF Recover, Go
    <2>2. RunIsReal'
      BY <2>1 DEF RunIsReal
    <2> QED
      BY <1>1, <1>2, <2>1, <2>2, RealGoes
  <1>6. CASE temp # None /\ temp.to = Torn
    <2>1. Refuse /\ UNCHANGED <<state, temp>> /\ Caused
      BY <1>1, <1>6 DEF Recover, Caused, TornFile
    <2> QED
      BY <1>3, <2>1
  <1> SUFFICES ASSUME temp # None, temp.to # Torn PROVE CInv'
    BY <1>5, <1>6
  <1>7. /\ temp.to \in StateFile /\ Sound(temp.to) /\ Follows(state, temp.to)
        /\ Real(temp.to) /\ Leads(temp.kind, state, temp.to)
    BY DEF IInv, TempFits, DiskTypes, Replacement, CInv, ReplacementIsReal
  <1>8. CASE Rebuilt
    <2>1. temp.kind = "status" /\ state.status = "building" /\ state.phase = "pending"
      BY <1>2, <1>8 DEF Rebuilt, Sound
    <2>2. temp.to.status = "verified" /\ brain.place = "staging" /\ brain.row = "in_progress"
      <3>1. brain.place \in {"none", "staging"}
        BY <1>2, <2>1 DEF Real
      <3>2. temp.to.status \in Status /\ temp.to.status # "building"
        BY <1>7, <2>1 DEF Leads, StateFile
      <3>3. temp.to.status = "verified"
        BY <1>7, <3>1, <3>2 DEF Real, Status
      <3> QED
        BY <1>7, <3>1, <3>3 DEF Real
    <2>3. CASE Unmoved
      <3>1. temp' = None /\ pc' = "discard" /\ UNCHANGED <<goal, state>>
        BY <1>1, <1>8, <2>2, <2>3 DEF Recover, Go
      <3>2. StateIsReal' /\ ReplacementIsReal' /\ RunIsReal' /\ RefusalHasCause'
        BY <1>1, <1>2, <3>1 DEF CInv, StateIsReal, ReplacementIsReal, RunIsReal,
                                RefusalHasCause, Real
      <3> QED
        BY <3>2 DEF CInv
    <2>4. CASE ~Unmoved
      <3>1. Refuse /\ UNCHANGED <<state, temp>>
        BY <1>1, <1>8, <2>4 DEF Recover
      <3>2. Caused
        BY <1>2, <2>1, <2>4 DEF Caused, Moved
      <3> QED
        BY <1>3, <3>1, <3>2
    <2> QED
      BY <2>3, <2>4
  <1>9. CASE ~Rebuilt /\ Evidence
    <2>1. state' = temp.to /\ temp' = None /\ pc' = AfterRecovery(temp.to) /\ goal' = goal
      BY <1>1, <1>9 DEF Recover, Go
    <2>2. pc' \in Target \cup {"rebase"}
      BY <1>4, <1>7, <2>1 DEF Target
    <2> QED
      BY <1>1, <1>2, <1>7, <2>1, <2>2, RealAdopts
  <1>10. CASE ~Rebuilt /\ ~Evidence
    <2>1. Refuse /\ UNCHANGED <<state, temp>>
      BY <1>1, <1>10 DEF Recover
    <2>2. CASE temp.kind = "status"
      <3>1. state.status # "building" /\ ~StatusEvidence(temp.to)
        BY <1>10, <2>2 DEF Rebuilt, Evidence
      <3>2. Moved
        BY <1>2, <1>7, <2>2, <3>1, StatusHasEvidence
      <3> QED
        BY <1>3, <2>1, <3>2 DEF Caused
    <2>3. CASE temp.kind = "review"
      <3>1. ~ReviewEvidence(temp.to)
        BY <1>10, <2>3 DEF Evidence
      <3>2. Moved
        BY <1>2, <1>7, <2>3, <3>1, ReviewHasEvidence
      <3> QED
        BY <1>3, <2>1, <3>2 DEF Caused
    <2>4. CASE temp.kind \notin {"status", "review"}
      BY <1>10, <2>4 DEF Evidence
    <2> QED
      BY <2>2, <2>3, <2>4
  <1> QED
    BY <1>8, <1>9, <1>10

LEMMA RealRebase == ASSUME IInv, CInv, Rebase PROVE CInv'
  <1>1. /\ pc = "rebase"
        /\ UNCHANGED <<src, frozen, sealed, state, temp, brain, review, progress, manifest>>
    BY DEF Rebase, legacy, stores
  <1>2. /\ goal = None /\ temp = None /\ state \notin {None, Torn} /\ state \in StateFile
        /\ Real(state) /\ Sound(state) /\ state.status = "building"
    BY <1>1, Standing DEF At, CInv, StateIsReal
  <1>3. brain.place \in {"none", "staging"}
    BY <1>2 DEF Real
  <1>4. StateIsReal'
    BY <1>1 DEF CInv, StateIsReal, Real
  <1>5. CASE Unmoved
    <2>1. pc' = "validate" /\ goal' = None
      BY <1>2, <1>3, <1>5 DEF Rebase, Go
    <2>2. RunIsReal'
      BY <2>1 DEF RunIsReal
    <2> QED
      BY <1>1, <2>1, <2>2, RealGoes
  <1>6. CASE ~Unmoved
    <2>0. PICK nx : nx = [state EXCEPT !.fp = Fingerprints]
      OBVIOUS
    <2>1. Refuse \/ Replace("rebase", nx, "validate")
      BY <1>3, <1>6, <2>0 DEF Rebase
    <2>2. /\ nx.status = state.status /\ nx.review = state.review /\ nx.phase = state.phase
          /\ nx.mark = state.mark /\ nx.digest = state.digest
      BY <1>2, <2>0 DEF StateFile
    <2>3. Real(nx)' /\ Leads("rebase", state, nx)
      BY <1>1, <1>2, <2>2 DEF Real, Leads
    <2>4. CASE Refuse
      <3>1. state.phase = "pending"
        BY <1>2 DEF Sound
      <3>2. Caused
        BY <1>2, <1>6, <3>1 DEF Caused, Moved
      <3> QED
        BY <1>1, <2>4, <3>2, RealRefuses
    <2>5. CASE Replace("rebase", nx, "validate")
      BY <1>1, <1>2, <1>4, <2>3, <2>5, RealReplaces
    <2> QED
      BY <2>1, <2>4, <2>5
  <1> QED
    BY <1>5, <1>6

LEMMA RealValidate == ASSUME IInv, CInv, Validate PROVE CInv'
  <1>1. /\ pc = "validate"
        /\ UNCHANGED <<src, frozen, sealed, state, temp, brain, review, progress, manifest>>
    BY DEF Validate, legacy, stores
  <1>2. /\ goal = None /\ temp = None /\ state \notin {None, Torn} /\ state \in StateFile
        /\ Real(state) /\ Sound(state)
    BY <1>1, Standing DEF CInv, StateIsReal
  <1>3. CASE Valid
    <2>1. pc' = AfterValidation /\ goal' = None
      BY <1>2, <1>3 DEF Validate, Go
    <2>2. pc' \in {"restage", "stage", "republish", "freezeGuard", "review", "completeRow", "idle"}
      BY <1>2, <2>1 DEF AfterValidation, StateFile, Status
    <2>3. RunIsReal'
      BY <2>2 DEF RunIsReal
    <2> QED
      BY <1>1, <2>1, <2>2, <2>3, RealGoes
  <1>4. CASE ~Valid
    <2>1. Refuse
      BY <1>4 DEF Validate
    <2>2. PresenceFits
      BY <1>2 DEF PresenceFits, Real, StateFile, Status
    <2>3. ManifestFits
      BY <1>2 DEF ManifestFits, Real, StateFile, Phase
    <2>4. /\ state.status = "complete" => OpensCurrent
          /\ state.status \in {"verified", "published"} => brain.row = "in_progress"
          /\ state.status = "published" /\ state.review = "published" => review.place = "canonical"
          /\ state.status \in {"legacyFrozen", "complete"} => state.phase # "pending"
      BY <1>2 DEF Real, Sound, OpensCurrent
    <2>5. state.status = "building" => brain.row # "complete"
      BY DEF IInv, MarkIsLast
    <2>6. brain.row \in {"new", "in_progress", "complete"}
      BY DEF IInv, DiskTypes
    <2>7. \/ brain.sidecars
          \/ state.phase # "pending" /\ ~Intact
          \/ state.phase = "pending" /\ ~Unmoved
          \/ brain.place = "staging" /\ brain.row = "new"
          \/ review.content = "open"
      BY <1>4, <2>2, <2>3, <2>4, <2>5, <2>6 DEF Valid
    <2>8. Caused
      BY <1>2, <2>7 DEF Caused, HalfStore, Moved
    <2> QED
      BY <1>1, <2>1, <2>8, RealRefuses
  <1> QED
    BY <1>3, <1>4
--------------------------------------------------------------------------------
(* The Brain database *)

\* At a point of the run after the recovery the state is real and settled.
LEMMA StandsReal ==
  ASSUME IInv, CInv, pc \notin {"idle", "refused", "create", "open", "write", "rename", "recover"}
  PROVE  /\ goal = None /\ temp = None /\ state \notin {None, Torn} /\ state \in StateFile
         /\ Sound(state) /\ At(pc, state) /\ Real(state)
         /\ (review.place = "none" <=> review.content = "none")
  BY Standing DEF CInv, StateIsReal

\* A step that changes the Brain database and nothing else.
LEMMA BrainMoves ==
  ASSUME IInv, CInv, UNCHANGED <<src, state, temp, review, manifest>>, temp = None,
         state \notin {None, Torn}, Real(state)', goal' = None,
         pc' \notin {"write", "refused"}, RunIsReal'
  PROVE  CInv'
  <1>1. StateIsReal'
    BY DEF CInv, StateIsReal
  <1> QED
    BY <1>1, RealMoves

LEMMA RealDiscard == ASSUME IInv, CInv, Discard PROVE CInv'
  <1>1. /\ pc \in {"discard", "restage"} /\ UNCHANGED <<src, state, temp, review, manifest, goal>>
        /\ brain' = NoBrain /\ pc' \in {"rebase", "stage"}
    BY DEF Discard, Go, legacy
  <1>2. /\ goal = None /\ temp = None /\ state \notin {None, Torn} /\ state.status = "building"
        /\ Real(state)
    BY <1>1, StandsReal DEF At
  <1>3. Real(state)'
    BY <1>1, <1>2 DEF Real, NoBrain
  <1>4. RunIsReal'
    BY <1>1 DEF RunIsReal
  <1> QED
    BY <1>1, <1>2, <1>3, <1>4, BrainMoves

LEMMA RealStage == ASSUME IInv, CInv, Stage PROVE CInv'
  <1>1. /\ pc = "stage" /\ UNCHANGED <<src, state, temp, review, manifest, goal>>
    BY DEF Stage, Go, legacy
  <1>2. /\ goal = None /\ temp = None /\ state \notin {None, Torn} /\ state.status = "building"
        /\ Real(state) /\ brain.place \in {"none", "staging"}
    BY <1>1, StandsReal DEF At, Real
  <1>3. brain'.place = "staging" /\ (pc' = "stage" \/ (pc' = "import" /\ brain'.row = "in_progress"))
    BY <1>1, <1>2 DEF Stage, Go, NoBrain, IInv, DiskTypes
  <1>4. Real(state)'
    BY <1>1, <1>2, <1>3 DEF Real
  <1>5. RunIsReal'
    BY <1>3 DEF RunIsReal
  <1> QED
    BY <1>1, <1>2, <1>3, <1>4, <1>5, BrainMoves

LEMMA RealImport == ASSUME IInv, CInv, Import PROVE CInv'
  <1>1. /\ pc = "import" /\ pc' = pc /\ UNCHANGED <<src, state, temp, review, manifest, goal>>
        /\ brain'.place = brain.place /\ brain'.row = brain.row
    BY DEF Import, legacy, IInv, DiskTypes
  <1>2. goal = None /\ temp = None /\ state \notin {None, Torn} /\ Real(state)
    BY <1>1, StandsReal
  <1>3. Real(state)'
    BY <1>1, <1>2 DEF Real
  <1>4. RunIsReal'
    BY <1>1 DEF CInv, RunIsReal
  <1> QED
    BY <1>1, <1>2, <1>3, <1>4, BrainMoves

\* A new status that the database bears out.
LEMMA StatusReplaces ==
  ASSUME IInv, CInv, UNCHANGED <<src, state, temp, review, manifest>>,
         brain'.place = brain.place, brain'.row = brain.row, temp = None,
         state \notin {None, Torn}, state \in StateFile, Real(state),
         NEW x \in Status, NEW p, Replace("status", [state EXCEPT !.status = x], p),
         \/ x = "verified" /\ state.status = "building" /\ brain.place = "staging"
            /\ brain.row = "in_progress"
         \/ x = "published" /\ state.status = "verified" /\ brain.place = "canonical"
         \/ x = "legacyFrozen" /\ brain.place = "canonical"
         \/ x = "complete" /\ brain.place = "canonical" /\ brain.row = "complete"
  PROVE  CInv'
  <1>1. PICK nx : nx = [state EXCEPT !.status = x]
    OBVIOUS
  <1>2. /\ nx.status = x /\ nx.review = state.review /\ nx.phase = state.phase
        /\ nx.mark = state.mark /\ nx.digest = state.digest
    BY <1>1 DEF StateFile
  <1>3. Real(nx)' /\ Leads("status", state, nx)
    BY <1>2 DEF Real, Leads
  <1>4. StateIsReal'
    BY DEF CInv, StateIsReal, Real
  <1> QED
    BY <1>1, <1>3, <1>4, RealReplaces

LEMMA RealCompare == ASSUME IInv, CInv, Compare PROVE CInv'
  <1>1. /\ pc = "import"
        /\ UNCHANGED <<src, frozen, sealed, state, temp, brain, review, progress, manifest>>
    BY DEF Compare, legacy, stores
  <1>2. /\ temp = None /\ state \notin {None, Torn} /\ state.status = "building"
        /\ state \in StateFile /\ Real(state) /\ state.phase = "pending"
        /\ brain.place = "staging" /\ brain.row = "in_progress"
    BY <1>1, StandsReal DEF At, IInv, RunFits, CInv, RunIsReal, Sound
  <1>3. CASE Unmoved
    <2>1. Replace("status", [state EXCEPT !.status = "verified"], "publish")
      BY <1>3 DEF Compare
    <2> QED
      BY <1>1, <1>2, <2>1, StatusReplaces DEF Status
  <1>4. CASE ~Unmoved
    <2>1. Refuse
      BY <1>4 DEF Compare
    <2>2. Caused
      BY <1>2, <1>4 DEF Caused, Moved
    <2> QED
      BY <1>1, <2>1, <2>2, RealRefuses
  <1> QED
    BY <1>3, <1>4

LEMMA RealPublish == ASSUME IInv, CInv, Publish PROVE CInv'
  <1>1. /\ pc \in {"publish", "republish"} /\ pc' = pc
        /\ UNCHANGED <<src, state, temp, review, manifest, goal>>
        /\ brain'.place \in {"linked", "canonical"} /\ brain'.row = brain.row
    BY DEF Publish, legacy, control, IInv, DiskTypes
  <1>2. /\ goal = None /\ temp = None /\ state \notin {None, Torn} /\ state.status = "verified"
        /\ Real(state)
    BY <1>1, StandsReal DEF At
  <1>3. Real(state)'
    BY <1>1, <1>2 DEF Real
  <1>4. RunIsReal'
    BY <1>1 DEF RunIsReal
  <1> QED
    BY <1>1, <1>2, <1>3, <1>4, BrainMoves

LEMMA RealAnnounce == ASSUME IInv, CInv, Announce PROVE CInv'
  <1>1. /\ pc \in {"publish", "republish"} /\ brain.place = "canonical"
        /\ UNCHANGED <<src, frozen, sealed, state, temp, brain, review, progress, manifest>>
    BY DEF Announce, legacy, stores
  <1>2. /\ temp = None /\ state \notin {None, Torn} /\ state.status = "verified"
        /\ state \in StateFile /\ Real(state) /\ state.phase = "pending"
    BY <1>1, StandsReal DEF At, Sound
  <1>3. CASE pc = "republish" /\ ~Unmoved
    <2>1. Refuse /\ Caused
      BY <1>2, <1>3 DEF Announce, Caused, Moved
    <2> QED
      BY <1>1, <2>1, RealRefuses
  <1>4. CASE ~(pc = "republish" /\ ~Unmoved)
    <2>1. Replace("status", [state EXCEPT !.status = "published"], "review")
      BY <1>4 DEF Announce
    <2> QED
      BY <1>1, <1>2, <2>1, StatusReplaces DEF Status
  <1> QED
    BY <1>3, <1>4
--------------------------------------------------------------------------------
(* The review database *)

\* A result of the review that the review database bears out.
LEMMA RealSettles ==
  ASSUME IInv, CInv, UNCHANGED <<src, state, temp, brain, manifest>>, temp = None,
         state \notin {None, Torn}, state \in StateFile, Real(state), Real(state)',
         NEW x \in ReviewResult, NEW m \in Nat, Settle(x, m),
         m <= src[Review], x = "raced" => m < src[Review],
         x = "building" => state.review = "pending" /\ review'.place = "none",
         x = "verified" => state.review = "building" /\ review'.place = "staging",
         x = "published" => review'.place = "canonical",
         x # "pending",
         (review.place = "none" <=> review.content = "none")'
  PROVE  CInv'
  <1>1. PICK nx : nx = [state EXCEPT !.review = x, !.mark = m]
    OBVIOUS
  <1>2. /\ nx.status = state.status /\ nx.review = x /\ nx.phase = state.phase
        /\ nx.mark = m /\ nx.digest = state.digest
    BY <1>1 DEF StateFile
  <1>3. Real(nx)' /\ Leads("review", state, nx)
    BY <1>2 DEF Real, Leads
  <1>4. StateIsReal'
    BY DEF CInv, StateIsReal
  <1>5. PICK p : Replace("review", nx, p)
    BY <1>1 DEF Settle
  <1> QED
    BY <1>3, <1>4, <1>5, RealReplaces

LEMMA RealReadReview == ASSUME IInv, CInv, ReadReview PROVE CInv'
  <1>1. /\ pc = "review" /\ state.review = "pending" /\ pc' = "reviewRead"
        /\ seen' = src[Review] /\ UNCHANGED <<goal, src, state, temp, brain, review, manifest>>
    BY DEF ReadReview, legacy, stores
  <1>2. goal = None /\ src[Review] \in Nat
    BY <1>1, StandsReal, OrderFacts DEF IInv, DiskTypes
  <1>3. RunIsReal'
    BY <1>1, <1>2 DEF RunIsReal
  <1> QED
    BY <1>1, <1>2, <1>3, RealGoes

LEMMA RealJudgeReview == ASSUME IInv, CInv, JudgeReview PROVE CInv'
  <1>1. /\ pc = "reviewRead" /\ UNCHANGED <<src, state, temp, brain, review, manifest>>
    BY DEF JudgeReview, legacy, stores
  <1>2. PICK x \in {"unusable", "raced", "building"} :
          Settle(x, seen) /\ (x = "raced" => src[Review] # seen)
    BY DEF JudgeReview
  <1>3. /\ temp = None /\ state \notin {None, Torn} /\ state \in StateFile /\ Real(state)
        /\ (review.place = "none" <=> review.content = "none")
    BY <1>1, StandsReal
  <1>4. state.review = "pending" /\ seen <= src[Review] /\ seen \in Nat /\ src[Review] \in Nat
    BY <1>1, OrderFacts DEF CInv, RunIsReal, IInv, RunTypes, DiskTypes
  <1>5. review.place = "none"
    BY <1>3, <1>4 DEF Real
  <1>6. Real(state)'
    BY <1>1, <1>3 DEF Real
  <1>7. x \in ReviewResult /\ x # "pending" /\ x \notin {"verified", "published"}
    BY DEF ReviewResult
  <1>8. x = "raced" => seen < src[Review]
    BY <1>2, <1>4
  <1> QED
    BY <1>1, <1>2, <1>3, <1>4, <1>5, <1>6, <1>7, <1>8, RealSettles

\* The review database changes while the review is being built.
LEMMA ReviewMoves ==
  ASSUME IInv, CInv, UNCHANGED <<src, state, temp, brain, manifest>>, temp = None,
         state \notin {None, Torn}, Real(state)', goal' = None,
         (review.place = "none" <=> review.content = "none")',
         pc' \notin {"write", "refused"}, RunIsReal'
  PROVE  CInv'
  <1>1. StateIsReal'
    BY DEF CInv, StateIsReal
  <1> QED
    BY <1>1, RealMoves

LEMMA RealBuildReview == ASSUME IInv, CInv, BuildReview PROVE CInv'
  <1>1. /\ pc = "review" /\ state.review = "building"
        /\ UNCHANGED <<src, frozen, sealed, state, temp, brain, progress, manifest>>
    BY DEF BuildReview, legacy
  <1>2. /\ goal = None /\ temp = None /\ state \notin {None, Torn} /\ state \in StateFile
        /\ Real(state) /\ (review.place = "none" <=> review.content = "none")
    BY <1>1, StandsReal
  <1>3. state.mark \in Nat /\ src[Review] \in Nat /\ state.mark <= src[Review]
        /\ review.place \in {"none", "staging"}
    BY <1>1, <1>2, OrderFacts DEF StateFile, Real, IInv, DiskTypes
  <1>4. CASE /\ UNCHANGED review
             /\ \/ src[Review] # state.mark /\ Settle("raced", state.mark)
                \/ Settle("unusable", state.mark)
                \/ review.content = "full" /\ Settle("verified", state.mark)
    <2>1. PICK x \in {"raced", "unusable", "verified"} :
            /\ Settle(x, state.mark) /\ (x = "raced" => src[Review] # state.mark)
            /\ x = "verified" => review.content = "full"
      BY <1>4
    <2>2. x \in ReviewResult /\ x # "pending" /\ x \notin {"building", "published"}
      BY DEF ReviewResult
    <2>3. x = "raced" => state.mark < src[Review]
      BY <1>3, <2>1
    <2>4. x = "verified" => review.place = "staging"
      BY <1>2, <1>3, <2>1
    <2>5. Real(state)'
      BY <1>1, <1>2, <1>4 DEF Real
    <2> QED
      BY <1>1, <1>2, <1>3, <1>4, <2>1, <2>2, <2>3, <2>4, <2>5, RealSettles
  <1>5. CASE review.content = "open" /\ Refuse /\ UNCHANGED review
    <2>1. Caused
      BY <1>5 DEF Caused, HalfStore
    <2> QED
      BY <1>1, <1>5, <2>1, RealRefuses
  <1>6. CASE \/ /\ review.content = "none" /\ pc' = "reviewCreated" /\ goal' = goal
                /\ review' = [place |-> "staging", content |-> "open"]
             \/ /\ review.content = "empty" /\ pc' = "reviewFilled" /\ goal' = goal
                /\ review' = [review EXCEPT !.content = "open"]
    <2>1. review'.place = "staging" /\ review'.content = "open"
      BY <1>2, <1>3, <1>6 DEF IInv, DiskTypes
    <2>2. Real(state)'
      BY <1>1, <1>2, <2>1 DEF Real
    <2>3. RunIsReal'
      BY <1>1, <1>6, <2>1 DEF RunIsReal
    <2> QED
      BY <1>1, <1>2, <1>6, <2>1, <2>2, <2>3, ReviewMoves
  <1>7. review.content \in {"none", "open", "empty", "full"}
    BY DEF IInv, DiskTypes
  <1> QED
    BY <1>4, <1>5, <1>6, <1>7 DEF BuildReview, Go

LEMMA RealCloseReview == ASSUME IInv, CInv, CloseReview PROVE CInv'
  <1>1. /\ pc \in {"reviewCreated", "reviewFilled"}
        /\ UNCHANGED <<src, state, temp, brain, progress, manifest>>
    BY DEF CloseReview, legacy
  <1>2. /\ goal = None /\ temp = None /\ state \notin {None, Torn} /\ state \in StateFile
        /\ Real(state)
    BY <1>1, StandsReal
  <1>3. state.review = "building" /\ review.place = "staging"
    BY <1>1 DEF CInv, RunIsReal
  <1>4. state.mark \in Nat /\ src[Review] \in Nat /\ state.mark <= src[Review]
    BY <1>2, OrderFacts DEF StateFile, Real, IInv, DiskTypes
  <1>5. review'.place = "staging" /\ review'.content \in {"empty", "open", "full"}
    BY <1>3 DEF CloseReview, IInv, DiskTypes
  <1>6. Real(state)'
    BY <1>1, <1>2, <1>3, <1>5 DEF Real
  <1>7. CASE pc' \in {"reviewCreated", "reviewFilled"} /\ goal' = goal
    <2>1. RunIsReal'
      BY <1>1, <1>3, <1>5, <1>7 DEF RunIsReal
    <2> QED
      BY <1>1, <1>2, <1>5, <1>6, <1>7, <2>1, ReviewMoves
  <1>8. CASE Settle("verified", state.mark)
    BY <1>1, <1>2, <1>3, <1>4, <1>5, <1>6, <1>8, RealSettles DEF ReviewResult
  <1> QED
    BY <1>7, <1>8 DEF CloseReview, Go

LEMMA RealPublishReview == ASSUME IInv, CInv, PublishReview PROVE CInv'
  <1>1. /\ pc = "review" /\ state.review = "verified"
        /\ UNCHANGED <<src, state, temp, brain, progress, manifest>>
    BY DEF PublishReview, legacy
  <1>2. /\ goal = None /\ temp = None /\ state \notin {None, Torn} /\ state \in StateFile
        /\ Real(state) /\ (review.place = "none" <=> review.content = "none")
    BY <1>1, StandsReal
  <1>3. state.mark \in Nat /\ src[Review] \in Nat /\ state.mark <= src[Review]
        /\ review.place # "none"
    BY <1>1, <1>2, OrderFacts DEF StateFile, Real, IInv, DiskTypes
  <1>4. CASE review.place = "canonical"
    <2>1. Settle("published", state.mark) /\ UNCHANGED review
      BY <1>1, <1>4 DEF PublishReview
    <2>2. Real(state)'
      BY <1>1, <1>2, <2>1 DEF Real
    <2> QED
      BY <1>1, <1>2, <1>3, <1>4, <2>1, <2>2, RealSettles DEF ReviewResult
  <1>5. CASE review.place # "canonical"
    <2>1. /\ pc' = "review" /\ goal' = goal /\ review'.place \in {"linked", "canonical"}
          /\ review'.content = review.content
      BY <1>1, <1>5 DEF PublishReview, Go, IInv, DiskTypes
    <2>2. Real(state)'
      BY <1>1, <1>2, <2>1 DEF Real
    <2>3. RunIsReal'
      BY <2>1 DEF RunIsReal
    <2> QED
      BY <1>1, <1>2, <1>3, <2>1, <2>2, <2>3, ReviewMoves
  <1> QED
    BY <1>4, <1>5
--------------------------------------------------------------------------------
(* The freeze *)

\* A new phase that the manifest bears out.
LEMMA PhaseReplaces ==
  ASSUME IInv, CInv, UNCHANGED <<src, state, temp, brain, review, manifest>>, temp = None,
         state \notin {None, Torn}, state \in StateFile, Real(state),
         NEW ph \in Phase, NEW p, ReplacePhase(ph, p),
         \/ ph \in {"ready", "directoryFreezing", "directoryFrozen"} /\ manifest = "none"
         \/ ph = "manifestBuilding" /\ manifest = "none"
         \/ ph = "manifestVerified" /\ manifest = "staging"
         \/ ph = "manifestPublished" /\ manifest = "published"
  PROVE  CInv'
  <1>1. PICK nx : nx = [state EXCEPT !.phase = ph]
    OBVIOUS
  <1>2. /\ nx.status = state.status /\ nx.review = state.review /\ nx.phase = ph
        /\ nx.mark = state.mark /\ nx.digest = state.digest
    BY <1>1 DEF StateFile
  <1>3. Real(nx)' /\ Leads("freeze", state, nx)
    BY <1>2 DEF Real, Leads
  <1>4. StateIsReal'
    BY DEF CInv, StateIsReal, Real
  <1>5. Replace("freeze", nx, p)
    BY <1>1 DEF ReplacePhase
  <1> QED
    BY <1>3, <1>4, <1>5, RealReplaces

LEMMA RealFreezeGuard == ASSUME IInv, CInv, FreezeGuard PROVE CInv'
  <1>1. /\ pc = "freezeGuard"
        /\ UNCHANGED <<src, frozen, sealed, state, temp, brain, review, progress, manifest>>
    BY DEF FreezeGuard, legacy, stores
  <1>2. /\ goal = None /\ temp = None /\ state \notin {None, Torn} /\ state \in StateFile
        /\ Real(state) /\ state.status = "published"
    BY <1>1, StandsReal DEF At
  <1>3. CASE state.phase = "pending" /\ Unmoved /\ (ReviewIncluded => src[Review] = state.mark)
    <2>1. PICK nx : nx = [state EXCEPT !.phase = "building", !.digest = src]
      OBVIOUS
    <2>2. Replace("freeze", nx, "progress")
      BY <1>3, <2>1 DEF FreezeGuard
    <2>3. /\ nx.status = state.status /\ nx.review = state.review /\ nx.phase = "building"
          /\ nx.mark = state.mark /\ nx.digest = src
      BY <1>2, <2>1 DEF StateFile
    <2>4. src[Review] \in Nat
      BY OrderFacts DEF IInv, DiskTypes
    <2>5. Real(nx)' /\ Leads("freeze", state, nx)
      BY <1>1, <1>2, <1>3, <2>3, <2>4 DEF Real, Leads
    <2>6. StateIsReal'
      BY <1>1 DEF CInv, StateIsReal, Real
    <2> QED
      BY <1>1, <1>2, <2>2, <2>5, <2>6, RealReplaces
  <1>4. CASE state.phase = "pending" /\ ~(Unmoved /\ (ReviewIncluded => src[Review] = state.mark))
    <2>1. Refuse
      BY <1>4 DEF FreezeGuard
    <2>2. Caused
      BY <1>2, <1>4 DEF Caused, Moved
    <2> QED
      BY <1>1, <2>1, <2>2, RealRefuses
  <1>5. CASE state.phase # "pending" /\ progress.copy[Journals] = "none"
    <2>1. pc' = "progress" /\ goal' = None
      BY <1>2, <1>5 DEF FreezeGuard
    <2>2. RunIsReal'
      BY <2>1 DEF RunIsReal
    <2> QED
      BY <1>1, <2>1, <2>2, RealGoes
  <1>6. CASE state.phase # "pending" /\ progress.copy[Journals] # "none"
    <2>1. Refuse /\ Caused
      BY <1>6 DEF FreezeGuard, Caused, OwnCopy
    <2> QED
      BY <1>1, <2>1, RealRefuses
  <1> QED
    BY <1>3, <1>4, <1>5, <1>6

LEMMA RealEnsureProgress == ASSUME IInv, CInv, EnsureProgress PROVE CInv'
  <1>1. /\ pc = "progress" /\ UNCHANGED <<src, state, temp, brain, review, manifest>>
    BY DEF EnsureProgress, legacy
  <1>2. /\ goal = None /\ temp = None /\ state \notin {None, Torn} /\ state \in StateFile
        /\ Real(state)
    BY <1>1, StandsReal
  <1>3. CASE state.phase = "building"
    <2>1. ReplacePhase("ready", "records") /\ manifest = "none"
      BY <1>2, <1>3 DEF EnsureProgress, Real
    <2> QED
      BY <1>1, <1>2, <2>1, PhaseReplaces DEF Phase
  <1>4. CASE state.phase # "building"
    <2>1. pc' = "records" /\ goal' = None
      BY <1>2, <1>4 DEF EnsureProgress, Go
    <2>2. RunIsReal'
      BY <2>1 DEF RunIsReal
    <2> QED
      BY <1>1, <2>1, <2>2, RealGoes
  <1> QED
    BY <1>3, <1>4

\* A step among the files that are being frozen.
LEMMA FreezeGoes ==
  ASSUME IInv, CInv, UNCHANGED <<src, state, temp, brain, review, manifest, goal>>,
         pc \in {"records", "record", "freeze"}, pc' \in {"records", "record", "freeze"}
  PROVE  CInv'
  <1>1. goal = None
    BY StandsReal
  <1>2. RunIsReal'
    BY DEF RunIsReal
  <1> QED
    BY <1>1, <1>2, RealGoes

LEMMA RealWriteRecord == ASSUME IInv, CInv, WriteRecord PROVE CInv'
  BY FreezeGoes DEF WriteRecord, legacy

LEMMA RealAdoptUpdate == ASSUME IInv, CInv, NEW s \in Source, AdoptUpdate(s) PROVE CInv'
  BY FreezeGoes DEF AdoptUpdate, legacy, control

LEMMA RealFreezeFile == ASSUME IInv, CInv, FreezeFile PROVE CInv'
  BY FreezeGoes DEF FreezeFile, control

LEMMA RealCheckRecords == ASSUME IInv, CInv, CheckRecords PROVE CInv'
  <1>1. /\ pc = "records"
        /\ UNCHANGED <<src, frozen, sealed, state, temp, brain, review, progress, manifest>>
    BY DEF CheckRecords, legacy, stores
  <1>2. /\ goal = None /\ state \notin {None, Torn} /\ state \in StateFile
        /\ state.phase \notin {"pending", "building"} /\ state.phase \in Phase
    BY <1>1, StandsReal DEF At, StateFile
  <1>3. CASE ~TornRecord /\ Intact
    <2>1. pc' = AfterRecords /\ goal' = None
      BY <1>2, <1>3 DEF CheckRecords, Go
    <2>2. AfterRecords \in {"freeze", "freezeDirectory", "manifest", "manifestWrite",
                            "manifestPublish", "legacyFrozen"}
      BY <1>2 DEF AfterRecords, Phase
    <2>3. RunIsReal' /\ pc' \notin {"write", "refused"}
      BY <2>1, <2>2 DEF RunIsReal
    <2> QED
      BY <1>1, <2>1, <2>3, RealGoes
  <1>4. CASE ~(~TornRecord /\ Intact)
    <2>1. Refuse
      BY <1>4 DEF CheckRecords
    <2>2. Caused
      BY <1>2, <1>4 DEF Caused, TornFile, Moved
    <2> QED
      BY <1>1, <2>1, <2>2, RealRefuses
  <1> QED
    BY <1>3, <1>4

LEMMA RealFilesFrozen == ASSUME IInv, CInv, FilesFrozen PROVE CInv'
  <1>1. /\ pc = "freeze" /\ UNCHANGED <<src, state, temp, brain, review, manifest>>
        /\ ReplacePhase("directoryFreezing", "freezeDirectory")
    BY DEF FilesFrozen, legacy, stores
  <1>2. /\ temp = None /\ state \notin {None, Torn} /\ state \in StateFile
        /\ Real(state) /\ state.phase = "ready"
    BY <1>1, StandsReal DEF At
  <1>3. manifest = "none"
    BY <1>2 DEF Real
  <1> QED
    BY <1>1, <1>2, <1>3, PhaseReplaces DEF Phase

LEMMA RealFreezeDirectory == ASSUME IInv, CInv, FreezeDirectory PROVE CInv'
  <1>1. /\ pc = "freezeDirectory" /\ UNCHANGED <<src, state, temp, brain, review, manifest>>
        /\ ReplacePhase("directoryFrozen", "manifest")
    BY DEF FreezeDirectory, stores
  <1>2. /\ temp = None /\ state \notin {None, Torn} /\ state \in StateFile
        /\ Real(state) /\ state.phase = "directoryFreezing"
    BY <1>1, StandsReal DEF At
  <1>3. manifest = "none"
    BY <1>2 DEF Real
  <1> QED
    BY <1>1, <1>2, <1>3, PhaseReplaces DEF Phase

\* A step of the run that writes the manifest.
LEMMA ManifestMoves ==
  ASSUME IInv, CInv, UNCHANGED <<src, state, temp, brain, review, goal>>,
         \/ /\ pc = "manifestWrite" /\ pc' = "manifestFill"
            /\ manifest = "none" /\ manifest' = "torn"
         \/ /\ pc = "manifestFill" /\ pc' = "manifestWrite" /\ manifest' = "staging"
         \/ /\ pc = "manifestPublish" /\ pc' = "manifestPublish"
            /\ manifest' \in {"linked", "published"}
  PROVE  CInv'
  <1>1. /\ goal = None /\ temp = None /\ state \notin {None, Torn} /\ state \in StateFile
        /\ Real(state) /\ At(pc, state)
    BY StandsReal
  <1>2. /\ pc # "manifestPublish" => state.phase = "manifestBuilding"
        /\ pc = "manifestPublish" => state.phase = "manifestVerified"
    BY <1>1 DEF At
  <1>3. Real(state)'
    BY <1>1, <1>2 DEF Real
  <1>4. StateIsReal'
    BY <1>1, <1>3 DEF CInv, StateIsReal
  <1>5. RunIsReal'
    BY DEF RunIsReal
  <1> QED
    BY <1>1, <1>4, <1>5, RealMoves

LEMMA RealWriteManifest == ASSUME IInv, CInv, WriteManifest PROVE CInv'
  <1>1. /\ pc \in {"manifest", "manifestWrite", "manifestFill"}
        /\ UNCHANGED <<src, frozen, sealed, state, temp, brain, review, progress>>
    BY DEF WriteManifest, legacy
  <1>2. /\ temp = None /\ state \notin {None, Torn} /\ state \in StateFile
        /\ Real(state) /\ At(pc, state)
    BY <1>1, StandsReal
  <1>3. CASE pc = "manifest"
    <2>1. ReplacePhase("manifestBuilding", "manifestWrite") /\ manifest' = manifest
      BY <1>3 DEF WriteManifest
    <2>2. manifest = "none"
      BY <1>2, <1>3 DEF At, Real
    <2> QED
      BY <1>1, <1>2, <2>1, <2>2, PhaseReplaces DEF Phase
  <1>4. CASE pc = "manifestWrite" /\ manifest = "none" /\ manifest' = "torn" /\ Go("manifestFill")
    BY <1>1, <1>4, ManifestMoves DEF Go
  <1>5. CASE manifest = "torn" /\ Refuse /\ manifest' = manifest
    <2>1. Caused
      BY <1>5 DEF Caused, TornFile
    <2> QED
      BY <1>1, <1>5, <2>1, RealRefuses
  <1>6. CASE /\ manifest = "staging" /\ manifest' = manifest
             /\ ReplacePhase("manifestVerified", "manifestPublish")
    BY <1>1, <1>2, <1>6, PhaseReplaces DEF Phase
  <1>7. CASE pc = "manifestFill" /\ manifest' = "staging" /\ Go("manifestWrite")
    BY <1>1, <1>7, ManifestMoves DEF Go
  <1> QED
    BY <1>3, <1>4, <1>5, <1>6, <1>7 DEF WriteManifest

LEMMA RealPublishManifest == ASSUME IInv, CInv, PublishManifest PROVE CInv'
  <1>1. /\ pc = "manifestPublish" /\ UNCHANGED <<src, state, temp, brain, review>>
    BY DEF PublishManifest, legacy
  <1>2. /\ temp = None /\ state \notin {None, Torn} /\ state \in StateFile /\ Real(state)
    BY <1>1, StandsReal
  <1>3. CASE manifest' \in {"linked", "published"} /\ Go("manifestPublish")
    BY <1>1, <1>3, ManifestMoves DEF Go
  <1>4. CASE /\ manifest = "published" /\ manifest' = manifest
             /\ ReplacePhase("manifestPublished", "legacyFrozen")
    BY <1>1, <1>2, <1>4, PhaseReplaces DEF Phase
  <1> QED
    BY <1>3, <1>4 DEF PublishManifest

LEMMA RealMarkFrozen == ASSUME IInv, CInv, MarkFrozen PROVE CInv'
  <1>1. /\ pc = "legacyFrozen" /\ UNCHANGED <<src, state, temp, brain, review, manifest>>
        /\ Replace("status", [state EXCEPT !.status = "legacyFrozen"], "completeRow")
    BY DEF MarkFrozen, legacy, stores
  <1>2. /\ temp = None /\ state \notin {None, Torn} /\ state \in StateFile /\ Real(state)
        /\ state.status = "published"
    BY <1>1, StandsReal DEF At
  <1>3. brain.place = "canonical"
    BY <1>2 DEF Real
  <1> QED
    BY <1>1, <1>2, <1>3, StatusReplaces DEF Status

LEMMA RealCompleteRow == ASSUME IInv, CInv, CompleteRow PROVE CInv'
  <1>1. /\ pc \in {"completeRow", "enterWal", "closeRow"}
        /\ UNCHANGED <<src, state, temp, review, manifest>>
    BY DEF CompleteRow, legacy
  <1>2. /\ goal = None /\ temp = None /\ state \notin {None, Torn} /\ state \in StateFile
        /\ Real(state) /\ state.status = "legacyFrozen" /\ brain.place = "canonical"
    BY <1>1, StandsReal DEF At, Real
  <1>3. /\ brain'.place = "canonical"
        /\ brain'.row = IF pc = "completeRow" THEN "complete" ELSE brain.row
    BY <1>1, <1>2 DEF CompleteRow, IInv, DiskTypes
  <1>4. pc # "completeRow" => brain.row = "complete"
    BY <1>1 DEF CInv, RunIsReal
  <1>5. Real(state)'
    BY <1>1, <1>2, <1>3 DEF Real
  <1>6. CASE pc # "closeRow"
    <2>1. pc' \in {"enterWal", "closeRow"} /\ goal' = None /\ brain'.row = "complete"
      BY <1>1, <1>2, <1>3, <1>4, <1>6 DEF CompleteRow, Go
    <2>2. RunIsReal'
      BY <2>1 DEF RunIsReal
    <2> QED
      BY <1>1, <1>2, <1>5, <2>1, <2>2, BrainMoves
  <1>7. CASE pc = "closeRow"
    <2>1. Replace("status", [state EXCEPT !.status = "complete"], "idle")
      BY <1>7 DEF CompleteRow
    <2> QED
      BY <1>1, <1>2, <1>3, <1>4, <1>7, <2>1, StatusReplaces DEF Status
  <1> QED
    BY <1>6, <1>7
--------------------------------------------------------------------------------
LEMMA InitIsReal == ASSUME Init PROVE CInv
  BY DEF Init, NoBrain, NoReview, CInv, StateIsReal, ReplacementIsReal, RunIsReal,
         RefusalHasCause

LEMMA CauseStays == ASSUME IInv, CInv, [Next]_vars PROVE CInv'
  <1>1. CASE Step
    <2>1. CASE Start \/ CreateState \/ Recover \/ Rebase \/ Validate \/ Exit
      BY <2>1, RealStart, RealCreateState, RealRecover, RealRebase, RealValidate, RealExit
    <2>2. CASE OpenTemp \/ WriteTemp \/ RenameTemp
      BY <2>2, RealOpenTemp, RealWriteTemp, RealRenameTemp
    <2>3. CASE Discard \/ Stage \/ Import \/ Compare \/ Publish \/ Announce
      BY <2>3, RealDiscard, RealStage, RealImport, RealCompare, RealPublish, RealAnnounce
    <2>4. CASE ReadReview \/ JudgeReview \/ BuildReview \/ CloseReview \/ PublishReview
      BY <2>4, RealReadReview, RealJudgeReview, RealBuildReview, RealCloseReview,
         RealPublishReview
    <2>5. CASE FreezeGuard \/ EnsureProgress \/ WriteRecord \/ CheckRecords
      BY <2>5, RealFreezeGuard, RealEnsureProgress, RealWriteRecord, RealCheckRecords
    <2>6. CASE \E s \in Source : AdoptUpdate(s)
      BY <2>6, RealAdoptUpdate
    <2>7. CASE FreezeFile \/ FilesFrozen \/ FreezeDirectory
      BY <2>7, RealFreezeFile, RealFilesFrozen, RealFreezeDirectory
    <2>8. CASE WriteManifest \/ PublishManifest \/ MarkFrozen \/ CompleteRow
      BY <2>8, RealWriteManifest, RealPublishManifest, RealMarkFrozen, RealCompleteRow
    <2> QED
      BY <1>1, <2>1, <2>2, <2>3, <2>4, <2>5, <2>6, <2>7, <2>8 DEF Step
  <1>2. CASE HookLoad \/ HookLook \/ HookOpen \/ HookDone
    BY <1>2, RealQuiet DEF HookLoad, HookLook, HookOpen, HookDone
  <1>3. CASE UNCHANGED vars
    BY <1>3, RealQuiet DEF vars
  <1> QED
    BY <1>1, <1>2, <1>3, RealLegacyWrite, RealCrash DEF Next, Environment

\* A run that refuses to go on has one of the four causes: a file created and never
\* filled, a database left half made, a copy of a journal of the freeze itself, a
\* legacy file written after it was recorded.  No point at which a run can die, and no
\* interleaving with the old processes, leaves the cutover stuck for another reason.
THEOREM RefusalsHaveCauses == Spec => []RefusalHasCause
  <1>1. Init => CInv
    BY InitIsReal
  <1>2. IInv /\ CInv /\ [Next]_vars => CInv'
    BY CauseStays
  <1>3. CInv => RefusalHasCause
    BY DEF CInv
  <1>4. Spec => []IInv
    BY Invariance
  <1> QED
    BY <1>1, <1>2, <1>3, <1>4, PTL DEF Spec
================================================================================
