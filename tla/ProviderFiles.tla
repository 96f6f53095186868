---------------------------- MODULE ProviderFiles ----------------------------
(* The change of several provider configuration files as one transaction     *)
(* (src/init/provider_hooks/mod.rs): a journal of the edits, a prepared       *)
(* temporary file per replacement, and a recovery that any later command runs *)
(* first.  Commands of any number of processes, users who edit the files,     *)
(* crashes and failing system calls interleave between any two of its steps.  *)
(*                                                                            *)
(* A file is what the user wrote in it and whether it holds the managed       *)
(* hooks.  A file that does not exist is the empty one.                       *)
EXTENDS Naturals, FiniteSets

CONSTANTS Proc, File, None,
          Doctor,        \* processes that recover and change nothing themselves
          MaxVersion,    \* bound: texts the user writes
          MaxCommands,   \* bound: transactions that are staged
          MaxFaults      \* bound: crashes and failing calls

ASSUME NoneIsNoFile == None \notin File
ASSUME DoctorsAreProcesses == Doctor \subseteq Proc
ASSUME BoundsAreNumbers == {MaxVersion, MaxCommands, MaxFaults} \subseteq Nat

VARIABLES file, journal, temps,              \* on disk
          pc, purpose, tx,                   \* a command and its transaction
          rec, todo, at, concurrent,         \* a recovery
          version, commands, faults,         \* bounded counters
          latest, raced, touched, overlap, last, applied   \* history

disk == <<file, journal, temps>>
control == <<pc, purpose, tx>>
recovery == <<rec, todo, at, concurrent>>
user == <<version, latest, raced, touched>>
report == <<commands, overlap, last, applied>>
vars == <<disk, control, recovery, user, report, faults>>

Content == [text : 0..MaxVersion, hooks : BOOLEAN]
Edit == [original : Content, replacement : Content]
Edits == UNION {[S -> Edit] : S \in SUBSET File}
Journal == [id : 0..MaxCommands, edits : Edits,
            replaced : SUBSET File, inFlight : File \cup {None}]
NoEdits == [f \in {} |-> None]
NoJournal == [id |-> 0, edits |-> NoEdits, replaced |-> {}, inFlight |-> None]

Paths(j) == DOMAIN j.edits
Temp(j) == <<j.id, j.inFlight>>

Init == /\ file = [f \in File |-> [text |-> 0, hooks |-> FALSE]]
        /\ journal = NoJournal /\ temps = {}
        /\ pc = [p \in Proc |-> "idle"]
        /\ purpose = [p \in Proc |-> "command"]
        /\ tx = [p \in Proc |-> NoJournal]
        /\ rec = [p \in Proc |-> NoJournal]
        /\ todo = [p \in Proc |-> {}]
        /\ at = [p \in Proc |-> None]
        /\ concurrent = [p \in Proc |-> FALSE]
        /\ version = 0 /\ commands = 0 /\ faults = 0
        /\ latest = [f \in File |-> 0] /\ raced = {} /\ touched = {}
        /\ overlap = FALSE /\ last = NoEdits /\ applied = FALSE

-------------------------------------------------------------------------------
(* Helpers of the steps of a command. *)

Goto(p, l) == pc' = [pc EXCEPT ![p] = l]

\* A call fails; it may have taken effect or not.
Fault == faults < MaxFaults /\ faults' = faults + 1

\* A process that returns or dies keeps nothing.
Gone(p) == /\ Goto(p, "idle")
           /\ purpose' = [purpose EXCEPT ![p] = "command"]
           /\ tx' = [tx EXCEPT ![p] = NoJournal]

Return(p) == Gone(p) /\ UNCHANGED report

Succeed(p) == /\ Gone(p)
              /\ applied' = TRUE
              /\ UNCHANGED <<commands, overlap, last>>

\* The end of a recovery: its reading of the journal is dropped.
Forget(p) == /\ rec' = [rec EXCEPT ![p] = NoJournal]
             /\ todo' = [todo EXCEPT ![p] = {}]
             /\ at' = [at EXCEPT ![p] = None]
             /\ concurrent' = [concurrent EXCEPT ![p] = FALSE]

Rollback(p) == /\ Goto(p, "recover")
               /\ purpose' = [purpose EXCEPT ![p] = "rollback"]
               /\ UNCHANGED tx

-------------------------------------------------------------------------------
(* Recovery *)

\* Every command recovers before anything else, the doctor does nothing more.
Command(p) ==
  /\ pc[p] = "idle"
  /\ Goto(p, "recover")
  /\ purpose' = [purpose EXCEPT ![p] = "command"]
  /\ overlap' = (overlap \/ \E q \in Proc : pc[q] # "idle")
  /\ UNCHANGED <<disk, tx, recovery, user, commands, last, applied, faults>>

\* Mutant of Proceed: a transaction that was rolled back reports success.
ProceedSwallowing(p, conc) ==
  CASE purpose[p] = "command" ->
         Goto(p, "staging") /\ UNCHANGED <<purpose, tx, report>>
    [] purpose[p] = "apply" /\ ~conc /\ Paths(tx[p]) # {} ->
         Goto(p, "begin") /\ UNCHANGED <<purpose, tx, report>>
    [] purpose[p] = "apply" /\ conc -> Return(p)
    [] OTHER -> Succeed(p)

\* What follows a recovery that succeeded.
Proceed(p, conc) ==
  CASE purpose[p] = "command" ->
         Goto(p, "staging") /\ UNCHANGED <<purpose, tx, report>>
    [] purpose[p] = "apply" /\ conc -> Return(p)
    [] purpose[p] = "apply" /\ ~conc /\ Paths(tx[p]) = {} -> Succeed(p)
    [] purpose[p] = "apply" /\ ~conc /\ Paths(tx[p]) # {} ->
         Goto(p, "begin") /\ UNCHANGED <<purpose, tx, report>>
    [] purpose[p] = "rollback" -> Return(p)

\* The temporary file that a rollback outlives is removed when it returns.
Dropped(p) == IF purpose[p] = "rollback" THEN {Temp(tx[p])} ELSE {}

NothingToRecover(p) ==
  /\ pc[p] = "recover" /\ journal = NoJournal
  /\ Proceed(p, FALSE)
  /\ temps' = temps \ Dropped(p)
  /\ UNCHANGED <<file, journal, recovery, user, faults>>

ReadJournal(p) ==
  /\ pc[p] = "recover" /\ journal # NoJournal
  /\ rec' = [rec EXCEPT ![p] = journal]
  /\ todo' = [todo EXCEPT ![p] = journal.replaced]
  /\ Goto(p, "probe")
  /\ UNCHANGED <<disk, purpose, tx, at, concurrent, user, report, faults>>

\* Mutant of ToRecover: only what the journal calls replaced is restored.
ToRecoverRecorded(j) == {}

\* A temporary file that is still there was never renamed: its target is not
\* touched.
ToRecover(j) == IF j.inFlight = None \/ Temp(j) \in temps THEN {} ELSE {j.inFlight}

ProbeTemporary(p) ==
  /\ pc[p] = "probe"
  /\ todo' = [todo EXCEPT ![p] = @ \cup ToRecover(rec[p])]
  /\ Goto(p, "compare")
  /\ UNCHANGED <<disk, purpose, tx, rec, at, concurrent, user, report, faults>>

\* The three cases of recover_replaced_edit.
Compare(p, f) ==
  /\ pc[p] = "compare" /\ f \in todo[p]
  /\ LET edit == rec[p].edits[f]
         ours == file[f] = edit.replacement
     IN /\ Goto(p, IF ours THEN "verify" ELSE "compare")
        /\ at' = [at EXCEPT ![p] = IF ours THEN f ELSE None]
        /\ concurrent' = [concurrent EXCEPT ![p] =
                            @ \/ (~ours /\ file[f] # edit.original)]
        /\ todo' = [todo EXCEPT ![p] = @ \ {f}]
  /\ UNCHANGED <<disk, purpose, tx, rec, user, report, faults>>

\* restore_original looks at the file once more and then replaces it.
RecoveryFails(p) ==
  /\ Return(p) /\ Forget(p)
  /\ temps' = temps \ Dropped(p)

Verify(p) ==
  /\ pc[p] = "verify"
  /\ IF file[at[p]] = rec[p].edits[at[p]].replacement
     THEN Goto(p, "restore") /\ UNCHANGED <<temps, purpose, tx, recovery, report>>
     ELSE RecoveryFails(p)
  /\ UNCHANGED <<file, journal, user, faults>>

Restore(p) ==
  /\ pc[p] = "restore"
  /\ file' = [file EXCEPT ![at[p]] = rec[p].edits[at[p]].original]
  /\ at' = [at EXCEPT ![p] = None]
  /\ Goto(p, "compare")
  /\ UNCHANGED <<journal, temps, purpose, tx, rec, todo, concurrent, user, report, faults>>

\* Mutant of FinishRecovery: a journal with concurrent changes is kept.
FinishRecoveryKeeping(p) ==
  /\ pc[p] = "compare" /\ todo[p] = {}
  /\ journal' = IF concurrent[p] THEN journal ELSE NoJournal
  /\ temps' = temps \ ({Temp(rec[p])} \cup Dropped(p))
  /\ Proceed(p, concurrent[p]) /\ Forget(p)
  /\ UNCHANGED <<file, user, faults>>

FinishRecovery(p) ==
  /\ pc[p] = "compare" /\ todo[p] = {}
  /\ journal' = NoJournal
  /\ temps' = temps \ ({Temp(rec[p])} \cup Dropped(p))
  /\ Proceed(p, concurrent[p]) /\ Forget(p)
  /\ UNCHANGED <<file, user, faults>>

\* Any call of a recovery fails, after the journal is gone or before.
RecoveryFault(p) ==
  /\ pc[p] \in {"recover", "probe", "compare", "verify", "restore"}
  /\ Fault
  /\ \/ UNCHANGED <<file, journal>>
     \/ /\ pc[p] = "restore"
        /\ file' = [file EXCEPT ![at[p]] = rec[p].edits[at[p]].original]
        /\ UNCHANGED journal
     \/ /\ pc[p] = "compare" /\ todo[p] = {}
        /\ journal' = NoJournal
        /\ UNCHANGED file
  /\ RecoveryFails(p)
  /\ UNCHANGED user

-------------------------------------------------------------------------------
(* The transaction *)

\* Only the hooks change; a file that already is as wanted needs no edit.
Replacing(S, h) ==
  [f \in {g \in S : file[g].hooks # h} |->
     [original |-> file[f], replacement |-> [file[f] EXCEPT !.hooks = h]]]

Stage(p, S, h) ==
  /\ pc[p] = "staging" /\ p \notin Doctor /\ commands < MaxCommands
  /\ commands' = commands + 1
  /\ tx' = [tx EXCEPT ![p] = [NoJournal EXCEPT !.id = commands + 1,
                                               !.edits = Replacing(S, h)]]
  /\ purpose' = [purpose EXCEPT ![p] = "apply"]
  /\ Goto(p, "recover")
  /\ touched' = {} /\ last' = Replacing(S, h) /\ applied' = FALSE
  /\ UNCHANGED <<disk, recovery, version, latest, raced, overlap, faults>>

\* The doctor, or a command that only recovers.
Leave(p) == /\ pc[p] = "staging"
            /\ Return(p)
            /\ UNCHANGED <<disk, recovery, user, faults>>

Persist(p, l) == journal' = tx[p] /\ Goto(p, l)

Begin(p) ==
  /\ pc[p] = "begin"
  /\ Persist(p, "prepare")
  /\ UNCHANGED <<file, temps, purpose, tx, recovery, user, report, faults>>

\* The first write of the journal is the one whose failure is returned as it is.
BeginFails(p) ==
  /\ pc[p] = "begin" /\ Fault
  /\ journal' \in {journal, tx[p]}
  /\ Return(p)
  /\ UNCHANGED <<file, temps, recovery, user>>

Prepare(p, f) ==
  /\ pc[p] = "prepare" /\ f \in Paths(tx[p]) \ tx[p].replaced
  /\ tx' = [tx EXCEPT ![p].inFlight = f]
  /\ temps' = temps \cup {<<tx[p].id, f>>}
  /\ Goto(p, "intend")
  /\ UNCHANGED <<file, journal, purpose, recovery, user, report, faults>>

Intend(p) ==
  /\ pc[p] = "intend"
  /\ Persist(p, "check")
  /\ UNCHANGED <<file, temps, purpose, tx, recovery, user, report, faults>>

Target(p) == tx[p].inFlight

\* Mutant of Check: the file is replaced whatever became of it.
CheckBlindly(p) ==
  /\ pc[p] = "check"
  /\ Goto(p, "rename")
  /\ UNCHANGED <<disk, purpose, tx, recovery, user, report, faults>>

Check(p) ==
  /\ pc[p] = "check"
  /\ IF file[Target(p)] = tx[p].edits[Target(p)].original
     THEN Goto(p, "rename") /\ UNCHANGED <<purpose, tx>>
     ELSE Rollback(p)
  /\ UNCHANGED <<disk, recovery, user, report, faults>>

Replaced(p) == /\ file' = [file EXCEPT ![Target(p)] = tx[p].edits[Target(p)].replacement]
               /\ temps' = temps \ {Temp(tx[p])}

Rename(p) ==
  /\ pc[p] = "rename" /\ Temp(tx[p]) \in temps
  /\ Replaced(p)
  /\ Goto(p, "record")
  /\ UNCHANGED <<journal, purpose, tx, recovery, user, report, faults>>

\* Another process's recovery removed the temporary file: the rename fails.
RenameMisses(p) ==
  /\ pc[p] = "rename" /\ Temp(tx[p]) \notin temps
  /\ Rollback(p)
  /\ UNCHANGED <<disk, recovery, user, report, faults>>

Recorded(j) == [j EXCEPT !.replaced = @ \cup {j.inFlight}, !.inFlight = None]

Record(p) ==
  /\ pc[p] = "record"
  /\ tx' = [tx EXCEPT ![p] = Recorded(@)]
  /\ journal' = tx'[p]
  /\ Goto(p, IF tx'[p].replaced = Paths(tx[p]) THEN "finish" ELSE "prepare")
  /\ UNCHANGED <<file, temps, purpose, recovery, user, report, faults>>

Finish(p) ==
  /\ pc[p] = "finish"
  /\ journal' = NoJournal
  /\ Succeed(p)
  /\ UNCHANGED <<file, temps, recovery, user, faults>>

\* Any other call of the transaction fails, with its effect or without, and the
\* transaction is rolled back.
ApplyFault(p) ==
  /\ pc[p] \in {"prepare", "intend", "check", "rename", "record", "finish"}
  /\ Fault
  /\ \/ UNCHANGED disk
     \/ pc[p] = "intend" /\ journal' = tx[p] /\ UNCHANGED <<file, temps>>
     \/ pc[p] = "rename" /\ Temp(tx[p]) \in temps /\ Replaced(p) /\ UNCHANGED journal
     \/ pc[p] = "record" /\ journal' = Recorded(tx[p]) /\ UNCHANGED <<file, temps>>
     \/ pc[p] = "finish" /\ journal' = NoJournal /\ UNCHANGED <<file, temps>>
  /\ Rollback(p)
  /\ UNCHANGED <<recovery, user, report>>

-------------------------------------------------------------------------------
(* The environment *)

\* A process dies; what it prepared stays on disk.
Crash(p) ==
  /\ pc[p] # "idle" /\ Fault
  /\ Return(p) /\ Forget(p)
  /\ UNCHANGED <<disk, user>>

\* Processes that have looked at f and are about to replace it.
AboutToReplace(f) ==
  {p \in Proc : \/ pc[p] = "rename" /\ Target(p) = f
                \/ pc[p] = "restore" /\ at[p] = f}

UserWrites(f) ==
  /\ version < MaxVersion
  /\ version' = version + 1
  /\ \E t \in {file[f].text, version + 1}, h \in BOOLEAN :
       /\ file' = [file EXCEPT ![f] = [text |-> t, hooks |-> h]]
       /\ latest' = [latest EXCEPT ![f] = t]
  /\ touched' = touched \cup {f}
  /\ raced' = IF AboutToReplace(f) = {} THEN raced ELSE raced \cup {f}
  /\ UNCHANGED <<journal, temps, control, recovery, report, faults>>

Step(p) ==
  \/ NothingToRecover(p) \/ ReadJournal(p) \/ ProbeTemporary(p)
  \/ \E f \in File : Compare(p, f)
  \/ Verify(p) \/ Restore(p) \/ FinishRecovery(p)
  \/ \E S \in SUBSET File, h \in BOOLEAN : Stage(p, S, h)
  \/ Leave(p) \/ Begin(p)
  \/ \E f \in File : Prepare(p, f)
  \/ Intend(p) \/ Check(p) \/ Rename(p) \/ RenameMisses(p) \/ Record(p) \/ Finish(p)

Next == \/ \E p \in Proc : \/ Command(p) \/ Step(p) \/ Crash(p)
                           \/ RecoveryFault(p) \/ BeginFails(p) \/ ApplyFault(p)
        \/ \E f \in File : UserWrites(f)

Spec == Init /\ [][Next]_vars

\* A live process goes on, and some command is run again after a crash.
Fairness == \A p \in Proc : WF_vars(Step(p)) /\ WF_vars(Command(p))
LiveSpec == Spec /\ Fairness

-------------------------------------------------------------------------------
(* Properties *)

TypeOK ==
  /\ file \in [File -> Content]
  /\ journal \in Journal
  /\ temps \subseteq (0..MaxCommands) \X (File \cup {None})
  /\ pc \in [Proc -> {"idle", "recover", "probe", "compare", "verify", "restore",
                      "staging", "begin", "prepare", "intend", "check", "rename",
                      "record", "finish"}]
  /\ purpose \in [Proc -> {"command", "apply", "rollback"}]
  /\ tx \in [Proc -> Journal] /\ rec \in [Proc -> Journal]
  /\ todo \in [Proc -> SUBSET File]
  /\ at \in [Proc -> File \cup {None}]
  /\ concurrent \in [Proc -> BOOLEAN]
  /\ version \in 0..MaxVersion /\ commands \in 0..MaxCommands
  /\ faults \in 0..MaxFaults
  /\ latest \in [File -> 0..MaxVersion]
  /\ raced \subseteq File /\ touched \subseteq File
  /\ overlap \in BOOLEAN /\ last \in Edits
  /\ applied \in BOOLEAN

\* What a user wrote into a provider file stays there, whatever commands of
\* however many processes do to the file, die at or recover from, unless the
\* user wrote between the hash that guards a replacement and its rename
\* (commit_prepared_write, recover_replaced_edit).
UserTextSurvives == \A f \in File \ raced : file[f].text = latest[f]

AllReplaced == \A f \in DOMAIN last \ touched : file[f] = last[f].replacement
AllOriginal == \A f \in DOMAIN last \ touched : file[f] = last[f].original

\* Once a transaction is over or recovered, the files that the user left alone
\* are all replaced or all as they were, as long as commands do not overlap.
AllOrNothing ==
  (~overlap /\ journal = NoJournal /\ \A p \in Proc : pc[p] \in {"idle", "staging"})
    => AllReplaced \/ AllOriginal

\* A transaction that reports success has replaced every file that the user
\* left alone, as long as commands do not overlap.
SuccessIsComplete == (~overlap /\ applied) => AllReplaced

\* Why these hold.  An edit leaves the text alone, and a process that is about
\* to replace a file has seen the text that it writes back.
WellFormed(j) ==
  /\ j.replaced \subseteq Paths(j)
  /\ j.inFlight \in Paths(j) \cup {None}
  /\ \A f \in Paths(j) : j.edits[f].original.text = j.edits[f].replacement.text

KnowsText ==
  /\ WellFormed(journal)
  /\ \A p \in Proc :
       /\ WellFormed(tx[p]) /\ WellFormed(rec[p])
       /\ pc[p] \in {"intend", "check", "rename", "record"} => Target(p) \in File
       /\ todo[p] \subseteq Paths(rec[p])
       /\ pc[p] \in {"verify", "restore"} => at[p] \in Paths(rec[p])
       /\ pc[p] = "rename" /\ Target(p) \notin raced
            => tx[p].edits[Target(p)].original.text = latest[Target(p)]
       /\ pc[p] = "restore" /\ at[p] \notin raced
            => rec[p].edits[at[p]].original.text = latest[at[p]]

\* What the journal says of the files, and where a live process stands, while
\* commands do not overlap.
Untouched == DOMAIN last \ touched
Original(f) == file[f] = last[f].original
Changed(f) == file[f] = last[f].replacement
Alone(p) == \A q \in Proc \ {p} : pc[q] = "idle"

Explained(f) == \/ Original(f)
                \/ Changed(f) /\ f \in journal.replaced \cup ToRecover(journal)

Restored(p, S) == /\ rec[p] = journal /\ journal # NoJournal /\ purpose[p] # "apply"
                  /\ \A f \in Untouched \ S : Original(f)

Applying(p, j) ==
  /\ journal = j /\ purpose[p] = "apply" /\ tx[p].edits = last
  /\ \A f \in Untouched : IF f \in tx[p].replaced THEN Changed(f) ELSE Original(f) \/ f = Target(p)

Standing(p) ==
  CASE pc[p] \in {"idle", "recover"} -> TRUE
    [] pc[p] = "probe" -> Restored(p, File) /\ todo[p] = journal.replaced
    [] pc[p] = "compare" -> Restored(p, todo[p])
    [] pc[p] \in {"verify", "restore"} -> Restored(p, todo[p] \cup {at[p]})
    [] pc[p] = "staging" -> journal = NoJournal
    [] pc[p] = "begin" -> purpose[p] = "apply"
    [] pc[p] = "prepare" -> Applying(p, tx[p]) /\ Target(p) = None
    [] pc[p] = "intend" -> /\ Applying(p, [tx[p] EXCEPT !.inFlight = None])
                           /\ Temp(tx[p]) \in temps
                           /\ Target(p) \in Untouched => Original(Target(p))
    [] pc[p] \in {"check", "rename"} -> /\ Applying(p, tx[p]) /\ Temp(tx[p]) \in temps
                                        /\ Target(p) \in Untouched => Original(Target(p))
    [] pc[p] = "record" -> /\ Applying(p, tx[p]) /\ Temp(tx[p]) \notin temps
                           /\ Target(p) \in Untouched => Changed(Target(p))
    [] pc[p] = "finish" -> Applying(p, tx[p]) /\ Paths(tx[p]) = tx[p].replaced /\ Target(p) = None

Waiting(p) == /\ journal = NoJournal /\ AllOriginal
              /\ tx[p].replaced = {} /\ Target(p) = None

Placed(p) ==
  /\ Standing(p)
  /\ pc[p] = "idle" => purpose[p] = "command"
  /\ purpose[p] = "command" => tx[p] = NoJournal
  /\ purpose[p] # "command" => ~applied
  /\ purpose[p] = "apply" => tx[p].edits = last
  /\ purpose[p] = "apply" /\ pc[p] \in {"recover", "begin"} => Waiting(p)

Recoverable ==
  /\ journal = NoJournal => AllReplaced \/ AllOriginal
  /\ journal # NoJournal => /\ ~applied /\ journal.edits = last
                            /\ \A f \in Untouched : Explained(f)
  /\ applied => AllReplaced

Sound == ~overlap => /\ \A p \in Proc : Placed(p) /\ (pc[p] # "idle" => Alone(p))
                     /\ Recoverable

\* The inductive invariant.
IInv == TypeOK /\ UserTextSurvives /\ KnowsText /\ Sound

\* A journal that an interrupted transaction left is recovered and removed: no
\* crash, failure or user edit leaves one that every later command chokes on.
JournalIsResolved == journal # NoJournal ~> journal = NoJournal
===============================================================================
