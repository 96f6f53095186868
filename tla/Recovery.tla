------------------------------- MODULE Recovery -------------------------------
(***************************************************************************)
(* Automatic recovery (src/brain/recovery.rs): when an agent has stopped   *)
(* at a prompt that asks whether to go on, the Stop hook of that session   *)
(* and the pollers of every open TUI may all decide to continue it.        *)
(*                                                                         *)
(* The executors are processes and threads that share the database and     *)
(* the terminal panes and nothing else.  Each collects evidence, asks the  *)
(* model, looks at the evidence again, reserves the attempt, records that  *)
(* it is evaluating, looks at the evidence once more and only then types.  *)
(* Any of them may fail or die at any step, and sessions go on receiving   *)
(* events and repainting their panes meanwhile.                            *)
(*                                                                         *)
(* An attempt is a session and the sequence number of its stop.            *)
(* Diagnostics other than delivery_not_sent name a failure that says       *)
(* nothing of the pane; they are left out.                                 *)
(***************************************************************************)
EXTENDS LifecycleLog

CONSTANTS None,
          Hook,        \* Stop hook processes, each started by one event
          Worker,      \* poller threads, of one TUI or of several
          Prompt,      \* recovery prompts that differ in their fingerprint
          Reachable    \* sessions with a live process and exactly one pane

ASSUME ExecutorAssumption == Hook \cap Worker = {} /\ None \notin Session \cup Prompt
ASSUME ReachableAssumption == Reachable \subseteq Session

Executor == Hook \cup Worker
Attempt == Session \X (1..MaxSequence)
AuditState == {"evaluating", "delivered", "delivery_failed"}

\* Bound: two continues for one attempt are already one too many.
MaxSends == 2

VARIABLES
  structured, \* external: sessions whose provider takes its Stop hook's answer
  prompt,     \* external: the recovery prompt each session's pane shows, if any
  reserved,   \* recovery_reservations: epoch, and whether it is still warm
  audit,      \* activity of each attempt
  notSent,    \* attempts with a delivery_not_sent diagnostic
  sends,      \* history: continues each attempt has put in front of the agent
  pc, job     \* where each executor is, and what it works on

logVars == <<row, next>>
storeVars == <<reserved, audit, notSent>>
vars == <<logVars, storeVars, structured, prompt, sends, pc, job>>

Control == {"idle", "read", "probe", "infer", "check_row", "check_prompt", "reserve",
            "audit", "recheck_row", "recheck_prompt", "refresh_row", "refresh_prompt",
            "capture", "recapture", "send", "write", "confirm", "postflight",
            "told", "failed", "report", "gone"}

NoReservation == [epoch |-> 0, warm |-> FALSE]
NoJob == [session |-> None, epoch |-> 0, prompt |-> None, shown |-> None, clean |-> FALSE]

\* The stop it works for, the prompt that was decided, the prompt that the
\* terminal action recognised, and whether the failure left the pane alone.
Job == [session : Reachable \cup {None}, epoch : 0..MaxSequence,
        prompt : Prompt \cup {None}, shown : Prompt \cup {None}, clean : BOOLEAN]

TypeOK ==
  /\ LogTypeOK
  /\ structured \subseteq Reachable
  /\ prompt \in [Reachable -> Prompt \cup {None}]
  /\ reserved \in [Session -> [epoch : 0..MaxSequence, warm : BOOLEAN]]
  /\ audit \in [Attempt -> SUBSET AuditState]
  /\ notSent \subseteq Attempt
  /\ sends \in [Attempt -> 0..MaxSends]
  /\ pc \in [Executor -> Control]
  /\ job \in [Executor -> Job]
  /\ \A x \in Executor : pc[x] \notin {"idle", "gone"} =>
       job[x].session # None /\ job[x].epoch > 0

Init ==
  /\ LogInit
  /\ structured \in SUBSET Reachable
  /\ prompt \in [Reachable -> Prompt \cup {None}]
  /\ reserved = [s \in Session |-> NoReservation]
  /\ audit = [a \in Attempt |-> {}]
  /\ notSent = {}
  /\ sends = [a \in Attempt |-> 0]
  /\ pc = [x \in Executor |-> "idle"]
  /\ job = [x \in Executor |-> NoJob]

Of(x) == job[x].session
Key(x) == <<job[x].session, job[x].epoch>>

\* The stop the executor works for is still its session's latest event.
Current(x) == row[Of(x)] = [seq |-> job[x].epoch, stop |-> TRUE]

\* The prompt the model was asked about is still on the pane.
Unchanged(x) == prompt[Of(x)] = job[x].prompt

Goto(x, to) == pc' = [pc EXCEPT ![x] = to]

\* A hook process ends; a poller thread is free for another candidate.
Leave(x) ==
  /\ Goto(x, IF x \in Hook THEN "gone" ELSE "idle")
  /\ job' = [job EXCEPT ![x] = NoJob]

\* Delivery failed; clean says that no key was sent.
Fails(x, clean) ==
  /\ Goto(x, "failed")
  /\ job' = [job EXCEPT ![x].clean = clean]

------------------------------------------------------------------------------
(* The world. *)

\* Any event whose hook plays no part in recovery, stops out of auto mode among
\* them.  Nobody looks at whether a session out of reach has stopped.
OtherEvent ==
  /\ \E s \in Session, stop \in BOOLEAN, gone \in SUBSET Session :
       Hear(s, stop /\ s \in Reachable, gone)
  /\ UNCHANGED <<storeVars, prompt, sends, pc, job>>

Repaint ==
  /\ \E s \in Reachable, p \in Prompt \cup {None} :
       p # prompt[s] /\ prompt' = [prompt EXCEPT ![s] = p]
  /\ UNCHANGED <<logVars, storeVars, sends, pc, job>>

\* Ten seconds have passed since a reservation was made.
CoolDown ==
  /\ \E s \in Session :
       reserved[s].warm /\ reserved' = [reserved EXCEPT ![s].warm = FALSE]
  /\ UNCHANGED <<logVars, audit, notSent, prompt, sends, pc, job>>

\* Every reservation drops those of the sessions that are gone.
Pruned == [s \in Session |-> IF row[s].seq = 0 THEN NoReservation ELSE reserved[s]]

\* Some other session is reserved.
Prune ==
  /\ reserved' = Pruned
  /\ UNCHANGED <<logVars, audit, notSent, prompt, sends, pc, job>>

------------------------------------------------------------------------------
(* Collecting a candidate. *)

\* run_hook persists its own Stop first.
HearStop(x) ==
  /\ x \in Hook /\ pc[x] = "idle"
  /\ \E s \in Reachable, gone \in SUBSET Session :
       /\ Hear(s, TRUE, gone)
       /\ job' = [job EXCEPT ![x].session = s, ![x].epoch = next]
  /\ Goto(x, "read")
  /\ UNCHANGED <<storeVars, prompt, sends>>

\* hook_target: the stop must still be the latest event.
ReadStop(x) ==
  /\ pc[x] = "read" /\ Current(x)
  /\ Goto(x, "probe")
  /\ UNCHANGED <<logVars, storeVars, prompt, sends, job>>

\* recovery_target_for_session: a linked session whose latest event is a stop.
Scan(x) ==
  /\ x \in Worker /\ pc[x] = "idle"
  /\ \E s \in Reachable :
       /\ row[s].stop /\ row[s].seq > 0
       /\ job' = [job EXCEPT ![x].session = s, ![x].epoch = row[s].seq]
  /\ Goto(x, "probe")
  /\ UNCHANGED <<logVars, storeVars, prompt, sends>>

Probe(x) ==
  /\ pc[x] = "probe"
  /\ prompt[Of(x)] # None
  /\ job' = [job EXCEPT ![x].prompt = prompt[Of(x)]]
  /\ Goto(x, "infer")
  /\ UNCHANGED <<logVars, storeVars, prompt, sends>>

\* The model says continue, with enough confidence.
Infer(x) ==
  /\ pc[x] = "infer"
  /\ Goto(x, "check_row")
  /\ UNCHANGED <<logVars, storeVars, prompt, sends, job>>

\* The process dies, the TUI is closed, or an early return says nothing: the
\* mode is not auto, no target, no database.
Die(x) ==
  /\ pc[x] \notin {"idle", "gone"}
  /\ Leave(x)
  /\ UNCHANGED <<logVars, storeVars, prompt, sends>>

------------------------------------------------------------------------------
(* execute_recovery_with. *)

\* The evidence is read in two steps: the lifecycle row, then the pane.
RowChecks == {"check_row", "recheck_row", "refresh_row"}
PromptChecks == {"check_prompt", "recheck_prompt", "refresh_prompt"}

\* Where a confirmed check leads.
Then(x) ==
  CASE pc[x] = "check_row" -> "check_prompt"
    [] pc[x] = "check_prompt" -> "reserve"
    [] pc[x] = "recheck_row" -> "recheck_prompt"
    [] pc[x] = "recheck_prompt" ->
         IF x \in Worker THEN "refresh_row"
         ELSE IF Of(x) \in structured THEN "write" ELSE "capture"
    [] pc[x] = "refresh_row" -> "refresh_prompt"
    [] pc[x] = "refresh_prompt" -> "capture"

\* Mutant of ConfirmRow: only the first look compares the lifecycle row.
ConfirmRowOnce(x) ==
  /\ pc[x] \in RowChecks
  /\ pc[x] = "check_row" => Current(x)
  /\ Goto(x, Then(x))
  /\ UNCHANGED <<logVars, storeVars, prompt, sends, job>>
ConfirmRow(x) ==
  /\ pc[x] \in RowChecks /\ Current(x)
  /\ Goto(x, Then(x))
  /\ UNCHANGED <<logVars, storeVars, prompt, sends, job>>

ConfirmPrompt(x) ==
  /\ pc[x] \in PromptChecks /\ Unchanged(x)
  /\ Goto(x, Then(x))
  /\ UNCHANGED <<logVars, storeVars, prompt, sends, job>>

\* The model abstains or fails; the evidence changed or cannot be read.
Abstain(x) ==
  /\ pc[x] \in {"infer", "check_row", "check_prompt", "recheck_row", "recheck_prompt"}
  /\ Leave(x)
  /\ UNCHANGED <<logVars, storeVars, prompt, sends>>

\* The transaction of reserve_recovery: reservations of sessions that are gone
\* are dropped, then the attempt is refused or takes its session's row.
Refused(x) ==
  \/ row[Of(x)].seq = 0
  \/ Pruned[Of(x)].epoch >= job[x].epoch
  \/ Pruned[Of(x)].warm

ReserveRows(x) ==
  /\ ~ Refused(x)
  /\ reserved' = [Pruned EXCEPT ![Of(x)] = [epoch |-> job[x].epoch, warm |-> TRUE]]

Reserve(x) ==
  /\ pc[x] = "reserve"
  /\ ReserveRows(x)
  /\ Goto(x, "audit")
  /\ UNCHANGED <<logVars, audit, notSent, prompt, sends, job>>

\* Absent, duplicate or cooling: the transaction is rolled back, prune and all.
ReserveRefused(x) ==
  /\ pc[x] = "reserve" /\ Refused(x)
  /\ Leave(x)
  /\ UNCHANGED <<logVars, storeVars, prompt, sends>>

\* The reservation is reported as failed, whether or not it is durable.
ReserveFails(x) ==
  /\ pc[x] = "reserve"
  /\ UNCHANGED reserved \/ ReserveRows(x)
  /\ Leave(x)
  /\ UNCHANGED <<logVars, audit, notSent, prompt, sends>>

Note(x, state) == audit' = [audit EXCEPT ![Key(x)] = @ \cup {state}]

\* Mutant of AuditEvaluating: a failed audit does not stop the recovery.
AuditEvaluatingOrNot(x) ==
  /\ pc[x] = "audit"
  /\ Note(x, "evaluating") \/ UNCHANGED audit
  /\ Goto(x, "recheck_row")
  /\ UNCHANGED <<logVars, reserved, notSent, prompt, sends, job>>
AuditEvaluating(x) ==
  /\ pc[x] = "audit"
  /\ Note(x, "evaluating")
  /\ Goto(x, "recheck_row")
  /\ UNCHANGED <<logVars, reserved, notSent, prompt, sends, job>>

AuditFails(x) ==
  /\ pc[x] = "audit"
  /\ UNCHANGED audit \/ Note(x, "evaluating")
  /\ Leave(x)
  /\ UNCHANGED <<logVars, reserved, notSent, prompt, sends>>

------------------------------------------------------------------------------
(* execute_guarded_action_classified_with: it recognises a prompt of its own *)
(* and makes sure that the same prompt is there right before the keys.       *)

Capture(x) ==
  /\ pc[x] = "capture"
  /\ prompt[Of(x)] # None
  /\ job' = [job EXCEPT ![x].shown = prompt[Of(x)]]
  /\ Goto(x, "recapture")
  /\ UNCHANGED <<logVars, storeVars, prompt, sends>>

Recapture(x) ==
  /\ pc[x] = "recapture"
  /\ prompt[Of(x)] = job[x].shown
  /\ Goto(x, "send")
  /\ UNCHANGED <<logVars, storeVars, prompt, sends, job>>

\* Something is missing or has changed before the first key: nothing is sent.
NotSent(x) ==
  /\ pc[x] \in {"refresh_row", "refresh_prompt", "capture", "recapture"}
  /\ Fails(x, TRUE)
  /\ UNCHANGED <<logVars, storeVars, prompt, sends>>

Continue(x) == sends' = [sends EXCEPT ![Key(x)] = IF @ < MaxSends THEN @ + 1 ELSE @]

Send(x) ==
  /\ pc[x] = "send"
  /\ Continue(x)
  /\ Goto(x, "confirm")
  /\ UNCHANGED <<logVars, storeVars, prompt, job>>

\* Mutant of SendFails: an error of the send is taken for nothing sent.
SendFailsClean(x) ==
  /\ pc[x] = "send"
  /\ UNCHANGED sends \/ Continue(x)
  /\ Fails(x, TRUE)
  /\ UNCHANGED <<logVars, storeVars, prompt>>
\* A send call fails, with or without the keys on the pane.
SendFails(x) ==
  /\ pc[x] = "send"
  /\ UNCHANGED sends \/ Continue(x)
  /\ Leave(x)
  /\ UNCHANGED <<logVars, storeVars, prompt>>

\* The prompt advanced.
Confirm(x) ==
  /\ pc[x] = "confirm"
  /\ prompt[Of(x)] # job[x].shown
  /\ Goto(x, "postflight")
  /\ UNCHANGED <<logVars, storeVars, prompt, sends, job>>

\* The Antigravity hook answers its own Stop.
WriteContinue(x) ==
  /\ pc[x] = "write"
  /\ Continue(x)
  /\ Goto(x, "told")
  /\ UNCHANGED <<logVars, storeVars, prompt, job>>

WriteFails(x) ==
  /\ pc[x] = "write"
  /\ UNCHANGED sends \/ Continue(x)
  /\ Fails(x, FALSE)
  /\ UNCHANGED <<logVars, storeVars, prompt>>

------------------------------------------------------------------------------
(* What becomes known of it. *)

Postflight(x) ==
  /\ pc[x] = "postflight" /\ Current(x)
  /\ Goto(x, "told")
  /\ UNCHANGED <<logVars, storeVars, prompt, sends, job>>

\* The prompt or the evidence is not what a delivery would have left.
Unconfirmed(x) ==
  /\ pc[x] \in {"confirm", "postflight"}
  /\ Leave(x)
  /\ UNCHANGED <<logVars, storeVars, prompt, sends>>

AuditDelivered(x) ==
  /\ pc[x] = "told"
  /\ Note(x, "delivered")
  /\ Leave(x)
  /\ UNCHANGED <<logVars, reserved, notSent, prompt, sends>>

AuditDeliveredFails(x) ==
  /\ pc[x] = "told"
  /\ UNCHANGED audit \/ Note(x, "delivered")
  /\ Leave(x)
  /\ UNCHANGED <<logVars, reserved, notSent, prompt, sends>>

\* Whether this audit is stored is not looked at.
AuditFailed(x) ==
  /\ pc[x] = "failed"
  /\ UNCHANGED audit \/ Note(x, "delivery_failed")
  /\ IF job[x].clean THEN Goto(x, "report") /\ UNCHANGED job ELSE Leave(x)
  /\ UNCHANGED <<logVars, reserved, notSent, prompt, sends>>

\* append_recovery_activity_if_absent; it may fail.
Report(x) ==
  /\ pc[x] = "report"
  /\ notSent' = notSent \cup {Key(x)} \/ UNCHANGED notSent
  /\ Leave(x)
  /\ UNCHANGED <<logVars, reserved, audit, prompt, sends>>

Collect(x) == HearStop(x) \/ ReadStop(x) \/ Scan(x) \/ Probe(x)
Decide(x) == \/ Infer(x) \/ ConfirmRow(x) \/ ConfirmPrompt(x) \/ Abstain(x)
             \/ Reserve(x) \/ ReserveRefused(x) \/ ReserveFails(x)
             \/ AuditEvaluating(x) \/ AuditFails(x)
Deliver(x) == \/ Capture(x) \/ Recapture(x) \/ NotSent(x) \/ Send(x) \/ SendFails(x)
              \/ Confirm(x) \/ WriteContinue(x) \/ WriteFails(x)
Conclude(x) == \/ Postflight(x) \/ Unconfirmed(x) \/ AuditDelivered(x)
               \/ AuditDeliveredFails(x) \/ AuditFailed(x) \/ Report(x)

Next ==
  /\ \/ \E x \in Executor : Collect(x) \/ Decide(x) \/ Deliver(x) \/ Conclude(x) \/ Die(x)
     \/ OtherEvent
     \/ Repaint
     \/ CoolDown
     \/ Prune
  /\ UNCHANGED structured

Spec == Init /\ [][Next]_vars

------------------------------------------------------------------------------
(* Properties. *)

\* However many hooks and TUIs work on a session, and whatever is removed,
\* reported uncertain or dies between two steps, one stop is continued at most
\* once.
OneContinuePerAttempt == \A a \in Attempt : sends[a] <= 1

\* Nothing reaches an agent that the activity did not announce first, so a
\* crash after the keys leaves a trace.
ContinueIsAnnounced == \A a \in Attempt : sends[a] > 0 => "evaluating" \in audit[a]

\* The activity and the diagnostics of an attempt, written by whichever
\* executors worked on it, never contradict what happened to the agent: what
\* is called delivered was sent and is not also called failed, and what a pane
\* is said not to have received it has not.
RecordIsTruthful ==
  \A a \in Attempt :
    /\ "delivered" \in audit[a] => sends[a] > 0 /\ "delivery_failed" \notin audit[a]
    /\ a \in notSent => sends[a] = 0
    /\ "delivery_failed" \in audit[a] /\ a[1] \notin structured => sends[a] = 0

\* Documented: decisions bind to the prompt evidence and expire when it
\* changes.  The prompt that gets the keys should be the one that was decided.
ContinueAnswersDecidedPrompt ==
  \A x \in Executor : pc[x] = "send" => job[x].shown = job[x].prompt

------------------------------------------------------------------------------
(* Why these hold.  A stop that is not its session's latest event any more   *)
(* is never looked at again; while it is the latest, its reservation bars    *)
(* everyone but the executor that made it.                                   *)

Owned == {"audit", "recheck_row"}
Armed == {"recheck_prompt", "refresh_row", "refresh_prompt", "capture", "recapture",
          "send", "write"}
Late == Armed \cup {"confirm", "postflight", "told", "failed", "report"}
Working == Owned \cup Late

Fresh(a) == row[a[1]].seq = a[2]
Touched(a) == sends[a] > 0 \/ audit[a] \cap {"delivered", "delivery_failed"} # {} \/ a \in notSent

\* Numbers grow, so what is stale stays stale.
NumbersAreOld ==
  /\ \A s \in Session : row[s].seq < next
  /\ \A x \in Executor : job[x].epoch < next
  /\ \A a \in Attempt : Touched(a) => a[2] < next

FreshIsReserved ==
  /\ \A x \in Executor : pc[x] \in Working /\ Fresh(Key(x)) => reserved[Of(x)].epoch >= job[x].epoch
  /\ \A a \in Attempt : Touched(a) /\ Fresh(a) => reserved[a[1]].epoch >= a[2]

FreshHasOneOwner ==
  \A x, y \in Executor :
    pc[x] \in Working /\ pc[y] \in Working /\ Key(x) = Key(y) /\ Fresh(Key(x)) => x = y

LateIsAlone ==
  \A x, y \in Executor : pc[x] \in Late /\ pc[y] \in Late /\ Key(x) = Key(y) => x = y

OwnedIsUntouched ==
  \A x \in Executor : pc[x] \in Owned /\ Fresh(Key(x)) => ~ Touched(Key(x))

\* What an executor that may deliver, or has, knows of its attempt.
LateKnows ==
  \A x \in Executor :
    LET a == Key(x)
    IN  /\ pc[x] \in {"recheck_row"} \cup Late => "evaluating" \in audit[a]
        /\ pc[x] \in Armed => ~ Touched(a)
        /\ pc[x] = "write" => Of(x) \in structured
        /\ pc[x] \in Late => "delivered" \notin audit[a] /\ a \notin notSent
        /\ pc[x] \in {"confirm", "postflight", "told"} =>
             sends[a] > 0 /\ "delivery_failed" \notin audit[a]
        /\ pc[x] = "failed" => IF job[x].clean THEN sends[a] = 0 ELSE Of(x) \in structured
        /\ pc[x] = "report" => sends[a] = 0

IInv == /\ TypeOK
        /\ NumbersAreOld /\ FreshIsReserved /\ FreshHasOneOwner
        /\ LateIsAlone /\ OwnedIsUntouched /\ LateKnows
        /\ OneContinuePerAttempt /\ ContinueIsAnnounced /\ RecordIsTruthful
==============================================================================
