---------------------------- MODULE LifecycleHook ----------------------------
(* The process that a provider starts for a tool call, before and after it     *)
(* (src/lifecycle_hook.rs): it resolves the project, records the event in the  *)
(* lifecycle store, and appends what it observed to the activity journal.      *)
(* After a call it also looks in the journal for the permission decision that  *)
(* let the call run, and appends the outcome of that decision.  Hooks run      *)
(* concurrently, the permission hook decides between them, and each of them    *)
(* may be the last thing its process does.                                     *)
(*                                                                             *)
(* All calls are shell calls with the same command.                            *)
EXTENDS LifecycleSnapshot, ProjectCache

CONSTANTS Event,   \* what each hook is started for: [session, kind, call]
          TurnOf,  \* the open turn of each session
          Opens,   \* the sessions, in the order they started
          Scenes   \* bound: the situations looked at, see scene

ASSUME HooksAreForTools ==
  /\ DOMAIN Event = Hook
  /\ \A h \in Hook : Event[h].session \in Session /\ Event[h].kind \in Tool

Call == {Event[h].call : h \in Hook}
ASSUME CallsAreNamed == None \notin Call \cup Tool
ASSUME ScenesHaveHooks ==
  \A s \in Scenes : s.hooks \subseteq Hook /\ IsFiniteSet(s.hooks) /\ s.named \in BOOLEAN

SessionOf(c) == (CHOOSE e \in {Event[h] : h \in Hook} : e.call = c).session

VARIABLES scene,    \* [hooks: those that are started, late: those without time for
                    \*  the project, asked: the calls that may need a permission,
                    \*  named: whether permission requests name their call,
                    \*  edited: whether files change meanwhile]
          db,       \* the lifecycle store
          journal,  \* the activity journal
          asked,    \* what became of the permission for each call
          verdict   \* what a hook has to append after its observation

hookVars == <<scene, db, journal, asked, verdict>>
vars == <<cacheVars, hookVars>>

Lifecycle(h) == [kind |-> Event[h].kind, session |-> Event[h].session,
                 turn |-> TurnOf[Event[h].session], source |-> None,
                 agent |-> None, parent |-> None]

\* The store after the sessions have started and been given a prompt.
Opening(s, kind) ==
  IF kind = "SessionStart"
  THEN [kind |-> kind, session |-> s, turn |-> None, source |-> "startup",
        agent |-> None, parent |-> None]
  ELSE [kind |-> kind, session |-> s, turn |-> TurnOf[s], source |-> None,
        agent |-> None, parent |-> None]
Opened ==
  LET after[n \in Nat] ==
        IF n = 0 THEN [sessions |-> Empty, next |-> 1]
        ELSE Apply(Apply(after[n - 1], Opening(Opens[n], "SessionStart")),
                   Opening(Opens[n], "UserPromptSubmit"))
  IN  after[Len(Opens)]

\* The rows of the journal.  A decision is identified by the call it was made for.
Observation(e) == [kind |-> "lifecycle", session |-> e.session, call |-> e.call,
                   state |-> "abstained", name |-> e.kind, act |-> None]
Decision(c, state) ==
  [kind |-> "decision", session |-> SessionOf(c), call |-> IF scene.named THEN c ELSE None,
   state |-> state, name |-> None, act |-> c]
Outcome(e, act) == [kind |-> "decision", session |-> e.session, call |-> e.call,
                    state |-> "outcome", name |-> None, act |-> act]
Diagnostic(e) == [kind |-> "diagnostic", session |-> e.session, call |-> e.call,
                  state |-> "error", name |-> None, act |-> None]

NoVerdict == <<>>
Terminal == {"allowed", "denied", "abstained", "error"}

Init == /\ CacheInit
        /\ pc = [h \in Hook |-> "waiting"]
        /\ scene \in Scenes
        /\ db = Opened
        /\ journal = <<>>
        /\ asked = [c \in Call |-> "no"]
        /\ verdict = [h \in Hook |-> NoVerdict]

------------------------------------------------------------------------------
(* The provider and the permission hook. *)

HooksOf(c, kind) == {h \in scene.hooks : Event[h].call = c /\ Event[h].kind = kind}
Over(c) == \A h \in HooksOf(c, "PreToolUse") : pc[h] = "over"

\* A call runs, and ends, after its first hook is over and unless it was denied.
Start(h) ==
  LET c == Event[h].call
  IN  /\ pc[h] = "waiting" /\ h \in scene.hooks
      /\ Event[h].kind = "PostToolUse" => Over(c) /\ asked[c] \notin {"asking", "denied"}
      /\ IF h \in scene.late THEN Inferred(h) ELSE Go(h, "open", Nothing)
      /\ UNCHANGED <<surroundings, cache, hookVars>>

Ask(c) ==
  /\ c \in scene.asked /\ asked[c] = "no" /\ Over(c)
  /\ \A h \in HooksOf(c, "PostToolUse") : pc[h] = "waiting"
  /\ asked' = [asked EXCEPT ![c] = "asking"]
  /\ journal' = Append(journal, Decision(c, "evaluating"))
  /\ UNCHANGED <<cacheVars, scene, db, verdict>>

\* The user decides what the permission hook does not.
Answer(c) ==
  /\ asked[c] = "asking"
  /\ \/ \E s \in {"allowed", "denied", "abstained"} :
          /\ asked' = [asked EXCEPT ![c] = s]
          /\ journal' = Append(journal, Decision(c, s))
     \/ asked' = [asked EXCEPT ![c] = "abstained"] /\ UNCHANGED journal
  /\ UNCHANGED <<cacheVars, scene, db, verdict>>

------------------------------------------------------------------------------
(* Which decision a call that ended was let run by. *)

Is(row, e, kind) == row.kind = "lifecycle" /\ row.session = e.session /\ row.name = kind
Decides(row, e) == row.kind = "decision" /\ row.session = e.session

\* The part of the journal that is read: up to the last answer of this turn to a
\* request of this call or of an unnamed one.
Read(e) ==
  LET S == {i \in DOMAIN journal : /\ Decides(journal[i], e)
                                   /\ journal[i].state \in {"allowed", "denied"}
                                   /\ journal[i].call \in {e.call, None}}
  IN  IF S = {} THEN <<>> ELSE SubSeq(journal, 1, Deepest(S))

\* The first final row of its decision, and it allows the call.
Allows(log, i) ==
  /\ log[i].kind = "decision" /\ log[i].state = "allowed"
  /\ \A j \in 1..(i - 1) : log[j].act = log[i].act => log[j].state \notin Terminal

\* The outcome belongs to the one allowed decision among acts, unless it is there.
Attributed(log, e, acts) ==
  LET S == {a \in acts : \E i \in DOMAIN log : log[i].act = a /\ Allows(log, i)}
  IN  IF Cardinality(S) # 1 THEN <<Diagnostic(e)>>
      ELSE LET row == Outcome(e, CHOOSE a \in S : TRUE)
           IN  IF \E i \in DOMAIN log : log[i] = row THEN NoVerdict ELSE <<row>>

Befores(log, e) == {i \in DOMAIN log : Is(log[i], e, "PreToolUse")}
Earliest(S) == CHOOSE i \in S : \A j \in S : i <= j

\* Codex reports calls that start together as one: since the last call that ended
\* others have started and nothing was decided.
InOpenBatch(log, e) ==
  LET ends == {0} \cup {i \in DOMAIN log : Is(log[i], e, "PostToolUse")}
      open == {i \in Befores(log, e) : i > Deepest(ends)}
  IN  /\ e.session \in Codex
      /\ \E i \in open : log[i].call # e.call
      /\ \A i \in DOMAIN log : i > Earliest(open) => ~Decides(log[i], e)

\* Mutant of Interval: the decisions are not bounded by the next call.
IntervalToEnd(log, e, first) ==
  LET inside == {i \in DOMAIN log : i > first /\ log[i].kind = "decision"}
      eligible == {log[i].act : i \in {j \in inside : Decides(log[j], e) /\ Allows(log, j)}}
  IN  IF inside = {} THEN NoVerdict
      ELSE IF eligible = {} THEN <<Diagnostic(e)>>
      ELSE Attributed(log, e, eligible)
\* What was decided between the start of this call and that of the next.
Interval(log, e, first) ==
  LET later == {i \in Befores(log, e) : i > first}
      inside == {i \in DOMAIN log : /\ log[i].kind = "decision" /\ i > first
                                    /\ \A j \in later : i < j}
      eligible == {log[i].act : i \in {j \in inside : Decides(log[j], e) /\ Allows(log, j)}}
  IN  IF inside = {} THEN NoVerdict
      ELSE IF later # {} \/ eligible = {} THEN <<Diagnostic(e)>>
      ELSE Attributed(log, e, eligible)

\* Mutant of Anchors: the start is not looked up by its call.
AnyAnchors(log, e) == Befores(log, e)
\* The starts of the call that ended.
Anchors(log, e) == {i \in Befores(log, e) : log[i].call = e.call}

\* What the journal says of a call that ended: nothing, an outcome or a diagnostic.
Correlated(log, e) ==
  LET own == {log[i].act : i \in {j \in DOMAIN log : Decides(log[j], e) /\ log[j].call = e.call}}
      anchors == Anchors(log, e)
  IN  IF own # {}
      THEN IF Cardinality(own) = 1 THEN Attributed(log, e, own) ELSE <<Diagnostic(e)>>
      ELSE IF anchors = {} /\ InOpenBatch(log, e) THEN NoVerdict
      ELSE IF Cardinality(anchors) # 1 THEN <<Diagnostic(e)>>
      ELSE Interval(log, e, Earliest(anchors))

------------------------------------------------------------------------------
(* The hook. *)

\* The project is resolved before the event is recorded, the cache is written after
\* the journal.
ResolveStep(h) == Resolve(h) /\ UNCHANGED hookVars
StoreStep(h) == Store(h) /\ UNCHANGED hookVars
StopStep(h) == /\ Stop(h)
               /\ verdict' = [verdict EXCEPT ![h] = NoVerdict]
               /\ UNCHANGED <<scene, db, journal, asked>>

Ordered(wants) == IF wants = NoRow THEN NoRow
                  ELSE <<wants[1], [wants[2] EXCEPT !.order = db.next]>>

\* An event that the store ignores ends the hook: it appends nothing.  A commit whose
\* outcome is uncertain ends it too.
Record(h) ==
  LET e == Lifecycle(h)
  IN  /\ pc[h] = "record"
      /\ \/ /\ Accepts(db, e)
            /\ db' = Apply(db, e)
            /\ \/ Go(h, IF e.kind = "PostToolUse" THEN "read" ELSE "append",
                     [look[h] EXCEPT !.wants = Ordered(@)])
               \/ Ends(h)
         \/ ~Accepts(db, e) /\ Ends(h) /\ UNCHANGED db
      /\ UNCHANGED <<surroundings, cache, scene, journal, asked, verdict>>

Correlate(h) ==
  /\ pc[h] = "read"
  /\ verdict' = [verdict EXCEPT ![h] = Correlated(Read(Event[h]), Event[h])]
  /\ Go(h, "append", look[h])
  /\ UNCHANGED <<surroundings, cache, scene, db, journal, asked>>

\* The observation and the verdict are one transaction.
AppendBatch(h) ==
  /\ pc[h] = "append"
  /\ journal' = journal \o <<Observation(Event[h])>> \o verdict[h]
  /\ verdict' = [verdict EXCEPT ![h] = NoVerdict]
  /\ IF look[h].wants = NoRow THEN Ends(h) ELSE Go(h, "refresh", look[h])
  /\ UNCHANGED <<surroundings, cache, scene, db, asked>>

Next == \/ \E h \in Hook : \/ Start(h) \/ ResolveStep(h) \/ Record(h) \/ Correlate(h)
                           \/ AppendBatch(h) \/ StoreStep(h) \/ StopStep(h)
        \/ \E c \in Call : Ask(c) \/ Answer(c)
        \/ \E f \in Volatile : scene.edited /\ Edit(f[1], f[2]) /\ UNCHANGED hookVars

Spec == Init /\ [][Next]_vars

------------------------------------------------------------------------------
(* Properties. *)

Outcomes == {i \in DOMAIN journal : journal[i].state = "outcome"}

\* The last start of a call of its session that was seen before call c was allowed is
\* that of c.
StartedLast(c) ==
  \E j \in DOMAIN journal :
    /\ journal[j].act = c /\ journal[j].state = "allowed"
    /\ LET S == {i \in 1..(j - 1) : /\ journal[i].name = "PreToolUse"
                                    /\ journal[i].session = SessionOf(c)}
       IN  S # {} /\ journal[Deepest(S)].call = c

\* An outcome is attached to a decision that allowed a call, and to that of its own
\* call if requests name their calls, whatever the order of the hooks; else unless
\* another call started before the decision, or the start of the decided call was
\* not seen.
OutcomeIsOfItsCall ==
  \A i \in Outcomes :
    /\ \E j \in 1..(i - 1) : journal[j].act = journal[i].act /\ Allows(journal, j)
    /\ scene.named \/ StartedLast(journal[i].act) => journal[i].act = journal[i].call

\* A decision has one outcome, unless the end of its call was reported twice.
OneOutcomePerDecision ==
  \A i, j \in Outcomes :
    i # j /\ journal[i].act = journal[j].act
      => Cardinality(HooksOf(journal[i].call, "PostToolUse")) > 1
==============================================================================
