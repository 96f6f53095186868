--------------------------- MODULE LifecycleSnapshot ---------------------------
(***************************************************************************)
(* The lifecycle snapshot: what Coding Brain knows of every provider       *)
(* session, how one hook event changes it (LifecycleSnapshot::apply and    *)
(* reprove_codex_subagent_at, lifecycle/projection.rs) and which snapshots *)
(* the SQLite writer agrees to store (validate_snapshot,                   *)
(* src/brain/storage/lifecycle.rs).                                        *)
(*                                                                         *)
(* Everything here is a function of a snapshot and an event.  A snapshot   *)
(* is [sessions, next]: the known sessions and the next sequence number.   *)
(* Paths, wall-clock times and permission requests, which no production    *)
(* event records any more, are left out; received_at_ms is the sequence    *)
(* number the event is recorded under.                                     *)
(***************************************************************************)
EXTENDS Naturals, FiniteSets, Sequences

CONSTANTS Session,      \* session and agent identifiers of all providers
          Turn,         \* turn identifiers
          Codex,        \* the sessions of Codex
          Antigravity,  \* the sessions of Antigravity; the others are Claude's
          Invocation,   \* Antigravity turns named invocation-n
          Step,         \* Antigravity turns named step-n
          Execution,    \* Antigravity turns named execution-n
          StepIndex,    \* the n of each step
          None

CONSTANTS MaxRecent,    \* MAX_RECENT_TURNS
          MaxActive,    \* MAX_ACTIVE_SUBAGENTS
          MaxSteps,     \* MAX_ANTIGRAVITY_INVOCATION_STEPS
          MaxSessions,  \* MAX_SESSIONS of the SQLite writer
          MaxSequence   \* the largest next_sequence the writer stores, i64::MAX

ASSUME ProviderAssumption == /\ Codex \subseteq Session
                             /\ Antigravity \subseteq Session \ Codex
                             /\ None \notin Session \cup Turn
ASSUME TurnAssumption == /\ Invocation \cup Step \cup Execution \subseteq Turn
                         /\ StepIndex \in [Step -> Nat]
ASSUME LimitAssumption ==
  {MaxRecent, MaxActive, MaxSteps, MaxSessions, MaxSequence} \subseteq Nat \ {0}

Tool == {"PreToolUse", "PostToolUse"}
Kind == {"SessionStart", "UserPromptSubmit", "SubagentStart", "SubagentStop",
         "Stop"} \cup Tool
Source == {"startup", "compact"}

\* Sessions of one provider share topology and agent names.
Kin(s) == IF s \in Codex THEN Codex
          ELSE IF s \in Antigravity THEN Antigravity
          ELSE Session \ (Codex \cup Antigravity)

Signature == [turn : Turn \cup {None}, kind : Kind,
              source : Source \cup {None}, agent : Session \cup {None}]
ASSUME NoneAssumption == None \notin Signature
SignatureOf(e) == [turn |-> e.turn, kind |-> e.kind,
                   source |-> e.source, agent |-> e.agent]

Empty == [x \in {} |-> x]
Put(f, x, y) == [z \in DOMAIN f \cup {x} |-> IF z = x THEN y ELSE f[z]]
Without(f, S) == [z \in DOMAIN f \ S |-> f[z]]

NewSession(e) ==
  [parent |-> e.parent, turn |-> None, open |-> FALSE, recent |-> <<>>,
   signature |-> None, seq |-> 0, status |-> None, active |-> Empty,
   stopped |-> Empty, source |-> None, floor |-> None, steps |-> Empty]

State(sn, e) == IF e.session \in DOMAIN sn.sessions THEN sn.sessions[e.session]
                ELSE NewSession(e)

\* The turn moves to the end and the oldest ones are forgotten.  Turns are
\* remembered once (ValidTurns), so there is one position to find.
Remember(recent, t) ==
  LET at == CHOOSE i \in DOMAIN recent : recent[i] = t
      others == IF \E i \in DOMAIN recent : recent[i] = t
                THEN [i \in 1..(Len(recent) - 1) |-> recent[IF i < at THEN i ELSE i + 1]]
                ELSE recent
      all == Append(others, t)
  IN  IF Len(all) > MaxRecent
      THEN SubSeq(all, Len(all) - MaxRecent + 1, Len(all)) ELSE all

Recent(st) == {st.recent[i] : i \in DOMAIN st.recent}

ClearTransient(st) ==
  [st EXCEPT !.recent = IF st.turn = None THEN @ ELSE Remember(@, st.turn),
             !.turn = None, !.open = FALSE, !.status = None,
             !.active = Empty, !.stopped = Empty, !.floor = None, !.steps = Empty]

\* Mutant of Accept: the signature of the event is not kept.
AcceptUnsigned(st, e, n) ==
  [st EXCEPT !.seq = n, !.signature = IF @ = None THEN SignatureOf(e) ELSE @]
\* Mutant of Accept: a session keeps the number of its first event.
AcceptUnnumbered(st, e, n) ==
  [st EXCEPT !.signature = SignatureOf(e), !.seq = IF @ = 0 THEN n ELSE @]
Accept(st, e, n) == [st EXCEPT !.signature = SignatureOf(e), !.seq = n]

\* Mutant of Repeated: a redelivered event is not told from a new one.
NeverRepeated(sn, e) == FALSE
Repeated(sn, e) == State(sn, e).signature = SignatureOf(e)

------------------------------------------------------------------------------
(* Topology: who started whom, and who runs under whom. *)

\* The sessions whose active agents include a.
ActiveOwners(ss, a) == {s \in DOMAIN ss \cap Kin(a) : a \in DOMAIN ss[s].active}

\* Session s is p, or is linked to it through its parents.
Descends(ss, s, p) ==
  LET up[n \in Nat] ==
        IF n = 0 THEN {s} ELSE {ss[x].parent : x \in up[n - 1] \cap DOMAIN ss}
  IN  p \in DOMAIN ss /\ \E n \in 0..Cardinality(DOMAIN ss) : p \in up[n]

\* Provider session p, which has no parent, contains s.
TopologyContains(ss, p, s) ==
  p \in DOMAIN ss /\ ss[p].parent = None /\ Descends(ss, s, p)

\* The active owners of a within the topology of p.
ProvenOwners(ss, p, a) == {s \in ActiveOwners(ss, a) : TopologyContains(ss, p, s)}

\* Everything below root: linked sessions, and agents its sessions started.
\* Every round but the last two finds a known session.
Subtree(ss, root) ==
  LET grow[n \in Nat] ==
        IF n = 0 THEN {root}
        ELSE LET S == grow[n - 1]
             IN  S \cup {s \in DOMAIN ss : ss[s].parent \in S}
                   \cup UNION {DOMAIN ss[s].active : s \in S \cap Codex \cap DOMAIN ss}
  IN  grow[Cardinality(DOMAIN ss) + 1]

\* The sessions in S go, and so does every edge to them; the tombstone of
\* `keep` in session `holder` stays.
RemoveSubtree(ss, S, holder, keep) ==
  [s \in DOMAIN ss \ S |->
     [ss[s] EXCEPT !.active = Without(@, S),
                   !.stopped = Without(@, IF s = holder THEN S \ {keep} ELSE S)]]

\* A linked session's event keeps its edge alive.
RefreshLinked(ss, e, n) ==
  IF e.session \notin Codex \/ e.parent = None THEN ss
  ELSE [s \in DOMAIN ss |->
          IF s \in ProvenOwners(ss, e.parent, e.session)
          THEN [ss[s] EXCEPT !.active[e.session].at = n] ELSE ss[s]]

\* What a Codex event needs of its session before anything else is looked at.
Linked(sn, e) ==
  e.session \in Codex =>
    /\ e.session \in DOMAIN sn.sessions => sn.sessions[e.session].parent = e.parent
    /\ e.parent # None =>
         \E o \in ProvenOwners(sn.sessions, e.parent, e.session) :
           sn.sessions[o].active[e.session].turn = e.turn

\* Mutant of ClaimsAgent: any session may claim any agent.
ClaimsAnyone(sn, e) == TRUE
\* An agent that already has a session is only claimed from its own topology.
ClaimsAgent(sn, e) ==
  e.agent \in DOMAIN sn.sessions =>
    LET p == sn.sessions[e.agent].parent
    IN  p # None /\ TopologyContains(sn.sessions, p, e.session)

------------------------------------------------------------------------------
(* SessionStart. *)

AcceptsSessionStart(sn, e) == ~Repeated(sn, e)

\* Mutant of AfterSessionStart: the session that starts is not kept.
AfterSessionStartAlone(sn, e) ==
  LET fresh == e.source # "compact"
      cleared == IF fresh THEN ClearTransient(State(sn, e)) ELSE State(sn, e)
      started == Accept([cleared EXCEPT !.source = e.source], e, sn.next)
      below == IF fresh /\ e.session \in Codex
               THEN Subtree(sn.sessions, e.session) ELSE {}
  IN  [next |-> sn.next + 1,
       sessions |-> RefreshLinked(RemoveSubtree(Put(sn.sessions, e.session, started),
                                                below, None, None), e, sn.next)]
AfterSessionStart(sn, e) ==
  LET fresh == e.source # "compact"
      cleared == IF fresh THEN ClearTransient(State(sn, e)) ELSE State(sn, e)
      started == Accept([cleared EXCEPT !.source = e.source], e, sn.next)
      below == IF fresh /\ e.session \in Codex
               THEN Subtree(sn.sessions, e.session) \ {e.session} ELSE {}
  IN  [next |-> sn.next + 1,
       sessions |-> RefreshLinked(RemoveSubtree(Put(sn.sessions, e.session, started),
                                                below, None, None), e, sn.next)]

------------------------------------------------------------------------------
(* Codex subagents. *)

ActiveElsewhere(sn, e) == ActiveOwners(sn.sessions, e.agent) \ {e.session} # {}

AcceptsCodexStart(sn, e) ==
  /\ ~ActiveElsewhere(sn, e)
  /\ ClaimsAgent(sn, e)
  /\ ~Repeated(sn, e)
  /\ e.agent \notin DOMAIN State(sn, e).active
  /\ Cardinality(DOMAIN State(sn, e).active) < MaxActive

\* Mutant of AfterCodexStart: the agent's tombstones stay.
AfterCodexStartKeepingTombstones(sn, e) ==
  LET edge == [turn |-> e.turn, seq |-> sn.next, at |-> sn.next]
      st == State(sn, e)
      started == Accept([st EXCEPT !.source = None, !.status = "Processing",
                                   !.active = Put(@, e.agent, edge)], e, sn.next)
  IN  [next |-> sn.next + 1,
       sessions |-> RefreshLinked(Put(sn.sessions, e.session, started), e, sn.next)]
AfterCodexStart(sn, e) ==
  LET edge == [turn |-> e.turn, seq |-> sn.next, at |-> sn.next]
      Bury(st) == [st EXCEPT !.stopped = Without(@, {e.agent})]
      st == Bury(State(sn, e))
      started == Accept([st EXCEPT !.source = None, !.status = "Processing",
                                   !.active = Put(@, e.agent, edge)], e, sn.next)
      buried == [s \in DOMAIN sn.sessions |-> IF s \in Codex THEN Bury(sn.sessions[s])
                                              ELSE sn.sessions[s]]
  IN  [next |-> sn.next + 1,
       sessions |-> RefreshLinked(Put(buried, e.session, started), e, sn.next)]

AcceptsCodexStop(sn, e) ==
  LET st == State(sn, e)
  IN  /\ e.session \in DOMAIN sn.sessions
      /\ \/ /\ e.agent \in DOMAIN st.active
            /\ st.active[e.agent].turn = e.turn
         \/ /\ e.agent \notin DOMAIN st.active
            /\ ~ActiveElsewhere(sn, e)
            /\ e.agent \in DOMAIN st.stopped
            /\ st.stopped[e.agent].turn # e.turn
      /\ ~Repeated(sn, e)
      /\ ClaimsAgent(sn, e)

\* A full set of tombstones makes room by dropping its oldest.
Evict(stopped, a) ==
  IF a \in DOMAIN stopped \/ Cardinality(DOMAIN stopped) < MaxActive THEN stopped
  ELSE Without(stopped, {CHOOSE o \in DOMAIN stopped :
                           \A x \in DOMAIN stopped : stopped[o].seq <= stopped[x].seq})

AfterCodexStop(sn, e) ==
  LET st == State(sn, e)
      tombstone == [turn |-> e.turn, seq |-> sn.next, at |-> sn.next]
      stopped == Accept([st EXCEPT !.active = Without(@, {e.agent}),
                                   !.stopped = Put(Evict(@, e.agent), e.agent, tombstone)],
                        e, sn.next)
      marked == Put(sn.sessions, e.session, stopped)
  IN  [next |-> sn.next + 1,
       sessions |-> RefreshLinked(RemoveSubtree(marked, Subtree(marked, e.agent),
                                                e.session, e.agent), e, sn.next)]

------------------------------------------------------------------------------
(* Every other event belongs to a turn. *)

\* Antigravity reports tool calls as numbered steps of the open invocation.
IsStep(e) == e.session \in Antigravity /\ e.turn \in Step /\ e.kind \in Tool

StepOfOpenTurn(st, e) ==
  /\ st.open
  /\ st.turn \in Invocation
  /\ st.floor # None
  /\ StepIndex[e.turn] >= st.floor

Bits(st, t) == IF t \in DOMAIN st.steps THEN st.steps[t] ELSE {}

AcceptsStep(st, e) ==
  /\ StepOfOpenTurn(st, e)
  /\ e.kind \notin Bits(st, e.turn)
  /\ e.turn \in DOMAIN st.steps \/ Cardinality(DOMAIN st.steps) < MaxSteps

\* An execution's stop closes whichever invocation is open.
EndsExecution(st, e) ==
  /\ e.session \in Antigravity
  /\ e.kind = "Stop"
  /\ e.turn \in Execution
  /\ st.open
  /\ st.turn \in Invocation

AcceptsTurn(st, e) ==
  /\ st.turn = e.turn => st.open
  /\ st.open /\ st.turn # e.turn => e.kind = "UserPromptSubmit" \/ EndsExecution(st, e)

\* Outside Codex, agents start and stop within their session's turn.
AcceptsAgent(sn, e) ==
  LET active == DOMAIN State(sn, e).active
  IN  /\ e.kind = "SubagentStart" => /\ ~ActiveElsewhere(sn, e)
                                     /\ e.agent \notin active
                                     /\ Cardinality(active) < MaxActive
      /\ e.kind = "SubagentStop" => e.agent \in active

\* Mutant of NotRecent: the turns that ended are not looked up.
MaybeRecent(st, e) == TRUE
NotRecent(st, e) == e.turn \notin Recent(st)

AcceptsTurnEvent(sn, e) ==
  LET st == State(sn, e)
  IN  /\ ~Repeated(sn, e)
      /\ AcceptsAgent(sn, e)
      /\ NotRecent(st, e)
      /\ IF IsStep(e) THEN AcceptsStep(st, e) ELSE AcceptsTurn(st, e)

\* The turn the session is in once the event is accepted.
EnterTurn(st, e) ==
  IF IsStep(e) THEN [st EXCEPT !.steps = Put(@, e.turn, Bits(st, e.turn) \cup {e.kind})]
  ELSE IF st.open /\ st.turn # e.turn
       THEN [st EXCEPT !.recent = Remember(@, st.turn),
                       !.turn = IF EndsExecution(st, e) THEN @ ELSE e.turn]
  ELSE [st EXCEPT !.turn = e.turn]

\* What each kind of event does to an open turn.
\* Mutant of Effect: a stop leaves the agents of the turn running.
EffectLeavingAgents(st, e, n) ==
  CASE e.kind = "Stop" ->
         [st EXCEPT !.open = FALSE, !.stopped = Empty, !.floor = None,
                    !.steps = Empty, !.recent = Remember(@, e.turn), !.status = "Idle"]
    [] e.kind = "SubagentStop" -> [st EXCEPT !.active = Without(@, {e.agent})]
    [] e.kind = "SubagentStart" ->
         [st EXCEPT !.status = "Processing",
                    !.active = Put(@, e.agent, [turn |-> e.turn, seq |-> n, at |-> n])]
    [] OTHER -> [st EXCEPT !.status = "Processing"]
\* Mutant of Effect: a stop leaves the numbering of the invocation behind.
EffectKeepingFloor(st, e, n) ==
  CASE e.kind = "UserPromptSubmit" ->
         [st EXCEPT !.floor = IF e.session \in Antigravity THEN e.floor ELSE None,
                    !.steps = Empty, !.status = "Processing"]
    [] e.kind = "Stop" ->
         [st EXCEPT !.open = FALSE, !.active = Empty, !.stopped = Empty,
                    !.recent = Remember(@, e.turn), !.status = "Idle"]
    [] OTHER -> [st EXCEPT !.status = "Processing"]
Effect(st, e, n) ==
  CASE e.kind = "UserPromptSubmit" ->
         [st EXCEPT !.floor = IF e.session \in Antigravity THEN e.floor ELSE None,
                    !.steps = Empty, !.status = "Processing"]
    [] e.kind \in Tool -> [st EXCEPT !.status = "Processing"]
    [] e.kind = "SubagentStart" ->
         [st EXCEPT !.stopped = Without(@, {e.agent}), !.status = "Processing",
                    !.active = Put(@, e.agent, [turn |-> e.turn, seq |-> n, at |-> n])]
    [] e.kind = "SubagentStop" -> [st EXCEPT !.active = Without(@, {e.agent})]
    [] e.kind = "Stop" ->
         [st EXCEPT !.open = FALSE, !.active = Empty, !.stopped = Empty,
                    !.floor = None, !.steps = Empty,
                    !.recent = Remember(@, e.turn), !.status = "Idle"]

AfterTurnEvent(sn, e) ==
  LET entered == EnterTurn(State(sn, e), e)
      done == Accept(Effect([entered EXCEPT !.open = TRUE, !.source = None], e, sn.next),
                     e, sn.next)
      below == IF e.session \in Codex /\ e.kind = "Stop"
               THEN Subtree(sn.sessions, e.session) \ {e.session} ELSE {}
  IN  [next |-> sn.next + 1,
       sessions |-> RemoveSubtree(RefreshLinked(Put(sn.sessions, e.session, done), e, sn.next),
                                  below, None, None)]

------------------------------------------------------------------------------
(* One event.  SequenceExhausted is out of the writer's reach: it refuses a  *)
(* next_sequence above i64::MAX long before u64::MAX.                        *)

Accepts(sn, e) ==
  /\ Linked(sn, e)
  /\ CASE e.kind = "SessionStart" -> AcceptsSessionStart(sn, e)
       [] e.session \in Codex /\ e.kind = "SubagentStart" -> AcceptsCodexStart(sn, e)
       [] e.session \in Codex /\ e.kind = "SubagentStop" -> AcceptsCodexStop(sn, e)
       [] OTHER -> AcceptsTurnEvent(sn, e)

After(sn, e) ==
  CASE e.kind = "SessionStart" -> AfterSessionStart(sn, e)
    [] e.session \in Codex /\ e.kind = "SubagentStart" -> AfterCodexStart(sn, e)
    [] e.session \in Codex /\ e.kind = "SubagentStop" -> AfterCodexStop(sn, e)
    [] OTHER -> AfterTurnEvent(sn, e)

\* An ignored event leaves the snapshot alone, except that a step of a session
\* nobody has heard of has already entered an empty state for it.
Apply(sn, e) ==
  IF Accepts(sn, e) THEN After(sn, e)
  ELSE IF IsStep(e) THEN [sn EXCEPT !.sessions = Put(@, e.session, State(sn, e))]
  ELSE sn

------------------------------------------------------------------------------
(* Reproof: a transcript shows that a known Codex child began another turn.  *)
(* Evidence is [agent, parent, turn, at]: the child, its provider session,   *)
(* the turn its transcript is in and when that turn began.                   *)

\* Mutant of Fresher: the time a turn began is not looked at.
AnyOtherTurn(ev, edge) == ev.turn # edge.turn
Fresher(ev, edge) == ev.turn # edge.turn /\ ev.at > edge.at

StoppedOwners(ss, p, a) ==
  {s \in DOMAIN ss \cap Codex : a \in DOMAIN ss[s].stopped /\ TopologyContains(ss, p, s)}

ReprovesActive(sn, ev, o) ==
  /\ o \in ActiveOwners(sn.sessions, ev.agent)
  /\ TopologyContains(sn.sessions, ev.parent, o)
  /\ Fresher(ev, sn.sessions[o].active[ev.agent])

ReprovesStopped(sn, ev, o) ==
  /\ ActiveOwners(sn.sessions, ev.agent) = {}
  /\ StoppedOwners(sn.sessions, ev.parent, ev.agent) = {o}
  /\ Fresher(ev, sn.sessions[o].stopped[ev.agent])
  /\ Cardinality(DOMAIN sn.sessions[o].active) < MaxActive

\* An active child's own session goes with the turn it was in; a stopped
\* child's tombstone goes.  The child is active again, in the evidence's turn.
AfterReproof(sn, ev, o) ==
  LET ss == sn.sessions
      kept == IF ActiveOwners(ss, ev.agent) = {} THEN ss
              ELSE RemoveSubtree(ss, Subtree(ss, ev.agent), None, None)
      edge == [turn |-> ev.turn, seq |-> sn.next, at |-> sn.next]
  IN  [next |-> sn.next + 1,
       sessions |-> [kept EXCEPT ![o].stopped = Without(@, {ev.agent}),
                                 ![o].active = Put(@, ev.agent, edge),
                                 ![o].seq = sn.next]]

------------------------------------------------------------------------------
(* validate_snapshot. *)

ValidSignature(st) ==
  /\ st.signature # None
  /\ st.source = IF st.signature.kind = "SessionStart" THEN st.signature.source ELSE None

ValidTurns(st) ==
  /\ st.open => st.turn # None
  /\ Cardinality(Recent(st)) = Len(st.recent)

ValidInvocation(s, st) ==
  IF st.floor = None THEN st.steps = Empty
  ELSE /\ s \in Antigravity /\ st.open /\ st.turn \in Invocation
       /\ Cardinality(DOMAIN st.steps) <= MaxSteps
       /\ \A t \in DOMAIN st.steps : StepIndex[t] >= st.floor /\ st.steps[t] # {}

ValidEdges(sn, s) ==
  LET st == sn.sessions[s]
      \* who else holds a, active or stopped
      Holders(a) == {x \in DOMAIN sn.sessions \cap Kin(s) :
                       a \in DOMAIN sn.sessions[x].active \cup DOMAIN sn.sessions[x].stopped}
  IN  /\ DOMAIN st.active \cap DOMAIN st.stopped = {}
      /\ Cardinality(DOMAIN st.active) <= MaxActive
      /\ Cardinality(DOMAIN st.stopped) <= MaxActive
      /\ st.stopped # Empty => s \in Codex
      /\ \A a \in DOMAIN st.active \cup DOMAIN st.stopped :
            /\ s \in Codex => a # s
            /\ Holders(a) = {s}
      /\ \A a \in DOMAIN st.active : st.active[a].seq \in 1..st.seq
      /\ \A a \in DOMAIN st.stopped : st.stopped[a].seq \in 1..st.seq

ValidSession(sn, s) ==
  LET st == sn.sessions[s]
  IN  /\ st.seq \in 1..(sn.next - 1)
      /\ Len(st.recent) <= MaxRecent
      /\ ValidSignature(st)
      /\ ValidTurns(st)
      /\ ValidInvocation(s, st)
      /\ ValidEdges(sn, s)

\* A linked session runs in the turn it is proven for, below its parent.
ValidLink(sn, s) ==
  LET st == sn.sessions[s]
  IN  st.parent # None =>
        /\ st.parent \in DOMAIN sn.sessions \ {s}
        /\ \E o \in ActiveOwners(sn.sessions, s) :
             /\ st.turn \in {None, sn.sessions[o].active[s].turn}
             /\ Descends(sn.sessions, o, st.parent)

\* No session is below itself, through links or through ownership.
Acyclic(sn) ==
  \A s \in DOMAIN sn.sessions :
    LET Holds(x) == DOMAIN sn.sessions[x].active \cup DOMAIN sn.sessions[x].stopped
        owned[n \in Nat] ==
          IF n = 0 THEN {s}
          ELSE {x \in DOMAIN sn.sessions \cap Codex : Holds(x) \cap owned[n - 1] # {}}
        linked[n \in Nat] ==
          IF n = 0 THEN {s} ELSE {sn.sessions[x].parent : x \in linked[n - 1] \ {None}}
    IN  \A n \in 1..Cardinality(DOMAIN sn.sessions) : s \notin owned[n] \cup linked[n]

\* Mutant of Valid: the width of the stored sequence is not checked.
ValidAnySequence(sn) ==
  /\ Cardinality(DOMAIN sn.sessions) <= MaxSessions
  /\ \A s \in DOMAIN sn.sessions : ValidSession(sn, s)
Valid(sn) ==
  /\ sn.next <= MaxSequence
  /\ Cardinality(DOMAIN sn.sessions) <= MaxSessions
  /\ \A s \in DOMAIN sn.sessions : ValidSession(sn, s)
  /\ \A s \in DOMAIN sn.sessions : ValidLink(sn, s)
  /\ Acyclic(sn)
==============================================================================
