---------------------------- MODULE LifecycleStore ----------------------------
(***************************************************************************)
(* The stored lifecycle (src/brain/storage/lifecycle.rs) under the events  *)
(* that hook processes bring to it, in whatever order they get the write   *)
(* lock.  A transaction loads the snapshot, applies one event or one       *)
(* reproof, validates the result and stores it; a result the validation    *)
(* refuses is not stored and the hook gets an error.                       *)
(*                                                                         *)
(* A hook that dies, times out or is told CommitUncertain leaves the store *)
(* as it was or as the event made it: no action of its own is needed.      *)
(***************************************************************************)
EXTENDS LifecycleSnapshot

CONSTANTS Root,   \* sessions a provider reports in their own right
          Child   \* agents that sessions start

ASSUME SessionAssumption == Root \cup Child \subseteq Session

VARIABLES
  db,     \* the stored snapshot
  begun,  \* external: when each child began each turn, 0 if it did not
  past    \* history: the turns each child was proven for and is no longer

vars == <<db, begun, past>>

TypeOK ==
  /\ DOMAIN db.sessions \subseteq Session
  /\ db.next \in 1..MaxSequence
  /\ begun \in [Child -> [Turn -> 0..MaxSequence]]
  /\ past \in [Child -> SUBSET Turn]

Init ==
  /\ db = [sessions |-> Empty, next |-> 1]
  /\ begun = [a \in Child |-> [t \in Turn |-> 0]]
  /\ past = [a \in Child |-> {}]

\* Child a is active under s, proven for turn t.
Proven(ss, s, a, t) ==
  s \in DOMAIN ss /\ a \in DOMAIN ss[s].active /\ ss[s].active[a].turn = t

ProvenTurns(ss, a) == {t \in Turn : \E s \in DOMAIN ss : Proven(ss, s, a, t)}

\* A transaction stores what it computed, if it may be stored.
Persist(sn) ==
  /\ Valid(sn)
  /\ db' = sn
  /\ past' = [a \in Child |-> past[a] \cup (ProvenTurns(db.sessions, a)
                                              \ ProvenTurns(sn.sessions, a))]

Record(e) == Persist(Apply(db, e)) /\ UNCHANGED begun

------------------------------------------------------------------------------
(* What the providers report. *)

Event(s, p, t, k) == [session |-> s, parent |-> p, turn |-> t, kind |-> k,
                      source |-> None, agent |-> None, floor |-> None]

\* The turns of the providers that do not number them.
PlainTurn == Turn \ (Invocation \cup Step \cup Execution)

\* Antigravity has no session start, subagents or plain tool calls.
SessionStarts == {[Event(s, None, None, "SessionStart") EXCEPT !.source = x] :
                    s \in Root \ Antigravity, x \in Source}

\* A Codex child starts its session inside a turn it began.
ChildStarts(a, t) == {[Event(a, p, t, "SessionStart") EXCEPT !.source = x] :
                        p \in (Root \cap Codex) \ {a}, x \in Source}

AgentEvents(s, a, t) == {[Event(s, None, t, k) EXCEPT !.agent = a] :
                           k \in {"SubagentStart", "SubagentStop"}}

RootTurnEvents(s) ==
  IF s \in Antigravity
  THEN {[Event(s, None, t, "UserPromptSubmit") EXCEPT !.floor = StepIndex[f]] :
           t \in Invocation, f \in Step}
         \cup {Event(s, None, t, k) : t \in Step, k \in Tool}
         \cup {Event(s, None, t, "Stop") : t \in Execution}
  ELSE {Event(s, None, t, k) : t \in PlainTurn, k \in {"UserPromptSubmit", "PreToolUse", "Stop"}}

ChildTurnEvents(a, t) == {Event(a, p, t, k) : p \in (Root \cap Codex) \ {a},
                                              k \in {"PreToolUse", "Stop"}}

RecordSessionStart == \E e \in SessionStarts : Record(e)

RecordTurnEvent == \E s \in Root : \E e \in RootTurnEvents(s) : Record(e)

\* Codex names the child's turn, which the child has begun.
Begun(a) == {t \in Turn : begun[a][t] # 0}

RecordCodexAgent ==
  \E a \in Child \cap Codex : \E s \in (Root \cap Codex) \ {a}, t \in Begun(a) :
    \E e \in AgentEvents(s, a, t) : Record(e)

RecordAgent ==
  \E s \in Root \ (Codex \cup Antigravity), a \in Child \ (Codex \cup Antigravity) :
    \E t \in PlainTurn :
    \E e \in AgentEvents(s, a, t) : Record(e)

RecordChildEvent ==
  \E a \in Child \cap Codex : \E t \in Begun(a) :
    \E e \in ChildStarts(a, t) \cup ChildTurnEvents(a, t) : Record(e)

\* The evidence is read from the child's transcript, at any time before the
\* transaction that uses it.
Evidence(a, p, t) == [agent |-> a, parent |-> p, turn |-> t, at |-> begun[a][t]]

Reprove ==
  \E a \in Child \cap Codex : \E p \in (Root \cap Codex) \ {a}, t \in Begun(a) :
    /\ \E o \in DOMAIN db.sessions :
         /\ \/ ReprovesActive(db, Evidence(a, p, t), o)
            \/ ReprovesStopped(db, Evidence(a, p, t), o)
         /\ Persist(AfterReproof(db, Evidence(a, p, t), o))
    /\ UNCHANGED begun

\* External: a child begins a turn.
BeginTurn ==
  \E a \in Child \cap Codex : \E t \in Turn :
    /\ begun[a][t] = 0
    /\ begun' = [begun EXCEPT ![a][t] = db.next]
    /\ UNCHANGED <<db, past>>

Next ==
  \/ RecordSessionStart
  \/ RecordTurnEvent
  \/ RecordCodexAgent
  \/ RecordAgent
  \/ RecordChildEvent
  \/ Reprove
  \/ BeginTurn

Spec == Init /\ [][Next]_vars

------------------------------------------------------------------------------
(* Properties. *)

Known == DOMAIN db.sessions

\* What the providers can report now: of the roots' turns, of their agents, of
\* Codex children and of Codex agents.
RootReports == UNION {RootTurnEvents(s) : s \in Root}

AgentReports ==
  UNION {AgentEvents(s, a, t) : s \in Root \ (Codex \cup Antigravity),
                                a \in Child \ (Codex \cup Antigravity), t \in PlainTurn}

ChildReports ==
  UNION {UNION {ChildStarts(a, t) \cup ChildTurnEvents(a, t) : t \in Begun(a)} :
           a \in Child \cap Codex}

CodexAgentReports ==
  UNION {UNION {AgentEvents(s, a, t) : s \in (Root \cap Codex) \ {a}, t \in Begun(a)} :
           a \in Child \cap Codex}

\* Every event a provider can report now.
Reportable == SessionStarts \cup RootReports \cup AgentReports \cup ChildReports
                \cup CodexAgentReports

\* The refusals the code is known to have: no room for a session, no sequence
\* number left, a step of an unheard-of session, and the stop of an agent
\* right after its session was compacted.
KnownRefusal(e) ==
  \/ e.session \notin Known /\ (Cardinality(Known) = MaxSessions \/ IsStep(e))
  \/ db.next = MaxSequence
  \/ e.session \in Codex /\ e.kind = "SubagentStop" /\ db.sessions[e.session].source # None

\* Apart from these, whatever the reducer makes of an event the writer's
\* validation accepts: no order of events wedges the store.
ReducerSatisfiesWriter ==
  \A e \in Reportable : Valid(Apply(db, e)) \/ KnownRefusal(e)

\* An accepted event that is delivered again at once changes nothing, so a
\* hook that does not know whether it committed can be run again.
RedeliveryIsIgnored ==
  \A e \in Reportable : Accepts(db, e) =>
    LET sn == After(db, e) IN ~Accepts(sn, e) /\ Apply(sn, e) = sn

\* The turn a session is in is not one of those it remembers as ended.
OpenTurnIsNotRecent ==
  \A s \in Known : db.sessions[s].open => db.sessions[s].turn \notin Recent(db.sessions[s])

\* A session reported idle has no open turn and no running agent.
IdleMeansIdle ==
  \A s \in Known : db.sessions[s].status = "Idle" =>
    ~db.sessions[s].open /\ DOMAIN db.sessions[s].active = {}

\* Whenever refresh_linked_provider looks for the edge a linked event came
\* through, the event has not removed it.
LinkedEventKeepsEdge ==
  \A e \in Reportable : e.session \in Codex /\ e.parent # None /\ Accepts(db, e) =>
    ProvenOwners(After(db, e).sessions, e.parent, e.session) # {}

\* A session whose latest event is its stop holds no agent, running or stopped.
StopIsBare ==
  \A s \in Known : db.sessions[s].signature.kind = "Stop" =>
    DOMAIN db.sessions[s].active \cup DOMAIN db.sessions[s].stopped = {}

\* Only a reported start brings a child back to a turn it was proven for
\* before: evidence read late, or a late event, never does.
OnlyStartsRevive ==
  [][\A a \in Child \cap Codex : \A t \in past[a] :
       (\E s \in DOMAIN db'.sessions :
           Proven(db'.sessions, s, a, t) /\ ~Proven(db.sessions, s, a, t))
       => RecordCodexAgent]_vars

\* Recovery keys an attempt by the sequence of a session's stop: while that
\* stop is the session's latest event, the key does not change.
StopKeyIsStable ==
  [][\A s \in Known : LET st == db.sessions[s] IN
       /\ st.signature.kind = "Stop"
       /\ s \in DOMAIN db'.sessions
       /\ db'.sessions[s].signature = st.signature
       => db'.sessions[s].seq = st.seq]_vars

\* Documented: an accepted Codex SubagentStop moves the running agent to the
\* stopped ones.  The writer should be able to store that.
RunningAgentCanStop ==
  \A s \in Known \cap Root \cap Codex, a \in Child, t \in Turn :
    Proven(db.sessions, s, a, t) =>
      Valid(Apply(db, [Event(s, None, t, "SubagentStop") EXCEPT !.agent = a]))
==============================================================================
