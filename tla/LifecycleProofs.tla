---------------------------- MODULE LifecycleProofs ----------------------------
(***************************************************************************)
(* Proofs about the stored lifecycle, for any number of sessions, agents   *)
(* and turns of all three providers.                                       *)
(*                                                                         *)
(* Whatever one event does, it rewrites the session it is about and only   *)
(* prunes the others: they keep their signature and their sequence, and    *)
(* lose agents at most (EventStep).  From that follows that a session      *)
(* whose latest event is its stop holds no agent, so no reproof can touch  *)
(* it, that the sequence recovery keys an attempt by is stable, that a     *)
(* session reported idle runs nothing, and that an event delivered twice   *)
(* counts once.                                                            *)
(***************************************************************************)
EXTENDS LifecycleStore, TLAPS

Fields == {"parent", "turn", "open", "recent", "signature", "seq", "status",
           "active", "stopped", "source", "floor", "steps"}

Shaped(ss) == \A s \in DOMAIN ss : DOMAIN ss[s] = Fields

\* Session state r is st, pruned.
Pruned(st, r) ==
  /\ DOMAIN r = Fields
  /\ r.signature = st.signature
  /\ r.seq = st.seq
  /\ r.status = st.status
  /\ r.open = st.open
  /\ DOMAIN r.active \subseteq DOMAIN st.active
  /\ DOMAIN r.stopped \subseteq DOMAIN st.stopped

Tame(ss, r) ==
  /\ DOMAIN r \subseteq DOMAIN ss
  /\ \A s \in DOMAIN r : Pruned(ss[s], r[s])

\* A session that is reported idle has no open turn and holds no agent.
Calm(st) == st.status = "Idle" =>
  ~st.open /\ DOMAIN st.active = {} /\ DOMAIN st.stopped = {}

Quiet(ss) == \A s \in DOMAIN ss : Calm(ss[s])

\* Session state r is what accepting e left.
Rewritten(r, e) ==
  /\ DOMAIN r = Fields
  /\ Calm(r)
  /\ r.signature = SignatureOf(e)
  /\ e.kind = "Stop" => DOMAIN r.active = {} /\ DOMAIN r.stopped = {}

EventStep(ss, r, e) ==
  /\ DOMAIN r \subseteq DOMAIN ss \cup {e.session}
  /\ \A s \in DOMAIN r : IF s = e.session THEN Rewritten(r[s], e)
                         ELSE Pruned(ss[s], r[s])

------------------------------------------------------------------------------
(* The helpers of the reducer. *)

\* What Without leaves.
LEMMA WithoutDomain ==
  ASSUME NEW f, NEW S PROVE DOMAIN Without(f, S) = DOMAIN f \ S
BY DEF Without

\* Refreshing an edge changes its time only.
LEMMA RefreshIsTame ==
  ASSUME NEW ss, Shaped(ss), NEW e, NEW n
  PROVE  Tame(ss, RefreshLinked(ss, e, n)) /\ DOMAIN RefreshLinked(ss, e, n) = DOMAIN ss
<1> DEFINE r == RefreshLinked(ss, e, n)
<1>1. CASE e.session \notin Codex \/ e.parent = None
  BY <1>1 DEF RefreshLinked, Tame, Pruned, Shaped
<1>2. CASE ~(e.session \notin Codex \/ e.parent = None)
  <2>1. r = [s \in DOMAIN ss |->
               IF s \in ProvenOwners(ss, e.parent, e.session)
               THEN [ss[s] EXCEPT !.active[e.session].at = n] ELSE ss[s]]
    BY <1>2 DEF RefreshLinked
  <2>2. DOMAIN r = DOMAIN ss
    BY <2>1
  <2>3. ASSUME NEW s \in DOMAIN ss PROVE Pruned(ss[s], r[s])
    <3>1. DOMAIN ss[s] = Fields
      BY DEF Shaped
    <3>2. CASE s \in ProvenOwners(ss, e.parent, e.session)
      <4>1. r[s] = [ss[s] EXCEPT !.active[e.session].at = n]
        BY <2>1, <3>2
      <4>2. DOMAIN r[s] = Fields
        BY <3>1, <4>1
      <4>3. r[s].signature = ss[s].signature /\ r[s].seq = ss[s].seq
            /\ r[s].stopped = ss[s].stopped
            /\ r[s].status = ss[s].status /\ r[s].open = ss[s].open
        BY <3>1, <4>1 DEF Fields
      <4>4. DOMAIN r[s].active = DOMAIN ss[s].active
        BY <3>1, <4>1 DEF Fields
      <4> QED BY <4>2, <4>3, <4>4 DEF Pruned
    <3>3. CASE s \notin ProvenOwners(ss, e.parent, e.session)
      BY <2>1, <3>1, <3>3 DEF Pruned
    <3> QED BY <3>2, <3>3
  <2> QED BY <2>2, <2>3 DEF Tame
<1> QED BY <1>1, <1>2

\* Removing a subtree removes sessions, agents and tombstones.
LEMMA RemoveIsTame ==
  ASSUME NEW ss, Shaped(ss), NEW S, NEW holder, NEW keep
  PROVE  Tame(ss, RemoveSubtree(ss, S, holder, keep))
<1> DEFINE r == RemoveSubtree(ss, S, holder, keep)
<1>1. r = [s \in DOMAIN ss \ S |->
             [ss[s] EXCEPT !.active = Without(@, S),
                           !.stopped = Without(@, IF s = holder THEN S \ {keep} ELSE S)]]
  BY DEF RemoveSubtree
<1>2. ASSUME NEW s \in DOMAIN r PROVE s \in DOMAIN ss /\ Pruned(ss[s], r[s])
  <2> DEFINE gone == IF s = holder THEN S \ {keep} ELSE S
  <2>1. s \in DOMAIN ss /\ DOMAIN ss[s] = Fields
    BY <1>1 DEF Shaped
  <2>2. r[s] = [ss[s] EXCEPT !.active = Without(@, S), !.stopped = Without(@, gone)]
    BY <1>1
  <2>3. r[s].active = Without(ss[s].active, S) /\ r[s].stopped = Without(ss[s].stopped, gone)
    BY <2>1, <2>2 DEF Fields
  <2>4. /\ DOMAIN r[s] = Fields /\ r[s].signature = ss[s].signature /\ r[s].seq = ss[s].seq
        /\ r[s].status = ss[s].status /\ r[s].open = ss[s].open
    BY <2>1, <2>2 DEF Fields
  <2> HIDE DEF gone
  <2>5. DOMAIN r[s].active = DOMAIN ss[s].active \ S
    BY <2>3, WithoutDomain
  <2>6. DOMAIN r[s].stopped = DOMAIN ss[s].stopped \ gone
    BY <2>3, WithoutDomain
  <2> HIDE DEF r
  <2> QED BY <2>1, <2>4, <2>5, <2>6 DEF Pruned
<1> QED BY <1>2 DEF Tame

\* Pruning twice is pruning.
LEMMA TameTrans ==
  ASSUME NEW a, NEW b, NEW c, Tame(a, b), Tame(b, c) PROVE Tame(a, c)
BY DEF Tame, Pruned

\* A pruned snapshot has the shape of a snapshot.
LEMMA TameShaped == ASSUME NEW a, NEW b, Tame(a, b) PROVE Shaped(b)
BY DEF Tame, Pruned, Shaped

\* Putting a session state of the right shape in place keeps the shape.
LEMMA PutShaped ==
  ASSUME NEW ss, Shaped(ss), NEW s, NEW st, DOMAIN st = Fields
  PROVE  /\ Shaped(Put(ss, s, st))
         /\ DOMAIN Put(ss, s, st) = DOMAIN ss \cup {s}
         /\ Put(ss, s, st)[s] = st
         /\ \A x \in DOMAIN ss \ {s} : Put(ss, s, st)[x] = ss[x]
BY DEF Put, Shaped

\* The state of a session, known or new, has all its fields.
LEMMA StateShaped ==
  ASSUME NEW sn, Shaped(sn.sessions), NEW e
  PROVE  /\ DOMAIN State(sn, e) = Fields
         /\ Quiet(sn.sessions) => Calm(State(sn, e))
<1>1. DOMAIN NewSession(e) = Fields /\ Calm(NewSession(e))
  BY DEF NewSession, Fields, Calm, Empty
<1> QED BY <1>1 DEF State, Shaped, Quiet

\* What accepting an event leaves of a session state.
LEMMA AcceptIs ==
  ASSUME NEW st, DOMAIN st = Fields, NEW e, NEW n
  PROVE  /\ DOMAIN Accept(st, e, n) = Fields
         /\ Accept(st, e, n).signature = SignatureOf(e)
         /\ Accept(st, e, n).status = st.status
         /\ Accept(st, e, n).open = st.open
         /\ Accept(st, e, n).active = st.active
         /\ Accept(st, e, n).stopped = st.stopped
BY DEF Accept, Fields

\* An event that puts a rewritten session over pruned ones, and prunes what
\* comes out, is an event step.
LEMMA StepOf ==
  ASSUME NEW ss, NEW e, NEW base, NEW st, NEW r,
         Shaped(ss), Tame(ss, base), Rewritten(st, e),
         Tame(Put(base, e.session, st), r)
  PROVE  EventStep(ss, r, e)
<1> DEFINE mid == Put(base, e.session, st)
<1>1. /\ DOMAIN mid = DOMAIN base \cup {e.session}
      /\ mid[e.session] = st
      /\ \A x \in DOMAIN base \ {e.session} : mid[x] = base[x]
  BY DEF Put
<1>2. DOMAIN r \subseteq DOMAIN ss \cup {e.session}
  BY <1>1 DEF Tame
<1>3. ASSUME NEW s \in DOMAIN r
      PROVE  IF s = e.session THEN Rewritten(r[s], e) ELSE Pruned(ss[s], r[s])
  <2>1. Pruned(mid[s], r[s])
    BY DEF Tame
  <2>2. CASE s = e.session
    BY <1>1, <2>1, <2>2 DEF Pruned, Rewritten, Calm
  <2>3. CASE s # e.session
    <3>1. s \in DOMAIN base /\ mid[s] = base[s]
      BY <1>1, <2>3 DEF Tame
    <3>2. Pruned(ss[s], base[s])
      BY <3>1 DEF Tame
    <3> QED BY <2>1, <2>3, <3>1, <3>2 DEF Pruned
  <2> QED BY <2>2, <2>3
<1> QED BY <1>2, <1>3 DEF EventStep

\* A snapshot is a pruned form of itself.
LEMMA TameSelf == ASSUME NEW ss, Shaped(ss) PROVE Tame(ss, ss)
BY DEF Tame, Pruned, Shaped

\* Removing a subtree and refreshing an edge, in either order, only prunes.
LEMMA RemoveAndRefresh ==
  ASSUME NEW ss, Shaped(ss), NEW S, NEW holder, NEW keep, NEW e, NEW n
  PROVE  /\ Tame(ss, RefreshLinked(RemoveSubtree(ss, S, holder, keep), e, n))
         /\ Tame(ss, RemoveSubtree(RefreshLinked(ss, e, n), S, holder, keep))
<1> DEFINE removed == RemoveSubtree(ss, S, holder, keep)
           refreshed == RefreshLinked(ss, e, n)
<1>1. Tame(ss, removed) /\ Shaped(removed)
  BY RemoveIsTame, TameShaped
<1>2. Tame(removed, RefreshLinked(removed, e, n))
  BY <1>1, RefreshIsTame
<1>3. Tame(ss, refreshed) /\ Shaped(refreshed)
  BY RefreshIsTame, TameShaped
<1>4. Tame(refreshed, RemoveSubtree(refreshed, S, holder, keep))
  BY <1>3, RemoveIsTame
<1> HIDE DEF removed, refreshed
<1>5. Tame(ss, RefreshLinked(removed, e, n))
  BY <1>1, <1>2, TameTrans
<1>6. Tame(ss, RemoveSubtree(refreshed, S, holder, keep))
  BY <1>3, <1>4, TameTrans
<1> QED BY <1>5, <1>6 DEF removed, refreshed

------------------------------------------------------------------------------
(* One lemma per kind of event: accepting it is an event step. *)

\* SessionStart.
LEMMA SessionStartStep ==
  ASSUME NEW sn, Shaped(sn.sessions), Quiet(sn.sessions), NEW e, e.kind = "SessionStart"
  PROVE  EventStep(sn.sessions, AfterSessionStart(sn, e).sessions, e)
<1> DEFINE fresh == e.source # "compact"
           cleared == IF fresh THEN ClearTransient(State(sn, e)) ELSE State(sn, e)
           sourced == [cleared EXCEPT !.source = e.source]
           started == Accept(sourced, e, sn.next)
           below == IF fresh /\ e.session \in Codex
                    THEN Subtree(sn.sessions, e.session) \ {e.session} ELSE {}
           placed == Put(sn.sessions, e.session, started)
           r == RefreshLinked(RemoveSubtree(placed, below, None, None), e, sn.next)
<1>1. DOMAIN sourced = Fields /\ Calm(sourced)
  <2>1. DOMAIN State(sn, e) = Fields /\ Calm(State(sn, e))
    BY StateShaped
  <2>2. DOMAIN ClearTransient(State(sn, e)) = Fields /\ Calm(ClearTransient(State(sn, e)))
    BY <2>1 DEF ClearTransient, Calm, Empty, Fields
  <2>3. DOMAIN cleared = Fields /\ Calm(cleared)
    BY <2>1, <2>2
  <2> HIDE DEF cleared
  <2> QED BY <2>3 DEF Calm, Fields
<1>2. DOMAIN started = Fields /\ started.signature = SignatureOf(e) /\ Calm(started)
  <2> HIDE DEF sourced
  <2> QED BY <1>1, AcceptIs DEF Calm
<1>3. Rewritten(started, e)
  <2> HIDE DEF started
  <2> QED BY <1>2 DEF Rewritten
<1>4. Shaped(placed)
  <2> HIDE DEF started
  <2> QED BY <1>2, PutShaped
<1>5. Tame(placed, r)
  <2> HIDE DEF placed, below
  <2> QED BY <1>4, RemoveAndRefresh
<1>6. Tame(sn.sessions, sn.sessions)
  BY TameSelf
<1>7. EventStep(sn.sessions, r, e)
  <2> HIDE DEF started, r
  <2> QED BY <1>3, <1>5, <1>6, StepOf
<1>8. AfterSessionStart(sn, e).sessions = r
  BY DEF AfterSessionStart
<1> QED BY <1>7, <1>8

\* A Codex agent starts.
LEMMA CodexStartStep ==
  ASSUME NEW sn, Shaped(sn.sessions), NEW e, e.kind = "SubagentStart"
  PROVE  EventStep(sn.sessions, AfterCodexStart(sn, e).sessions, e)
<1> DEFINE edge == [turn |-> e.turn, seq |-> sn.next, at |-> sn.next]
           Bury(x) == [x EXCEPT !.stopped = Without(@, {e.agent})]
           st == Bury(State(sn, e))
           running == [st EXCEPT !.source = None, !.status = "Processing",
                                 !.active = Put(@, e.agent, edge)]
           started == Accept(running, e, sn.next)
           buried == [s \in DOMAIN sn.sessions |->
                        IF s \in Codex THEN Bury(sn.sessions[s]) ELSE sn.sessions[s]]
           placed == Put(buried, e.session, started)
           r == RefreshLinked(placed, e, sn.next)
<1>1. DOMAIN running = Fields /\ running.status = "Processing"
  BY StateShaped DEF Fields
<1>2. DOMAIN started = Fields /\ started.signature = SignatureOf(e) /\ Calm(started)
  <2> HIDE DEF running
  <2> QED BY <1>1, AcceptIs DEF Calm
<1>3. Rewritten(started, e)
  <2> HIDE DEF started
  <2> QED BY <1>2 DEF Rewritten
<1>4. Tame(sn.sessions, buried)
  <2>1. ASSUME NEW s \in DOMAIN sn.sessions PROVE Pruned(sn.sessions[s], buried[s])
    <3>1. DOMAIN sn.sessions[s] = Fields
      BY DEF Shaped
    <3>2. CASE s \in Codex
      <4>1. buried[s] = [sn.sessions[s] EXCEPT !.stopped = Without(@, {e.agent})]
        BY <3>2
      <4>2. buried[s].stopped = Without(sn.sessions[s].stopped, {e.agent})
        BY <3>1, <4>1 DEF Fields
      <4>3. /\ DOMAIN buried[s] = Fields
            /\ buried[s].signature = sn.sessions[s].signature
            /\ buried[s].seq = sn.sessions[s].seq
            /\ buried[s].status = sn.sessions[s].status
            /\ buried[s].open = sn.sessions[s].open
            /\ buried[s].active = sn.sessions[s].active
        BY <3>1, <4>1 DEF Fields
      <4>4. DOMAIN buried[s].stopped = DOMAIN sn.sessions[s].stopped \ {e.agent}
        BY <4>2, WithoutDomain
      <4> QED BY <4>3, <4>4 DEF Pruned
    <3>3. CASE s \notin Codex
      BY <3>1, <3>3 DEF Pruned
    <3> QED BY <3>2, <3>3
  <2> QED BY <2>1 DEF Tame
<1>5. Shaped(placed)
  <2> HIDE DEF started, buried
  <2>1. Shaped(buried)
    BY <1>4, TameShaped
  <2> QED BY <1>2, <2>1, PutShaped
<1>6. Tame(placed, r)
  <2> HIDE DEF placed
  <2> QED BY <1>5, RefreshIsTame
<1>7. EventStep(sn.sessions, r, e)
  <2> HIDE DEF started, r, buried
  <2> QED BY <1>3, <1>4, <1>6, StepOf
<1>8. AfterCodexStart(sn, e).sessions = r
  BY DEF AfterCodexStart
<1> QED BY <1>7, <1>8

\* A Codex agent stops.
LEMMA CodexStopStep ==
  ASSUME NEW sn, Shaped(sn.sessions), Quiet(sn.sessions), NEW e, e.kind = "SubagentStop",
         AcceptsCodexStop(sn, e)
  PROVE  EventStep(sn.sessions, AfterCodexStop(sn, e).sessions, e)
<1> DEFINE st == State(sn, e)
           tombstone == [turn |-> e.turn, seq |-> sn.next, at |-> sn.next]
           halted == [st EXCEPT !.active = Without(@, {e.agent}),
                                !.stopped = Put(Evict(@, e.agent), e.agent, tombstone)]
           stopped == Accept(halted, e, sn.next)
           marked == Put(sn.sessions, e.session, stopped)
           r == RefreshLinked(RemoveSubtree(marked, Subtree(marked, e.agent),
                                            e.session, e.agent), e, sn.next)
<1>1. DOMAIN halted = Fields /\ halted.status # "Idle"
  <2>1. DOMAIN st = Fields /\ Calm(st)
    BY StateShaped
  <2>2. e.agent \in DOMAIN st.active \cup DOMAIN st.stopped
    BY DEF AcceptsCodexStop
  <2>3. st.status # "Idle"
    BY <2>1, <2>2 DEF Calm
  <2> HIDE DEF st
  <2> QED BY <2>1, <2>3 DEF Fields
<1>2. DOMAIN stopped = Fields /\ stopped.signature = SignatureOf(e) /\ Calm(stopped)
  <2> HIDE DEF halted
  <2> QED BY <1>1, AcceptIs DEF Calm
<1>3. Rewritten(stopped, e)
  <2> HIDE DEF stopped
  <2> QED BY <1>2 DEF Rewritten
<1>4. Shaped(marked)
  <2> HIDE DEF stopped
  <2> QED BY <1>2, PutShaped
<1>5. Tame(marked, r)
  <2> HIDE DEF marked
  <2> QED BY <1>4, RemoveAndRefresh
<1>6. Tame(sn.sessions, sn.sessions)
  BY TameSelf
<1>7. EventStep(sn.sessions, r, e)
  <2> HIDE DEF stopped, r
  <2> QED BY <1>3, <1>5, <1>6, StepOf
<1>8. AfterCodexStop(sn, e).sessions = r
  BY DEF AfterCodexStop
<1> QED BY <1>7, <1>8

\* Entering a turn keeps the shape of the session state.
LEMMA EnterShaped ==
  ASSUME NEW st, DOMAIN st = Fields, NEW e
  PROVE  DOMAIN EnterTurn(st, e) = Fields /\ EnterTurn(st, e).status = st.status
<1>1. CASE IsStep(e)
  BY <1>1 DEF EnterTurn, Fields
<1>2. CASE ~IsStep(e) /\ st.open /\ st.turn # e.turn
  BY <1>2 DEF EnterTurn, Fields
<1>3. CASE ~IsStep(e) /\ ~(st.open /\ st.turn # e.turn)
  BY <1>3 DEF EnterTurn, Fields
<1> QED BY <1>1, <1>2, <1>3

\* The effect of an event keeps the shape; a stop leaves no agent; nothing but
\* a stop makes a session idle.
LEMMA EffectShaped ==
  ASSUME NEW st, DOMAIN st = Fields, NEW e, NEW n, e.kind \in Kind \ {"SessionStart"},
         e.kind = "SubagentStop" => st.status # "Idle"
  PROVE  /\ DOMAIN Effect(st, e, n) = Fields
         /\ Calm(Effect(st, e, n))
         /\ e.kind = "Stop" => /\ DOMAIN Effect(st, e, n).active = {}
                               /\ DOMAIN Effect(st, e, n).stopped = {}
<1>1. CASE e.kind = "UserPromptSubmit"
  BY <1>1 DEF Effect, Tool, Fields, Calm
<1>2. CASE e.kind \in Tool
  BY <1>2 DEF Effect, Tool, Fields, Calm
<1>3. CASE e.kind = "SubagentStart"
  BY <1>3 DEF Effect, Tool, Fields, Calm
<1>4. CASE e.kind = "SubagentStop"
  BY <1>4 DEF Effect, Tool, Fields, Calm
<1>5. CASE e.kind = "Stop"
  <2>1. Effect(st, e, n) =
          [st EXCEPT !.open = FALSE, !.active = Empty, !.stopped = Empty,
                     !.floor = None, !.steps = Empty,
                     !.recent = Remember(@, e.turn), !.status = "Idle"]
    BY <1>5 DEF Effect, Tool
  <2>2. DOMAIN Empty = {}
    BY DEF Empty
  <2>3. DOMAIN Effect(st, e, n) = Fields
    BY <2>1
  <2>4. /\ Effect(st, e, n).active = Empty /\ Effect(st, e, n).stopped = Empty
        /\ ~Effect(st, e, n).open
    BY <2>1 DEF Fields
  <2> QED BY <2>2, <2>3, <2>4 DEF Calm
<1> QED BY <1>1, <1>2, <1>3, <1>4, <1>5 DEF Kind

\* Every event that belongs to a turn.
LEMMA TurnEventStep ==
  ASSUME NEW sn, Shaped(sn.sessions), Quiet(sn.sessions), NEW e,
         e.kind \in Kind \ {"SessionStart"}, AcceptsTurnEvent(sn, e)
  PROVE  EventStep(sn.sessions, AfterTurnEvent(sn, e).sessions, e)
<1> DEFINE entered == EnterTurn(State(sn, e), e)
           opened == [entered EXCEPT !.open = TRUE, !.source = None]
           effect == Effect(opened, e, sn.next)
           done == Accept(effect, e, sn.next)
           below == IF e.session \in Codex /\ e.kind = "Stop"
                    THEN Subtree(sn.sessions, e.session) \ {e.session} ELSE {}
           placed == Put(sn.sessions, e.session, done)
           r == RemoveSubtree(RefreshLinked(placed, e, sn.next), below, None, None)
<1>1. DOMAIN opened = Fields /\ (e.kind = "SubagentStop" => opened.status # "Idle")
  <2>1. DOMAIN State(sn, e) = Fields /\ Calm(State(sn, e))
    BY StateShaped
  <2>2. e.kind = "SubagentStop" => State(sn, e).status # "Idle"
    BY <2>1 DEF AcceptsTurnEvent, AcceptsAgent, Calm
  <2>3. DOMAIN entered = Fields /\ entered.status = State(sn, e).status
    BY <2>1, EnterShaped
  <2> HIDE DEF entered
  <2> QED BY <2>2, <2>3 DEF Fields
<1>2. /\ DOMAIN effect = Fields
      /\ Calm(effect)
      /\ e.kind = "Stop" => DOMAIN effect.active = {} /\ DOMAIN effect.stopped = {}
  <2> HIDE DEF opened
  <2> QED BY <1>1, EffectShaped
<1>3. /\ DOMAIN done = Fields
      /\ done.signature = SignatureOf(e)
      /\ done.status = effect.status /\ done.open = effect.open
      /\ done.active = effect.active
      /\ done.stopped = effect.stopped
  <2> HIDE DEF effect
  <2> QED BY <1>2, AcceptIs
<1>4. Rewritten(done, e)
  <2> HIDE DEF done, effect
  <2> QED BY <1>2, <1>3 DEF Rewritten, Calm
<1>5. Shaped(placed)
  <2> HIDE DEF done
  <2> QED BY <1>3, PutShaped
<1>6. Tame(placed, r)
  <2> HIDE DEF placed, below
  <2> QED BY <1>5, RemoveAndRefresh
<1>7. Tame(sn.sessions, sn.sessions)
  BY TameSelf
<1>8. EventStep(sn.sessions, r, e)
  <2> HIDE DEF done, r
  <2> QED BY <1>4, <1>6, <1>7, StepOf
<1>9. AfterTurnEvent(sn, e).sessions = r
  BY DEF AfterTurnEvent
<1> QED BY <1>8, <1>9

\* Accepting an event is an event step, whatever its kind.
LEMMA AcceptedStep ==
  ASSUME NEW sn, Shaped(sn.sessions), Quiet(sn.sessions), NEW e, e.kind \in Kind, Accepts(sn, e)
  PROVE  EventStep(sn.sessions, After(sn, e).sessions, e)
<1>1. CASE e.kind = "SessionStart"
  BY <1>1, SessionStartStep DEF After
<1>2. CASE e.kind = "SubagentStart" /\ e.session \in Codex
  BY <1>2, CodexStartStep DEF After
<1>3. CASE e.kind = "SubagentStop" /\ e.session \in Codex
  <2>1. AcceptsCodexStop(sn, e)
    BY <1>3 DEF Accepts
  <2> QED BY <1>3, <2>1, CodexStopStep DEF After
<1>4. CASE /\ e.kind # "SessionStart"
           /\ ~(e.kind = "SubagentStart" /\ e.session \in Codex)
           /\ ~(e.kind = "SubagentStop" /\ e.session \in Codex)
  <2>1. After(sn, e) = AfterTurnEvent(sn, e) /\ AcceptsTurnEvent(sn, e)
    BY <1>4 DEF After, Accepts
  <2> QED BY <1>4, <2>1, TurnEventStep
<1> QED BY <1>1, <1>2, <1>3, <1>4

\* An accepted event is not the one its session heard last.
LEMMA AcceptedIsNew ==
  ASSUME NEW sn, NEW e, Accepts(sn, e) PROVE ~Repeated(sn, e)
BY DEF Accepts, AcceptsSessionStart, AcceptsCodexStart, AcceptsCodexStop, AcceptsTurnEvent

------------------------------------------------------------------------------
(* One lemma per action, and the inductive invariant. *)

Bare(ss) == \A s \in DOMAIN ss : ss[s].signature.kind = "Stop" =>
              DOMAIN ss[s].active \cup DOMAIN ss[s].stopped = {}

IInv == /\ TypeOK
        /\ DOMAIN db = {"sessions", "next"}
        /\ Shaped(db.sessions)
        /\ Bare(db.sessions)
        /\ Quiet(db.sessions)

\* What a step may do to the stored sessions.
StoreStep ==
  /\ DOMAIN db' = {"sessions", "next"}
  /\ db'.next \in {db.next, db.next + 1} /\ db'.next <= MaxSequence
  /\ \/ \E e : /\ e.session \in Session
              /\ EventStep(db.sessions, db'.sessions, e) /\ ~Repeated(db, e)
     \/ Tame(db.sessions, db'.sessions)
     \/ \E o : /\ o \in DOMAIN db.sessions
              /\ DOMAIN db.sessions[o].active \cup DOMAIN db.sessions[o].stopped # {}
              /\ DOMAIN db'.sessions \subseteq DOMAIN db.sessions
              /\ \A s \in DOMAIN db'.sessions :
                   IF s = o THEN /\ DOMAIN db'.sessions[s] = Fields
                                 /\ db'.sessions[s].signature = db.sessions[s].signature
                                 /\ db'.sessions[s].status = db.sessions[s].status
                   ELSE Pruned(db.sessions[s], db'.sessions[s])

\* Event e is of one of the kinds, and about session s.
IsOf(e, s) == e.kind \in Kind /\ e.session = s

\* Every event that a provider can report has one of the kinds.
LEMMA KindsOfEvents ==
  /\ \A e \in SessionStarts : \E s \in Root : IsOf(e, s)
  /\ \A s : \A e \in RootTurnEvents(s) : IsOf(e, s)
  /\ \A s, a, t : \A e \in AgentEvents(s, a, t) : IsOf(e, s)
  /\ \A a, t : \A e \in ChildStarts(a, t) \cup ChildTurnEvents(a, t) : IsOf(e, a)
<1>1. ASSUME NEW s, NEW p, NEW t, NEW k \in Kind, NEW x
      PROVE  /\ IsOf(Event(s, p, t, k), s)
             /\ IsOf([Event(s, p, t, k) EXCEPT !.source = x], s)
             /\ IsOf([Event(s, p, t, k) EXCEPT !.agent = x], s)
             /\ IsOf([Event(s, p, t, k) EXCEPT !.floor = x], s)
  BY DEF Event, IsOf
<1>2. ASSUME NEW e \in SessionStarts PROVE \E s \in Root : IsOf(e, s)
  <2>1. PICK s \in Root, x \in Source :
          e = [Event(s, None, None, "SessionStart") EXCEPT !.source = x]
    BY DEF SessionStarts
  <2> QED BY <1>1, <2>1 DEF Kind
<1>3. ASSUME NEW s, NEW e \in RootTurnEvents(s) PROVE IsOf(e, s)
  <2>1. CASE s \in Antigravity
    <3> DEFINE Prompt(t, f) == [Event(s, None, t, "UserPromptSubmit") EXCEPT !.floor = StepIndex[f]]
    <3>1. \/ e \in {Prompt(t, f) : t \in Invocation, f \in Step}
          \/ e \in {Event(s, None, t, k) : t \in Step, k \in Tool}
          \/ e \in {Event(s, None, t, "Stop") : t \in Execution}
      BY <2>1 DEF RootTurnEvents
    <3>2. \A t, f : IsOf(Prompt(t, f), s)
      BY <1>1 DEF Kind
    <3> HIDE DEF Prompt
    <3>3. CASE e \in {Prompt(t, f) : t \in Invocation, f \in Step}
      <4>1. PICK t \in Invocation, f \in Step : e = Prompt(t, f)
        BY <3>3
      <4> QED BY <3>2, <4>1
    <3>4. CASE e \in {Event(s, None, t, k) : t \in Step, k \in Tool}
      <4>1. PICK t \in Step, k \in Tool : e = Event(s, None, t, k)
        BY <3>4
      <4> QED BY <1>1, <4>1 DEF Kind
    <3>5. CASE e \in {Event(s, None, t, "Stop") : t \in Execution}
      <4>1. PICK t \in Execution : e = Event(s, None, t, "Stop")
        BY <3>5
      <4>2. "Stop" \in Kind
        BY DEF Kind
      <4> QED BY <1>1, <4>1, <4>2
    <3> QED BY <3>1, <3>3, <3>4, <3>5
  <2>2. CASE s \notin Antigravity
    <3>1. PICK t \in PlainTurn, k \in {"UserPromptSubmit", "PreToolUse", "Stop"} :
            e = Event(s, None, t, k)
      BY <2>2 DEF RootTurnEvents
    <3>2. k \in Kind
      BY <3>1 DEF Kind, Tool
    <3> QED BY <1>1, <3>1, <3>2
  <2> QED BY <2>1, <2>2
<1>4. ASSUME NEW s, NEW a, NEW t, NEW e \in AgentEvents(s, a, t) PROVE IsOf(e, s)
  <2>1. PICK k \in {"SubagentStart", "SubagentStop"} : e = [Event(s, None, t, k) EXCEPT !.agent = a]
    BY DEF AgentEvents
  <2> QED BY <1>1, <2>1 DEF Kind
<1>5. ASSUME NEW a, NEW t, NEW e \in ChildStarts(a, t) \cup ChildTurnEvents(a, t)
      PROVE  IsOf(e, a)
  <2>1. CASE e \in ChildStarts(a, t)
    <3>1. PICK p, x : e = [Event(a, p, t, "SessionStart") EXCEPT !.source = x]
      BY <2>1 DEF ChildStarts
    <3> QED BY <1>1, <3>1 DEF Kind
  <2>2. CASE e \in ChildTurnEvents(a, t)
    <3>1. PICK p \in (Root \cap Codex) \ {a}, k \in {"PreToolUse", "Stop"} :
            e = Event(a, p, t, k)
      BY <2>2 DEF ChildTurnEvents
    <3>2. k \in Kind
      BY <3>1 DEF Kind, Tool
    <3> QED BY <1>1, <3>1, <3>2
  <2> QED BY <2>1, <2>2
<1> QED BY <1>2, <1>3, <1>4, <1>5

\* So the reportable events are about sessions and of the kinds.
LEMMA ReportableEvents ==
  ASSUME NEW e \in Reportable PROVE e.kind \in Kind /\ e.session \in Session
<1>1. CASE e \in SessionStarts
  BY <1>1, KindsOfEvents, SessionAssumption DEF IsOf
<1>2. CASE e \in RootReports
  <2>1. PICK s \in Root : e \in RootTurnEvents(s)
    BY <1>2 DEF RootReports
  <2> QED BY <2>1, KindsOfEvents, SessionAssumption DEF IsOf
<1>3. ASSUME NEW s \in Root, NEW a, NEW t, e \in AgentEvents(s, a, t)
      PROVE  e.kind \in Kind /\ e.session \in Session
  BY <1>3, KindsOfEvents, SessionAssumption DEF IsOf
<1>4. CASE e \in AgentReports
  <2>1. PICK s \in Root \ (Codex \cup Antigravity), a \in Child \ Codex, t \in PlainTurn :
          e \in AgentEvents(s, a, t)
    BY <1>4 DEF AgentReports
  <2> QED BY <1>3, <2>1
<1>5. CASE e \in ChildReports
  <2>1. PICK a \in Child \cap Codex :
          e \in UNION {ChildStarts(a, t) \cup ChildTurnEvents(a, t) : t \in Begun(a)}
    BY <1>5 DEF ChildReports
  <2>2. PICK t \in Begun(a) : e \in ChildStarts(a, t) \cup ChildTurnEvents(a, t)
    BY <2>1
  <2> QED BY <2>1, <2>2, KindsOfEvents, SessionAssumption DEF IsOf
<1>6. CASE e \in CodexAgentReports
  <2>1. PICK a \in Child \cap Codex :
          e \in UNION {AgentEvents(s, a, t) : s \in (Root \cap Codex) \ {a}, t \in Begun(a)}
    BY <1>6 DEF CodexAgentReports
  <2>2. PICK s \in (Root \cap Codex) \ {a}, t \in Begun(a) : e \in AgentEvents(s, a, t)
    BY <2>1
  <2> QED BY <1>3, <2>2
<1>7. Reportable = SessionStarts \cup RootReports \cup AgentReports
                    \cup ChildReports \cup CodexAgentReports
  BY DEF Reportable
<1>8. e \in RootReports \/ e \in AgentReports \/ e \in ChildReports \/ e \in CodexAgentReports
        => e.kind \in Kind /\ e.session \in Session
  BY <1>2, <1>4, <1>5, <1>6
<1> QED BY <1>1, <1>7, <1>8

\* The snapshot takes the next number.
Stamped(sn) == DOMAIN sn = {"sessions", "next"} /\ sn.next = db.next + 1

\* Recording an event, accepted or not, is a store step.
LEMMA RecordStep ==
  ASSUME IInv, NEW e, e.kind \in Kind, e.session \in Session, Record(e) PROVE StoreStep
<1>1. db' = Apply(db, e) /\ Valid(Apply(db, e)) /\ db'.next <= MaxSequence
  BY DEF Record, Persist, Valid
<1>2. CASE Accepts(db, e)
  <2>1. db' = After(db, e)
    BY <1>1, <1>2 DEF Apply
  <2>2. EventStep(db.sessions, db'.sessions, e)
    BY <1>2, <2>1, AcceptedStep DEF IInv
  <2>3. ~Repeated(db, e)
    BY <1>2, AcceptedIsNew
  <2>4. Stamped(After(db, e))
    <3> USE DEF Stamped
    <3>1. Stamped(AfterSessionStart(db, e))
      BY DEF AfterSessionStart
    <3>2. Stamped(AfterCodexStart(db, e))
      BY DEF AfterCodexStart
    <3>3. Stamped(AfterCodexStop(db, e))
      BY DEF AfterCodexStop
    <3>4. Stamped(AfterTurnEvent(db, e))
      BY DEF AfterTurnEvent
    <3> QED BY <3>1, <3>2, <3>3, <3>4 DEF After
  <2> QED BY <1>1, <2>1, <2>2, <2>3, <2>4 DEF StoreStep, Stamped
<1>3. CASE ~Accepts(db, e) /\ IsStep(e)
  <2> DEFINE r == Put(db.sessions, e.session, State(db, e))
  <2>1. db' = [db EXCEPT !.sessions = r]
    BY <1>1, <1>3 DEF Apply
  <2>2. DOMAIN db' = {"sessions", "next"} /\ db'.sessions = r /\ db'.next = db.next
    <3> HIDE DEF r
    <3> QED BY <2>1 DEF IInv
  <2>3. e.session \in DOMAIN r /\ r[e.session] = State(db, e)
    BY DEF Put
  <2>4. State(db, e).signature # None
    <3> HIDE DEF r
    <3>1. ValidSession(db', e.session)
      BY <1>1, <2>2, <2>3 DEF Valid
    <3> QED BY <2>2, <2>3, <3>1 DEF ValidSession, ValidSignature
  <2>5. e.session \in DOMAIN db.sessions
    BY <2>4 DEF State, NewSession
  <2>6. r = [z \in DOMAIN db.sessions |-> db.sessions[z]]
    BY <2>5 DEF State, Put
  <2>7. Tame(db.sessions, r)
    BY <2>6 DEF IInv, Shaped, Tame, Pruned
  <2> QED BY <1>1, <2>2, <2>7 DEF StoreStep
<1>4. CASE ~Accepts(db, e) /\ ~IsStep(e)
  <2>1. db' = db
    BY <1>1, <1>4 DEF Apply
  <2> QED BY <1>1, <2>1, TameSelf DEF IInv, StoreStep
<1> QED BY <1>2, <1>3, <1>4

\* A reproof touches the session that holds the agent, and prunes others.
LEMMA ReproveStep == ASSUME IInv, Reprove PROVE StoreStep
<1> DEFINE Uses(ev, o) == /\ ReprovesActive(db, ev, o) \/ ReprovesStopped(db, ev, o)
                          /\ Persist(AfterReproof(db, ev, o))
<1>0. PICK a, p, t : \E o \in DOMAIN db.sessions : Uses(Evidence(a, p, t), o)
  BY DEF Reprove
<1> DEFINE ev == Evidence(a, p, t)
<1>1. PICK o \in DOMAIN db.sessions : Uses(ev, o)
  BY <1>0
<1> HIDE DEF ev
<1> DEFINE ss == db.sessions
           kept == IF ActiveOwners(ss, ev.agent) = {} THEN ss
                   ELSE RemoveSubtree(ss, Subtree(ss, ev.agent), None, None)
           edge == [turn |-> ev.turn, seq |-> db.next, at |-> db.next]
           r == [kept EXCEPT ![o].stopped = Without(@, {ev.agent}),
                             ![o].active = Put(@, ev.agent, edge),
                             ![o].seq = db.next]
<1>2. db' = [next |-> db.next + 1, sessions |-> r] /\ db'.next <= MaxSequence
  BY <1>1 DEF Persist, AfterReproof, Valid
<1>3. Tame(ss, kept)
  <2>1. Shaped(ss)
    BY DEF IInv
  <2> QED BY <2>1, RemoveIsTame, TameSelf
<1>4. DOMAIN ss[o].active \cup DOMAIN ss[o].stopped # {}
  <2>1. CASE ReprovesActive(db, ev, o)
    BY <2>1 DEF ReprovesActive, ActiveOwners
  <2>2. CASE ReprovesStopped(db, ev, o)
    <3>1. o \in StoppedOwners(ss, ev.parent, ev.agent)
      BY <2>2 DEF ReprovesStopped
    <3> QED BY <3>1 DEF StoppedOwners
  <2> QED BY <1>1, <2>1, <2>2
<1>5. DOMAIN r \subseteq DOMAIN ss
  <2> HIDE DEF kept
  <2> QED BY <1>3 DEF Tame
<1>6. ASSUME NEW s \in DOMAIN r
      PROVE  IF s = o THEN /\ DOMAIN r[s] = Fields /\ r[s].signature = ss[s].signature
                           /\ r[s].status = ss[s].status
             ELSE Pruned(ss[s], r[s])
  <2> HIDE DEF kept
  <2>1. s \in DOMAIN kept /\ Pruned(ss[s], kept[s])
    BY <1>3 DEF Tame
  <2>2. CASE s = o
    <3>1. r[s] = [kept[s] EXCEPT !.stopped = Without(@, {ev.agent}),
                                 !.active = Put(@, ev.agent, edge), !.seq = db.next]
      BY <2>1, <2>2
    <3>2. /\ DOMAIN kept[s] = Fields /\ kept[s].signature = ss[s].signature
          /\ kept[s].status = ss[s].status
      BY <2>1 DEF Pruned
    <3>3. DOMAIN r[s] = Fields
      BY <3>1, <3>2
    <3>4. r[s].signature = kept[s].signature /\ r[s].status = kept[s].status
      BY <3>1, <3>2 DEF Fields
    <3> HIDE DEF r
    <3> QED BY <2>2, <3>2, <3>3, <3>4
  <2>3. CASE s # o
    BY <2>1, <2>3
  <2> QED BY <2>2, <2>3
<1>7. DOMAIN db' = {"sessions", "next"} /\ db'.sessions = r /\ db'.next = db.next + 1
  <2> HIDE DEF r
  <2> QED BY <1>2
<1> HIDE DEF r, ss, kept
<1>8. o \in DOMAIN ss /\ ss = db.sessions
  BY DEF ss
<1> QED BY <1>2, <1>4, <1>5, <1>6, <1>7, <1>8 DEF StoreStep

\* Every step of the specification is a store step.
LEMMA EveryStep == ASSUME IInv, [Next]_vars PROVE StoreStep
<1>1. CASE RecordSessionStart
  BY <1>1, SessionAssumption, KindsOfEvents, RecordStep DEF RecordSessionStart, IsOf
<1>2. CASE RecordTurnEvent
  BY <1>2, SessionAssumption, KindsOfEvents, RecordStep DEF RecordTurnEvent, IsOf
<1>3. CASE RecordCodexAgent
  BY <1>3, SessionAssumption, KindsOfEvents, RecordStep DEF RecordCodexAgent, IsOf
<1>4. CASE RecordAgent
  BY <1>4, SessionAssumption, KindsOfEvents, RecordStep DEF RecordAgent, IsOf
<1>5. CASE RecordChildEvent
  BY <1>5, SessionAssumption, KindsOfEvents, RecordStep DEF RecordChildEvent, IsOf
<1>6. CASE Reprove
  BY <1>6, ReproveStep
<1>7. CASE BeginTurn \/ UNCHANGED vars
  <2>1. db' = db
    BY <1>7 DEF BeginTurn, vars
  <2> QED BY <2>1, TameSelf DEF IInv, TypeOK, StoreStep
<1> QED BY <1>1, <1>2, <1>3, <1>4, <1>5, <1>6, <1>7 DEF Next

\* A store step keeps what is known of each session: a rewritten session is
\* bare if its event is a stop, a pruned one stays bare, a reproved one did not
\* stop last and was not idle.
LEMMA StoreStepKeeps ==
  ASSUME IInv, StoreStep
  PROVE  /\ DOMAIN db' = {"sessions", "next"}
         /\ Shaped(db'.sessions) /\ Bare(db'.sessions) /\ Quiet(db'.sessions)
         /\ DOMAIN db'.sessions \subseteq Session /\ db'.next \in 1..MaxSequence
<1> DEFINE Kept(st) == /\ DOMAIN st = Fields /\ Calm(st)
                       /\ st.signature.kind = "Stop" =>
                            DOMAIN st.active \cup DOMAIN st.stopped = {}
<1>0. /\ \A s \in DOMAIN db.sessions : Kept(db.sessions[s])
      /\ DOMAIN db.sessions \subseteq Session
  BY DEF IInv, TypeOK, Shaped, Bare, Quiet
<1>1. ASSUME NEW st, NEW r, Kept(st), Pruned(st, r) PROVE Kept(r)
  BY <1>1 DEF Pruned, Calm
<1>2. (\A s \in DOMAIN db'.sessions : Kept(db'.sessions[s])) /\ DOMAIN db'.sessions \subseteq Session
  <2>1. CASE Tame(db.sessions, db'.sessions)
    <3>1. ASSUME NEW s \in DOMAIN db'.sessions PROVE Kept(db'.sessions[s])
      <4>1. s \in DOMAIN db.sessions /\ Pruned(db.sessions[s], db'.sessions[s])
        BY <2>1, <3>1 DEF Tame
      <4> HIDE DEF Kept
      <4> QED BY <1>0, <1>1, <4>1
    <3> QED BY <1>0, <2>1, <3>1 DEF Tame
  <2>2. ASSUME NEW e, e.session \in Session, EventStep(db.sessions, db'.sessions, e)
        PROVE  /\ \A s \in DOMAIN db'.sessions : Kept(db'.sessions[s])
               /\ DOMAIN db'.sessions \subseteq Session
    <3>1. ASSUME NEW s \in DOMAIN db'.sessions PROVE Kept(db'.sessions[s])
      <4>1. CASE s = e.session
        <5>1. Rewritten(db'.sessions[s], e)
          BY <2>2, <4>1 DEF EventStep
        <5>2. SignatureOf(e).kind = e.kind
          BY DEF SignatureOf
        <5> QED BY <5>1, <5>2 DEF Rewritten
      <4>2. CASE s # e.session
        <5>1. s \in DOMAIN db.sessions /\ Pruned(db.sessions[s], db'.sessions[s])
          BY <2>2, <4>2 DEF EventStep
        <5> HIDE DEF Kept
        <5> QED BY <1>0, <1>1, <5>1
      <4> QED BY <4>1, <4>2
    <3> QED BY <1>0, <2>2, <3>1 DEF EventStep
  <2>3. ASSUME NEW o \in DOMAIN db.sessions,
               DOMAIN db.sessions[o].active \cup DOMAIN db.sessions[o].stopped # {},
               DOMAIN db'.sessions \subseteq DOMAIN db.sessions,
               \A s \in DOMAIN db'.sessions :
                 IF s = o THEN /\ DOMAIN db'.sessions[s] = Fields
                               /\ db'.sessions[s].signature = db.sessions[s].signature
                               /\ db'.sessions[s].status = db.sessions[s].status
                 ELSE Pruned(db.sessions[s], db'.sessions[s])
        PROVE  /\ \A s \in DOMAIN db'.sessions : Kept(db'.sessions[s])
               /\ DOMAIN db'.sessions \subseteq Session
    <3>1. db.sessions[o].signature.kind # "Stop" /\ db.sessions[o].status # "Idle"
      BY <1>0, <2>3 DEF Calm
    <3>2. ASSUME NEW s \in DOMAIN db'.sessions PROVE Kept(db'.sessions[s])
      <4>1. CASE s = o
        BY <2>3, <3>1, <4>1 DEF Calm
      <4>2. CASE s # o
        <5>1. s \in DOMAIN db.sessions /\ Pruned(db.sessions[s], db'.sessions[s])
          BY <2>3, <4>2
        <5> HIDE DEF Kept
        <5> QED BY <1>0, <1>1, <5>1
      <4> QED BY <4>1, <4>2
    <3> QED BY <1>0, <2>3, <3>2
  <2> QED BY <2>1, <2>2, <2>3 DEF StoreStep
<1>3. db'.next \in 1..MaxSequence
  BY LimitAssumption DEF StoreStep, IInv, TypeOK
<1> QED BY <1>2, <1>3 DEF StoreStep, Shaped, Bare, Quiet

\* The rest of a state is well typed whatever is stored.
LEMMA HistoryTypes ==
  ASSUME IInv, [Next]_vars
  PROVE  begun' \in [Child -> [Turn -> 0..MaxSequence]] /\ past' \in [Child -> SUBSET Turn]
<1>0. /\ begun \in [Child -> [Turn -> 0..MaxSequence]] /\ past \in [Child -> SUBSET Turn]
      /\ db.next \in 0..MaxSequence
  BY LimitAssumption DEF IInv, TypeOK
<1>1. ASSUME NEW sn, Persist(sn)
      PROVE  past' \in [Child -> SUBSET Turn]
  BY <1>0, <1>1 DEF Persist, ProvenTurns
<1>2. CASE RecordSessionStart \/ RecordTurnEvent \/ RecordCodexAgent \/ RecordAgent
           \/ RecordChildEvent
  <2>1. \E e : Record(e)
    BY <1>2 DEF RecordSessionStart, RecordTurnEvent, RecordCodexAgent, RecordAgent,
       RecordChildEvent
  <2> QED BY <1>0, <1>1, <2>1 DEF Record
<1>3. CASE Reprove
  BY <1>0, <1>1, <1>3 DEF Reprove
<1>4. CASE BeginTurn
  BY <1>0, <1>4 DEF BeginTurn
<1>5. CASE UNCHANGED vars
  BY <1>0, <1>5 DEF vars
<1> QED BY <1>2, <1>3, <1>4, <1>5 DEF Next

\* The empty store satisfies the invariant.
LEMMA Initially == Init => IInv
<1> SUFFICES ASSUME Init PROVE IInv
  OBVIOUS
<1>1. db = [sessions |-> Empty, next |-> 1] /\ DOMAIN Empty = {}
  BY DEF Init, Empty
<1>2. DOMAIN db = {"sessions", "next"} /\ DOMAIN db.sessions = {} /\ db.next = 1
  BY <1>1
<1>3. TypeOK
  BY <1>2, LimitAssumption DEF Init, TypeOK
<1> QED BY <1>2, <1>3 DEF IInv, Shaped, Bare, Quiet

\* The invariant holds in every reachable state.
THEOREM Invariance == Spec => []IInv
<1>1. IInv /\ [Next]_vars => IInv'
  BY EveryStep, StoreStepKeeps, HistoryTypes DEF IInv, TypeOK
<1> QED BY Initially, <1>1, PTL DEF Spec

\* Type correctness of the stored snapshot and of its history.
THEOREM TypeCorrect == Spec => []TypeOK
<1>1. IInv => TypeOK
  BY DEF IInv
<1> QED BY Invariance, <1>1, PTL

\* A session that the projection reports idle (LifecycleSnapshot::apply, Stop)
\* has no open turn and runs no agent, in any order of events and reproofs.
THEOREM IdleRunsNothing == Spec => []IdleMeansIdle
<1>1. IInv => IdleMeansIdle
  BY DEF IInv, Quiet, Calm, IdleMeansIdle, Known
<1> QED BY Invariance, <1>1, PTL

\* A session whose latest event is its stop (LifecycleSnapshot::apply, Stop)
\* holds no agent, running or stopped, in any order of events and reproofs.
THEOREM StopHoldsNoAgent == Spec => []StopIsBare
<1>1. IInv => StopIsBare
  BY DEF IInv, Bare, StopIsBare, Known
<1> QED BY Invariance, <1>1, PTL

\* The sequence recovery keys an attempt by (recovery.rs, RecoveryAttempt)
\* never changes while the stop it belongs to is the session's latest event.
THEOREM StopKeyStable == Spec => StopKeyIsStable
<1> DEFINE A == \A s \in Known : LET st == db.sessions[s] IN
                  /\ st.signature.kind = "Stop"
                  /\ s \in DOMAIN db'.sessions
                  /\ db'.sessions[s].signature = st.signature
                  => db'.sessions[s].seq = st.seq
<1>1. ASSUME IInv, StoreStep PROVE A
  <2> SUFFICES ASSUME NEW s \in DOMAIN db.sessions,
                      db.sessions[s].signature.kind = "Stop",
                      s \in DOMAIN db'.sessions,
                      db'.sessions[s].signature = db.sessions[s].signature
               PROVE  db'.sessions[s].seq = db.sessions[s].seq
    BY DEF Known
  <2>1. CASE Tame(db.sessions, db'.sessions)
    BY <2>1 DEF Tame, Pruned
  <2>2. ASSUME NEW e, EventStep(db.sessions, db'.sessions, e), ~Repeated(db, e)
        PROVE  db'.sessions[s].seq = db.sessions[s].seq
    <3>1. s # e.session
      <4> SUFFICES ASSUME s = e.session PROVE FALSE
        OBVIOUS
      <4>1. db'.sessions[s].signature = SignatureOf(e)
        BY <2>2 DEF EventStep, Rewritten
      <4> QED BY <2>2, <4>1 DEF Repeated, State
    <3> QED BY <2>2, <3>1 DEF EventStep, Pruned
  <2>3. ASSUME NEW o \in DOMAIN db.sessions,
               DOMAIN db.sessions[o].active \cup DOMAIN db.sessions[o].stopped # {},
               \A x \in DOMAIN db'.sessions : x # o => Pruned(db.sessions[x], db'.sessions[x])
        PROVE  db'.sessions[s].seq = db.sessions[s].seq
    <3>1. s # o
      BY <1>1, <2>3 DEF IInv, Bare
    <3> QED BY <2>3, <3>1 DEF Pruned
  <2> QED BY <1>1, <2>1, <2>2, <2>3 DEF StoreStep
<1>2. IInv /\ [Next]_vars => [A]_vars
  BY <1>1, EveryStep
<1>3. (Spec => []IInv) => (Spec => [][A]_vars)
  BY <1>2, PTL DEF Spec
<1> QED BY Invariance, <1>3 DEF StopKeyIsStable

------------------------------------------------------------------------------
(* Redelivery. *)

\* The session of an accepted event is known afterwards, unless the event is a
\* Codex agent's stop, which may remove what runs below the agent.
LEMMA AcceptedStays ==
  ASSUME NEW sn, NEW e, ~(e.session \in Codex /\ e.kind = "SubagentStop")
  PROVE  e.session \in DOMAIN After(sn, e).sessions
<1>1. ASSUME NEW ss, NEW n PROVE DOMAIN RefreshLinked(ss, e, n) = DOMAIN ss
  BY DEF RefreshLinked
<1>2. ASSUME NEW ss, NEW S PROVE DOMAIN RemoveSubtree(ss, S, None, None) = DOMAIN ss \ S
  BY DEF RemoveSubtree
<1>3. ASSUME NEW ss, NEW st PROVE e.session \in DOMAIN Put(ss, e.session, st)
  BY DEF Put
<1>4. CASE e.kind = "SessionStart"
  <2>1. \E st, S : /\ e.session \notin S
                  /\ AfterSessionStart(sn, e).sessions =
                       RefreshLinked(RemoveSubtree(Put(sn.sessions, e.session, st), S,
                                                   None, None), e, sn.next)
    <3> DEFINE fresh == e.source # "compact"
               cleared == IF fresh THEN ClearTransient(State(sn, e)) ELSE State(sn, e)
               started == Accept([cleared EXCEPT !.source = e.source], e, sn.next)
               below == IF fresh /\ e.session \in Codex
                        THEN Subtree(sn.sessions, e.session) \ {e.session} ELSE {}
    <3>1. e.session \notin below
      OBVIOUS
    <3>2. AfterSessionStart(sn, e).sessions =
            RefreshLinked(RemoveSubtree(Put(sn.sessions, e.session, started), below,
                                        None, None), e, sn.next)
      BY DEF AfterSessionStart
    <3> HIDE DEF started, below
    <3> QED BY <3>1, <3>2
  <2>2. After(sn, e) = AfterSessionStart(sn, e)
    BY <1>4 DEF After
  <2>3. PICK st, S : /\ e.session \notin S
                    /\ After(sn, e).sessions =
                         RefreshLinked(RemoveSubtree(Put(sn.sessions, e.session, st), S,
                                                     None, None), e, sn.next)
    BY <2>1, <2>2
  <2> DEFINE put == Put(sn.sessions, e.session, st)
             kept == RemoveSubtree(put, S, None, None)
  <2>4. e.session \in DOMAIN put
    BY <1>3
  <2>5. DOMAIN kept = DOMAIN put \ S
    BY <1>2
  <2>6. DOMAIN RefreshLinked(kept, e, sn.next) = DOMAIN kept
    BY <1>1
  <2>7. After(sn, e).sessions = RefreshLinked(kept, e, sn.next)
    BY <2>3
  <2> HIDE DEF put, kept
  <2> QED BY <2>3, <2>4, <2>5, <2>6, <2>7
<1>5. CASE e.kind # "SessionStart" /\ e.session \in Codex /\ e.kind = "SubagentStart"
  <2>1. \E ss, st : AfterCodexStart(sn, e).sessions =
                     RefreshLinked(Put(ss, e.session, st), e, sn.next)
    BY DEF AfterCodexStart
  <2> QED BY <1>1, <1>3, <1>5, <2>1 DEF After
<1>6. CASE e.kind # "SessionStart" /\ ~(e.session \in Codex /\ e.kind = "SubagentStart")
  <2>1. \E st, S : /\ e.session \notin S
                  /\ AfterTurnEvent(sn, e).sessions =
                       RemoveSubtree(RefreshLinked(Put(sn.sessions, e.session, st), e, sn.next),
                                     S, None, None)
    <3> DEFINE entered == EnterTurn(State(sn, e), e)
               done == Accept(Effect([entered EXCEPT !.open = TRUE, !.source = None], e, sn.next),
                              e, sn.next)
               below == IF e.session \in Codex /\ e.kind = "Stop"
                        THEN Subtree(sn.sessions, e.session) \ {e.session} ELSE {}
    <3>1. e.session \notin below
      OBVIOUS
    <3>2. AfterTurnEvent(sn, e).sessions =
            RemoveSubtree(RefreshLinked(Put(sn.sessions, e.session, done), e, sn.next),
                          below, None, None)
      BY DEF AfterTurnEvent
    <3> HIDE DEF done, below
    <3> QED BY <3>1, <3>2
  <2>2. After(sn, e) = AfterTurnEvent(sn, e)
    BY <1>6 DEF After
  <2>3. PICK st, S : /\ e.session \notin S
                    /\ After(sn, e).sessions =
                         RemoveSubtree(RefreshLinked(Put(sn.sessions, e.session, st), e, sn.next),
                                       S, None, None)
    BY <2>1, <2>2
  <2> DEFINE put == Put(sn.sessions, e.session, st)
             fresh == RefreshLinked(put, e, sn.next)
  <2>4. e.session \in DOMAIN put
    BY <1>3
  <2>5. DOMAIN fresh = DOMAIN put
    BY <1>1
  <2>6. DOMAIN RemoveSubtree(fresh, S, None, None) = DOMAIN fresh \ S
    BY <1>2
  <2>7. After(sn, e).sessions = RemoveSubtree(fresh, S, None, None)
    BY <2>3
  <2> HIDE DEF put, fresh
  <2> QED BY <2>3, <2>4, <2>5, <2>6, <2>7
<1> QED BY <1>4, <1>5, <1>6

\* Whoever delivers an accepted event again finds it repeated, or the session
\* of the agent's stop gone.
LEMMA SecondIsIgnored ==
  ASSUME IInv, NEW e, e.kind \in Kind, Accepts(db, e)
  PROVE  ~Accepts(After(db, e), e) /\ Apply(After(db, e), e) = After(db, e)
<1> DEFINE sn == After(db, e)
<1>1. ~Accepts(sn, e)
  <2>1. CASE e.session \in DOMAIN sn.sessions
    <3>1. EventStep(db.sessions, sn.sessions, e)
      BY AcceptedStep DEF IInv
    <3>2. sn.sessions[e.session].signature = SignatureOf(e)
      <4> HIDE DEF sn
      <4> QED BY <2>1, <3>1 DEF EventStep, Rewritten
    <3>3. Repeated(sn, e)
      <4> HIDE DEF sn
      <4> QED BY <2>1, <3>2 DEF Repeated, State
    <3> QED BY <3>3, AcceptedIsNew
  <2>2. CASE e.session \notin DOMAIN sn.sessions
    <3>1. e.session \in Codex /\ e.kind = "SubagentStop"
      BY <2>2, AcceptedStays
    <3>2. ~AcceptsCodexStop(sn, e)
      <4> HIDE DEF sn
      <4> QED BY <2>2 DEF AcceptsCodexStop
    <3> HIDE DEF sn
    <3> QED BY <3>1, <3>2 DEF Accepts
  <2> QED BY <2>1, <2>2
<1>2. CASE IsStep(e)
  <2>1. e.session \notin Codex /\ e.kind \in Tool
    BY <1>2, ProviderAssumption DEF IsStep
  <2>2. sn = AfterTurnEvent(db, e)
    BY <2>1 DEF After, Tool
  <2>3. e.session \in DOMAIN sn.sessions
    BY <2>1, AcceptedStays
  <2>4. /\ sn = [next |-> sn.next, sessions |-> sn.sessions]
        /\ sn.sessions = [s \in DOMAIN sn.sessions |-> sn.sessions[s]]
    <3> HIDE DEF sn
    <3> QED BY <2>2 DEF AfterTurnEvent, RemoveSubtree
  <2> HIDE DEF sn
  <2>5. Put(sn.sessions, e.session, State(sn, e)) = sn.sessions
    BY <2>3, <2>4 DEF Put, State
  <2>6. [sn EXCEPT !.sessions = sn.sessions] = sn
    BY <2>4
  <2> QED BY <1>1, <1>2, <2>5, <2>6 DEF Apply, sn
<1>3. CASE ~IsStep(e)
  <2> HIDE DEF sn
  <2> QED BY <1>1, <1>3 DEF Apply, sn
<1> QED BY <1>1, <1>2, <1>3

\* A hook that does not know whether its event was committed can be run again
\* (lifecycle_hook.rs; LifecycleSnapshot::apply, the repeated signature).
THEOREM RedeliveryIsHarmless == Spec => []RedeliveryIsIgnored
<1>1. IInv => RedeliveryIsIgnored
  BY ReportableEvents, SecondIsIgnored DEF RedeliveryIsIgnored
<1> QED BY Invariance, <1>1, PTL
==============================================================================
