------------------------------ MODULE MCLifecycle ------------------------------
(* Small instances of the stored lifecycle for TLC. *)
EXTENDS LifecycleRefinement, TLC

CONSTANTS r1, r2, a1, a2,   \* sessions and agents
          t1, t2, t3,       \* turns
          inv1, inv2, step0, step1, exec

\* The steps of an Antigravity conversation, numbered.
Numbered == step0 :> 0 @@ step1 :> 1
NoSteps == [t \in {} |-> 0]

Agents == Permutations(Child)
Turns == Permutations(Turn)
RootsAndTurns == Permutations(Root) \cup Turns
AgentsAndPlainTurns == Agents \cup Permutations(PlainTurn)

(* Two shapes of two Codex threads, in one run: one thread is an agent of the  *)
(* other, in as many turns as there are, or each is reported as a session and  *)
(* as an agent of the other, in one turn.                                      *)
OneAgent ==
  \E a \in Child :
    /\ \A b \in Child \ {a}, t \in Turn : begun[b][t] = 0
    /\ a \in DOMAIN db.sessions => db.sessions[a].parent # None

UsedTurns ==
  {t \in Turn : \/ \E a \in Child : begun[a][t] # 0
                \/ \E s \in DOMAIN db.sessions :
                     t \in Recent(db.sessions[s]) \cup {db.sessions[s].turn}}

OneTurn == Cardinality(UsedTurns) <= 1

BoundedSpec == Init /\ [][Next /\ (OneAgent \/ OneTurn)']_vars
==============================================================================
