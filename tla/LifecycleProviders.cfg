\* A Claude session with two agents, or an Antigravity conversation.  There is
\* room for one session, so a behaviour is about one of them.
CONSTANTS
  r1 = r1
  r2 = r2
  a1 = a1
  a2 = a2
  t1 = t1
  t2 = t2
  t3 = t3
  inv1 = inv1
  inv2 = inv2
  step0 = step0
  step1 = step1
  exec = exec
  None = None
  Session = {r1, r2, a1, a2}
  Turn = {t1, t2, t3, inv1, inv2, step0, step1, exec}
  Codex = {}
  Antigravity = {r2}
  Invocation = {inv1, inv2}
  Step = {step0, step1}
  Execution = {exec}
  StepIndex <- Numbered
  Root = {r1, r2}
  Child = {a1, a2}
  MaxRecent = 2
  MaxActive = 1
  MaxSteps = 1
  MaxSessions = 1
  MaxSequence = 10
SYMMETRY AgentsAndPlainTurns
SPECIFICATION Spec
INVARIANTS
  ReducerSatisfiesWriter
  OpenTurnIsNotRecent
  IdleMeansIdle
CHECK_DEADLOCK FALSE
