\* Two Codex threads in any order of events: one an agent of the other, in two
\* turns, or each a session and the agent of the other, in one.
CONSTANTS
  r1 = r1
  r2 = r2
  a1 = a1
  a2 = a2
  t1 = t1
  t2 = t2
  t3 = t3
  inv1 = inv1
  inv2 = inv2
  step0 = step0
  step1 = step1
  exec = exec
  None = None
  Session = {r1, r2}
  Turn = {t1, t2}
  Codex = {r1, r2}
  Antigravity = {}
  Invocation = {}
  Step = {}
  Execution = {}
  StepIndex <- NoSteps
  Root = {r1, r2}
  Child = {r1, r2}
  MaxRecent = 2
  MaxActive = 1
  MaxSteps = 1
  MaxSessions = 2
  MaxSequence = 6
SYMMETRY RootsAndTurns
SPECIFICATION BoundedSpec
INVARIANTS
  TypeOK
  ReducerSatisfiesWriter
  LinkedEventKeepsEdge
  RedeliveryIsIgnored
PROPERTIES
  OnlyStartsRevive
  StopKeyIsStable
  ImplementsLog
CHECK_DEADLOCK FALSE
