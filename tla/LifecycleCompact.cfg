\* A session is compacted while its agent runs.
CONSTANTS
  r1 = r1
  r2 = r2
  a1 = a1
  a2 = a2
  t1 = t1
  t2 = t2
  t3 = t3
  inv1 = inv1
  inv2 = inv2
  step0 = step0
  step1 = step1
  exec = exec
  None = None
  Session = {r1, a1}
  Turn = {t1, t2}
  Codex = {r1, a1}
  Antigravity = {}
  Invocation = {}
  Step = {}
  Execution = {}
  StepIndex <- NoSteps
  Root = {r1}
  Child = {a1}
  MaxRecent = 2
  MaxActive = 1
  MaxSteps = 1
  MaxSessions = 2
  MaxSequence = 6
SYMMETRY Turns
SPECIFICATION Spec
INVARIANTS
  RunningAgentCanStop
CHECK_DEADLOCK FALSE
