\* Two calls of one session, or two sessions of one directory whose files change twice.
CONSTANTS
  cx = cx
  cl = cl
  tx = tx
  tl = tl
  c1 = c1
  c2 = c2
  c3 = c3
  d1 = d1
  d2 = d2
  pre1 = pre1
  pre2 = pre2
  pre3 = pre3
  post1 = post1
  post2 = post2
  post3 = post3
  twice1 = twice1
  dpre1 = dpre1
  dpre2 = dpre2
  dpost1 = dpost1
  dpost2 = dpost2
  None = None
  NoRow = NoRow
  Session = {cx, cl}
  Turn = {tx, tl}
  Codex = {cx}
  Antigravity = {}
  Invocation = {}
  Step = {}
  Execution = {}
  StepIndex <- NoSteps
  MaxRecent = 1
  MaxActive = 1
  MaxSteps = 1
  MaxSessions = 2
  MaxSequence = 100
  Hook = {pre1, pre2, pre3, post1, post2, post3, twice1, dpre1, dpre2, dpost1, dpost2}
  Event <- Events
  TurnOf <- Turns
  Opens <- Started
  Scenes <- AllScenes
  Depth = 2
  MaxRows = 1
  Volatile <- Changing
  MaxEdits = 2
SPECIFICATION Spec
INVARIANTS
  OutcomeIsOfItsCall
  OneOutcomePerDecision
  HitIsCurrent
CHECK_DEADLOCK FALSE
