\* The hook and the pollers of one session, and a second session that can push
\* it out of the lifecycle.
CONSTANTS
  h1 = h1
  w1 = w1
  s1 = s1
  s2 = s2
  p1 = p1
  p2 = p2
  None = None
  Session = {s1, s2}
  MaxSequence = 4
  Hook = {h1}
  Worker = {w1}
  Prompt = {p1}
  Reachable = {s1}
SPECIFICATION Spec
INVARIANTS
  OneContinuePerAttempt
  ContinueIsAnnounced
  RecordIsTruthful
CHECK_DEADLOCK FALSE
