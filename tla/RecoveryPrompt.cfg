\* A pane that can show two different recovery prompts.
CONSTANTS
  h1 = h1
  w1 = w1
  s1 = s1
  s2 = s2
  p1 = p1
  p2 = p2
  None = None
  Session = {s1, s2}
  MaxSequence = 4
  Hook = {h1}
  Worker = {w1}
  Prompt = {p1, p2}
  Reachable = {s1}
SPECIFICATION Spec
INVARIANTS
  ContinueAnswersDecidedPrompt
CHECK_DEADLOCK FALSE
