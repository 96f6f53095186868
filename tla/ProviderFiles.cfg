\* A process that changes two provider files and a doctor.
CONSTANTS
  p1 = p1
  p2 = p2
  f1 = f1
  f2 = f2
  None = None
  Proc = {p1, p2}
  Doctor = {p2}
  File = {f1, f2}
  MaxVersion = 1
  MaxCommands = 1
  MaxFaults = 2
SPECIFICATION LiveSpec
INVARIANTS
  UserTextSurvives
  AllOrNothing
  SuccessIsComplete
PROPERTIES
  JournalIsResolved
CHECK_DEADLOCK FALSE
