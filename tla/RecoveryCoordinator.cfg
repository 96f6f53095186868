\* A queue and a diagnostic cache of one, and more to put in each.
CONSTANTS
  a1 = a1
  a2 = a2
  d1 = d1
  d2 = d2
  t1 = t1
  t2 = t2
  t3 = t3
  Attempt = {a1, a2}
  Diagnostic = {d1, d2}
  About <- OneEach
  Thread = {t1, t2, t3}
  MaxQueue = 1
  MaxWorkers = 2
  MaxFailures = 1
SPECIFICATION LiveSpec
INVARIANTS
  SlotsAreThreads
  OneEvaluationPerAttempt
  DiagnosticHasOneWriter
PROPERTIES
  ScansGoOn
  DiagnosticIsSettled
