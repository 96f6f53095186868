\* One log, one journal and the review marks; the log may grow once; two crashes.
CONSTANTS
  log = log
  journals = journals
  marks = marks
  None = None
  Torn = Torn
  Logs <- OneLog
  Journals = journals
  Review = marks
  MaxVersion <- LogGrows
  MaxCrashes = 2
SPECIFICATION Spec
INVARIANT FreezeIsResumed
CHECK_DEADLOCK FALSE
