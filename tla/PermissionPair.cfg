\* Two invocations of a Codex subagent's request or of one the safety rules deny,
\* each request on a lock file of its own.
CONSTANTS
  h1 = h1
  h2 = h2
  plain = plain
  risky = risky
  s1 = s1
  s2 = s2
  None = None
  Hook = {h1, h2}
  Identity = {plain, risky}
  Shard = {s1, s2}
  ShardOf <- OwnShard
  Dangerous = {risky}
  Antigravity = {risky}
  Subagent = {plain}
SPECIFICATION LiveSpec
INVARIANTS
  AnswerIsCommitted
  DeliveryIsTruthful
  TrailMatchesAttempt
  OneLiveAttempt
  OneModelAnswer
PROPERTIES
  ApprovalSeesLifecycle
  DeterministicDenyStands
  ImplementsAuthority
  LockIsReleased
  SettledIsFinal
CHECK_DEADLOCK FALSE
