\* One request of Codex that the safety rules deny, and one invocation of it.
CONSTANTS
  h1 = h1
  h2 = h2
  plain = plain
  risky = risky
  s1 = s1
  s2 = s2
  None = None
  Hook = {h1}
  Identity = {risky}
  Shard = {s1}
  ShardOf <- OneShard
  Dangerous = {risky}
  Antigravity = {}
  Subagent = {}
SPECIFICATION Spec
INVARIANT AdmittedDenyIsTold
CHECK_DEADLOCK FALSE
