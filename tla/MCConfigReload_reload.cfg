\* Two reloads at a time against the refill task, other requests and an operator editing the file.
CONSTANTS
  None = None
  NoToken = NoToken
  t1 = t1
  Reloads = {q1, q2}
  Files <- MCFiles
SPECIFICATION FairSpec
INVARIANTS
  SettingsExplained
  RateBounded
PROPERTY
  BucketRefills
