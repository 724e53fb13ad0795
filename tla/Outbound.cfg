SPECIFICATION OutSpec
CONSTANTS
  NaN = NaN
  MaxInt = 63
  FloatMax = 128
  Exact = 8
  Float <- Round
  Configs <- SomeConfigs
  Attempts = 4
  OnRetry = TRUE
  Second = 4
  MaxRetryAfter = 60
  RespectRetryAfter = TRUE
  Jitter = 6
  Delays <- SomeDelays
  Headers <- SomeHeaders
  a4 = a4
  b4 = b4
  c4 = c4
  a4mapped = a4mapped
  a6 = a6
  b6 = b6
  bad = bad
  Raws = {a4, b4, c4, a4mapped, a6, b6, bad}
  Addr <- Parsed
  Dialers = {d1, d2}
  Answers <- SomeAnswers
  Networks = {"tcp", "tcp4", "tcp6"}
  Rotate = TRUE
  MaxDials = 2
INVARIANTS
  WellFormed
  BodiesAreSound
  HonoursRetryAfter
  
PROPERTIES
  RetriesAreAnnounced
  ImplementsRetry
  RotationAdvances
  CallsReturn
