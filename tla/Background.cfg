SPECIFICATION BgSpec
CONSTANTS
  Starters = {s1, s2}
  Stoppers = {t1, t2, t3}
  None = None
  db = db
  queue = queue
  N = 3
  ID <- ThreeIDs
  NoChecker = {2}
CHECK_DEADLOCK FALSE
INVARIANTS
  StoppedForGood
  AnswerIsTrue
PROPERTIES
  GoroutinesEnd
