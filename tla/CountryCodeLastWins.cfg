SPECIFICATION CountrySpec
CONSTANTS
  Entries = {1}
  Deadlines = {0}
  NoEntry = 0
  BulkPurgeRatio = 5
CHECK_DEADLOCK FALSE
INVARIANT
  LastRecordWins
