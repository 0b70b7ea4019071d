SPECIFICATION LiveSpec
CONSTANTS
  t1 = t1
  t2 = t2
  r1 = r1
  r2 = r2
  MaxSessions = 1
  MaxGeneration = 4
  Requests = {r1, r2}
  NoToken = NoToken
  Tabs = {t1, t2}
  NoTab = NoTab
  Lossy = TRUE
INVARIANTS
  LateTokensAreDead
  ReplayHasACause
PROPERTIES
  ExchangedOnce
  EndedIsNoticed
