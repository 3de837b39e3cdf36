SPECIFICATION Spec
CONSTANTS
  c1 = c1
  c2 = c2
  c3 = c3
  ch1 = ch1
  ch2 = ch2
  ch3 = ch3
  healthy = healthy
  failed = failed
  Callers <- MCCallers
  Chans <- MCChans
  Reports <- MCReports
  TTL = 2
INVARIANTS SingleFlight NoLostWakeup
PROPERTIES ProbesAreSpaced AnswersAreFresh OnlyExpiryStarves
