CONSTANTS
  Producers = {d1}
  Msg = {m1, m2, m3}
  Stamps = {t1, t2, t3}
  QMAX = 1
  FAILMAX = 2
  METRICFREQ = 20
  SameMs = FALSE
  DiskFaults = FALSE
  MayCrash = FALSE
  Uploader = uploader
  None = None
  Torn = Torn
SPECIFICATION Spec

PROPERTY FailedKeptUntilAcked
CHECK_DEADLOCK FALSE
