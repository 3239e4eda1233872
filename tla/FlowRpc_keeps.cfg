CONSTANTS
  Producers = {d1, d2}
  Msg = {m1, m2, m3}
  Stamps = {t1, t2, t3}
  QMAX = 1
  FAILMAX = 2
  METRICFREQ = 20
  SameMs = FALSE
  DiskFaults = FALSE
  MayCrash = TRUE
  Uploader = uploader
  None = None
  Torn = Torn
SPECIFICATION FairSpec
PROPERTIES BacklogDrains ProducersReturn
CHECK_DEADLOCK FALSE
