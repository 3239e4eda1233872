CONSTANTS
  Producers = {d1, d2}
  Msg = {m1, m2, m3, m4}
  Stamps = {t1, t2}
  QMAX = 1
  FAILMAX = 2
  METRICFREQ = 20
  SameMs = TRUE
  DiskFaults = TRUE
  MayCrash = TRUE
  Uploader = uploader
  None = None
  Torn = Torn
SPECIFICATION Spec
SYMMETRY Symmetry
INVARIANTS TypeOK NoLostWakeup NeverSleepsHoldingQueue BacklogBounded PopsWhatItSent
PROPERTIES KeepsMessages StoredUntilAcked
CHECK_DEADLOCK FALSE
