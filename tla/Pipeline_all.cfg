SPECIFICATION FairSpec
CONSTANTS
  r1 = r1
  l1 = l1
  Rtsp <- OneRtsp
  Usb = {}
  Local <- OneLocal
  None = None
  Cap = 1
  Interval = 2
  MaxReads <- OneEachOrThree
  MaxVideos = 1
INVARIANT AtMostOneLate
PROPERTIES FramesInOrder FramesHandled EventsHandled QuitEnds
CHECK_DEADLOCK FALSE
