SPECIFICATION FairSpec
CONSTANTS
  Media = {v1, v2, p1}
  Photos = {p1}
  MaxRecordings = 2
  MaxCalls = 2
CHECK_DEADLOCK FALSE
INVARIANTS
  TypeOK
  SentIsComplete
  RecordingIsShown
  StopIsDue
  VoiceIsSentOnce
PROPERTIES
  RecorderStops
