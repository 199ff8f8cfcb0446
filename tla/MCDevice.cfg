CONSTANTS
  Addrs = {a1}
  Servers = {s1}
  None = None
  Grants <- MCGrants
  NoGateway = {FALSE}
  kInitialTimeout = 1
  kMaxTimeout = 2
  kTimeoutSpan = 1
  TransactionIds = 2
  SecondsWord = 32
  MillisWord = 4
  Frames = {"b", "u", "v"}
  Info <- MCInfo
  Multicast = "all"
  WindowMax = 2
  Second = 2
  Expiration = 2
  Lifetime = 3
  Streams = {out}
  Commands = {"WRITE", "OTHER"}
  Known = {"WRITE"}
  MaxFrames = 3
  Kinds = {"preview", "jpeg", "depth"}
  kMaxQueueSize = 2
  Settings <- MCSettings
  kNormalExposureTime = 40
  kFacePriorityExposureTime = 80
  Wandered <- MCWandered
  TrackRate = 2
  kPrecaptureMinFrames = 1
  kStableAeMaxFrames = 1
  Handles = {"accel", "light"}
  OnChange = {"light"}
  Values = {"v", "w"}
  PipeMax = 2
  Lengths = {3, 4}
  BufferMax = 3
  DeviceMax = 1
  CommandsMax = 1
  Reporters = {"t1", "t2"}
  TimeoutInfos = {"m1", "m2"}
  Versions = {12, 13}
  ResponsesMax = 2
  SequenceMax = 2
  LoopsMax = 2
  Fingers = {1, 2}
  Groups = {"g", "h"}
  MAX_NUM_FINGERS = 2
  StoredBefore <- MCStored
  EnrolMax = 1
SPECIFICATION DeviceSpec
INVARIANTS
  DeviceTypeOK
  BoundWithinLease
  UnicastReportedOnce
  RequestsKept
  PipelineInStep
  HostFollowsFramework
  SentencesWhole
  HeldUntilTimeout
  InfoOutlivesUse
  EnrolledIsStored
PROPERTIES
  LeaseSpec
  MovesOn
  PendingFramesEnd
  CommandsAnswered
  RequestsAnswered
  ExposureSettles
  ShutdownReturns
