SPECIFICATION Spec
CONSTANTS
  Subjects = {"formats"}
  ByteBits = 2
  AddressSizes = {1, 2}
  OriginalLists <- MCOriginalLists
  ExcludedLists <- MCExcludedLists
  MaxRanges = 2
  KernelRoutes <- MCKernelRoutes
  MaxChanges = 3
  V4Size = 1
  V6Size = 2
  LoopbackAddress <- MCLoopbackAddress
  WfpCalls <- MCWfpCalls
  Packets <- MCPackets
  MaxCalls = 3
  MaxFilesCount = 4
  FileMaxSize = 4
  MessageSizes = {1, 4}
  PrefixSize = 1
  MaxMessages = 5
  MaxRefusals = 1
  MaxCrashes = 1
  TellAtEnd = TRUE
  Letters = {a, b}
  HeaderValues = {1}
  MaxHeaders = 3
  DataBytes = {0, 7, 251, 255}
  MaxData = 5
  CodePoints = {65, 233, 2048, 65535, 65536, 1114111}
  Broken <- MCBroken
  Funcs = {f1, f2, f3}
  Callables = {c1, c2, c3}
  SmallCallables = {c1, c2}
  Null = Null
  Buf = Buf
  Reentrant = FALSE
  MaxNesting = 2
  MAX_CHUNK_SIZE = 2
  MaxFileSize = 4
  MaxAppends = 1
  MaxUnits = 3
  LogThreads = {th1, th2}
  LogLevels = {0, 1}
  Overrides = {NoOverride, 0, 1}
  NoOverride = NoOverride
  Callbacks = {cb1, cb2}
  NoCallback = NoCallback
  ToStderr = ToStderr
  AutoFds = {a1, a2, a3}
  AutoPods = {p1, p2}
  MaxFd = 2
  Pods = {d1, d2, d3}
  InvalidFd = InvalidFd
  NoPod = NoPod
  Expirings = {e1, e2}
  Durations = {1}
  Stored = {v1}
  DEFAULT_VALUE = DEFAULT_VALUE
  NoTimestamp = NoTimestamp
  NoAnswer = NoAnswer
  MaxClock = 2
  FileChars = {Other, Space, Eol}
  Space = Space
  Eol = Eol
  Other = Other
  Small = Small
  Capital = Capital
  Quote = Quote
  Backslash = Backslash
  StringChars = {Small, Capital, Backslash, Space, Quote}
  Blanks = {Space, Eol}
  LowerCase <- MCLowerCase
  Delimiters = {Backslash, Quote}
  DelimString <- MCDelimString
  Needle <- MCNeedle
  MaxString = 6
  UrlChars = {"/", ".", "a", ":"}
  MaxUrl = 8
  FormatChars = {"%", "f", "z", "Z", "x"}
  MaxFormat = 5
  SecondUnits = 10
  Times <- MCTimes
  Networks = {0, 127}
  LoopbackNet = 127
  Hosts = {0, 1}
  FrontNumbers = {0, 65535}
  MappedPrefix = 65535
  Ports = {0, 53}
  Scopes = {0, 1}
  MaxAddresses = 3
  AddressChars = {"[", "]", ":", "1"}
  MaxText = 6
  NetIfs = {1, 2}
  Metrics <- MCMetrics
  MaxMetric = 3
  AdaptersAppear = FALSE
  NameServerTexts = {1, 2, 3}
  MaxNetChanges = 2
  DnsPort = 53
  Unfiltered <- MCUnfiltered
  MaxResolvers = 2
INVARIANT OriginKept
CHECK_DEADLOCK FALSE
