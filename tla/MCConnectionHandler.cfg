SPECIFICATION Spec
CONSTANTS
  ULLONG_MAX = 15
  HTTP_MAX_HEADERS = 1
  HTTP_HEADER_NAME_MAX = 1
  HTTP_HEADER_VALUE_MAX = 1
  ErrorBodyLength = 1
  HeadersLength = 2
  RecvBufferSize = 6
  Byte <- MCByte
  Streams <- MCStreams
  Configs <- MCConfigs
  FileErrors <- MCFileErrors
  FileSizes <- MCFileSizes
  Parse <- MCParse
INVARIANTS
  TypeOK
  StreamConserved
  NoRequestStranded
  RejectedOnlyIfOversize
  WireInOrder
  OnlyWholeResponsesSucceed
  ConnectionHeaderHonoured
  NoDescriptorLeak
  RepliesFollowRequests
PROPERTIES
  ImplementsService
  EveryStepAdvances
  ExitsUnlessBlocked
CHECK_DEADLOCK FALSE
