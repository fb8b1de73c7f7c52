SPECIFICATION Spec
CONSTANTS
  ULLONG_MAX = 15
  HTTP_MAX_HEADERS = 3
  HTTP_HEADER_NAME_MAX = 3
  HTTP_HEADER_VALUE_MAX = 3
  ErrorBodyLength = 1
  HeadersLength = 1
  RecvBufferSize = 16
  METHOD_SIZE = 2
  TARGET_SIZE = 7
  PATH_SIZE = 7
  HTTP_QUERY_MAX = 7
  VERSION_SIZE = 3
  Byte <- MCByte
  Streams <- MCStreams
  Configs <- MCConfigs
  FileErrors <- MCFileErrors
  FileSizes <- MCFileSizes
  Parse <- http_parse_request
INVARIANTS
  BodyNeverAnswered
  PersistsAsAsked
  PlainRequestServed
CHECK_DEADLOCK FALSE
