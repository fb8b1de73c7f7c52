SPECIFICATION Spec
CONSTANTS
  ULLONG_MAX = 15
  HTTP_MAX_HEADERS = 64
  HTTP_HEADER_NAME_MAX = 64
  HTTP_HEADER_VALUE_MAX = 64
  ErrorBodyLength = 1
  METHOD_SIZE = 2
  TARGET_SIZE = 7
  PATH_SIZE = 7
  HTTP_QUERY_MAX = 7
  VERSION_SIZE = 3
  Unit <- MCUnit
  Texts <- MCTexts
  Configs <- MCConfigs
  Files <- MCFiles
  MaxLine = 5
  MaxTarget = 7
  MaxPath = 5
  MaxText = 5
  MaxLines = 3
INVARIANTS
  AcceptedTextAccountedFor
  NoBodyOverlooked
  WellFormedAccepted
  EverythingFits
  LimitsOnlyRefuse
  PathDecodedOnce
  TypeOfLastComponent
CHECK_DEADLOCK FALSE
