SPECIFICATION Spec
CONSTANTS
  ULLONG_MAX = 15
  HTTP_MAX_HEADERS = 1
  HTTP_HEADER_NAME_MAX = 1
  HTTP_HEADER_VALUE_MAX = 1
  ErrorBodyLength = 1
  METHOD_SIZE = 2
  TARGET_SIZE = 2
  PATH_SIZE = 2
  HTTP_QUERY_MAX = 1
  VERSION_SIZE = 2
  Unit <- MCUnit
  Texts <- MCTexts
  Configs <- MCConfigs
  Files <- MCFiles
  MaxHeaders = 3
  MaxDigits = 3
INVARIANT HeadResponsesHeadersOnly
CHECK_DEADLOCK FALSE
