SPECIFICATION Spec
CONSTANTS
  INT_MAX = 15
  LONG_MAX = 31
  ULLONG_MAX = 63
  MAX_PORT = 12
  DEFAULT_PORT = 8
  DEFAULT_BACKLOG = 10
  DEFAULT_CLIENT_TIMEOUT = 10
  DEFAULT_HTTP_BUFFER_SIZE = 14
  HTTP_MAX_HEADERS = 6
  HTTP_HEADER_NAME_MAX = 7
  HTTP_HEADER_VALUE_MAX = 13
  ErrorBodyLength = 1
  MaxNumber = 4
  MaxArguments = 5
  Unit <- MCUnit
  Arguments <- MCArguments
INVARIANTS
  ConfigSound
  AcceptedAsWritten
  RefusedForCause
  ServesUnlessRaised
CHECK_DEADLOCK FALSE
