SPECIFICATION Spec
CONSTANTS
  MaxText = 3
  MaxString = 2
  MaxItems = 2
  MaxUid = 2
  MaxTypeName = 2
  MaxHeader = 112
  MaxPayload = 250
  PayloadsOf <- MCPayloadsOf
  Typical <- MCTypical
  Headers <- MCHeaders
  TypicalHeader <- MCTypicalHeader
  Probe = "AuthorityRequest"
  Endpoint <- MCEndpoint
INVARIANTS
  RoundTrip
  NothingElseIgnored
CHECK_DEADLOCK FALSE
