SPECIFICATION Spec
CONSTANTS
  c1 = c1  c2 = c2  auth = auth  proxyauth = proxyauth
  Names <- GuestNames
  Ports = {80, 8443}
  DefaultPorts = {80}
  Fold <- LowerCase
  Empty = "."
  Numeric = {"1"}
  Bracketed = {"::1"}
  Policies <- FewPolicies
  Credentials <- AllCredentials
  Headers <- TwoHeaders
  HopByHop <- ProxyHeaders
  None = None
  MaxFlows = 1
CHECK_DEADLOCK FALSE
INVARIANTS
  NothingElseSent
