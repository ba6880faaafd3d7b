SPECIFICATION StubsSpec
CONSTANTS
  Guests <- MCGuests
  Tunnels <- MCTunnels
  Policies <- MCPolicies
  CustomHooks <- NoCustom
  MaxLayers = 2
  MaxAdded = 2
  Abi <- MCAbi
  Requests <- MCRequests
INVARIANT ListedNamesAreRedirected
CHECK_DEADLOCK FALSE
