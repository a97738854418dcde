CONSTANTS
  Endpoints = {"ip", "domain", "ss"}
  Urls = {u1, u2}
  None = None
  Example = "example"
  UnifiedPort = 2
  MaxPort = 4
  Vless = {"ip", "domain"}
  Addresses = {"ip"}
  Confirmed = {"domain"}
  Bodies <- MCBodies
  Broken <- MCBroken
  Skipped = Skipped
  Invalid = Invalid
  Stores <- MCStores
  Imports <- MCImports
  NewNames <- MCNewNames
  MaxCalls = 4
SPECIFICATION Spec
SYMMETRY Symmetry
INVARIANTS TypeOK FollowsFeeds
CHECK_DEADLOCK FALSE
PROPERTIES StableIdentity RuntimeTold
