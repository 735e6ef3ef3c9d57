\* Two nodes, three sets of PtpConfig resources (one with an ambiguous and one
\* with a missing profile name), one secret, one edit, one API error.
CONSTANTS
  Nodes <- MCNodes
  Resource <- MCResource
  Worlds <- MCWorlds
  Secrets = {"s1"}
  NoSecret = "none"
  Related <- MCRelated
  Allows = {"allow"}
  Deny = "deny"
  Ntp = "ntp"
  NameOrder <- MCNameOrder
  MaxEdits = 1
  MaxErrors = 1
SPECIFICATION OperatorSpec
INVARIANTS
  NodeDataDetermined
PROPERTIES
  UnmountedByOwner
  Converges
