SPECIFICATION Spec
CONSTANTS
  Clients = {c1, c2}
  Keys <- MCKeys
  TestKeys = {"2t"}
  DcOf <- MCDcOf
  Target <- MCTarget
  Dst = {2}
  WsDomains = 2
  CfProxy = TRUE
  CfDomains = {"a", "b"}
  Workers = {"w"}
  IpCooldown = 2
  DcCooldown = 2
  MaxLag = 1
INVARIANTS RelayOnce NoWaySkipped UpstreamClosed CooldownNotProlonged
PROPERTIES CooldownKept Answered
