\* One worker; writes of the EnvoyFilter can be rejected.
SPECIFICATION Spec
CONSTANTS
  w1 = w1
  w2 = w2
  x = x
  y = y
  Nobody = Nobody
  Absent = Absent
  Garbled = Garbled
  Workers = {w1}
  CIDRs = {x, y}
  Wanted <- TwoLists
  XForwardedFor = TRUE
  Rejected = {"efCreate", "efUpdate"}
  Lost = {}
  Tampering = FALSE
  Crashes = FALSE
INVARIANTS
  SuccessMeansInForce
