\* One worker; requests fail, responses to creations are lost, the process restarts.
SPECIFICATION Spec
CONSTANTS
  w1 = w1
  w2 = w2
  x = x
  y = y
  ruleName = ruleName
  NoName = NoName
  OtherName = OtherName
  EmptyRule = EmptyRule
  NoExpression = NoExpression
  Nobody = Nobody
  Absent = Absent
  Workers = {w1}
  CIDRs = {x, y}
  Wanted <- TwoLists
  Rejected = {"list", "details", "postFilter", "postRule", "putFilter"}
  Lost = {"postFilter", "postRule"}
  Expiry = TRUE
  Crashes = TRUE
  Quota = 5
INVARIANTS
  NamedFiltersBounded
  SuccessMeansEnforced
