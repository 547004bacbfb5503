\* Two workers; requests fail, responses are lost, the process restarts.
SPECIFICATION FairSpec
CONSTANTS
  w1 = w1
  w2 = w2
  x = x
  y = y
  ruleName = ruleName
  NoName = NoName
  OtherName = OtherName
  EmptyRule = EmptyRule
  NoExpression = NoExpression
  Nobody = Nobody
  Absent = Absent
  Workers = {w1, w2}
  CIDRs = {x, y}
  Wanted = {{x}, {y}}
  Rejected = {"list", "details", "postFilter", "postRule", "putFilter"}
  Lost = {"postFilter", "postRule", "putFilter"}
  Expiry = TRUE
  Crashes = TRUE
  Quota = 3
INVARIANTS
  TypeOK
  ForeignUntouched
PROPERTIES
  ApplyReturns
