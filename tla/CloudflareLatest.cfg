\* One worker that asks for lists with ranges in them; nothing fails and the cache
\* does not expire.
SPECIFICATION Spec
CONSTANTS
  w1 = w1
  w2 = w2
  x = x
  y = y
  ruleName = ruleName
  NoName = NoName
  OtherName = OtherName
  EmptyRule = EmptyRule
  NoExpression = NoExpression
  Nobody = Nobody
  Absent = Absent
  Workers = {w1}
  CIDRs = {x, y}
  Wanted <- NonEmptyLists
  Rejected = {}
  Lost = {}
  Expiry = FALSE
  Crashes = FALSE
  Quota = 4
INVARIANTS
  OnlyLatestEnforced
