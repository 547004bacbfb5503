\* Two workers; requests fail, responses are lost, somebody edits, the process restarts.
SPECIFICATION FairSpec
CONSTANTS
  w1 = w1
  w2 = w2
  x = x
  y = y
  Nobody = Nobody
  Absent = Absent
  Garbled = Garbled
  Workers = {w1, w2}
  CIDRs = {x, y}
  Wanted = {{x}, {y}}
  XForwardedFor = TRUE
  Rejected = {"cmGet", "efGet", "cmCreate", "cmUpdate", "efCreate", "efUpdate"}
  Lost = {"cmCreate", "cmUpdate", "efCreate", "efUpdate"}
  Tampering = TRUE
  Crashes = TRUE
INVARIANTS
  TypeOK
  PersistBeforeTrust
PROPERTIES
  ApplyReturns
