\* Two workers, two configs, two Secrets; everything can change at any time.
SPECIFICATION FairSpec
CONSTANTS
  provider = provider
  ingress = ingress
  creds = creds
  other = other
  k1 = k1
  k2 = k2
  t1 = t1
  t2 = t2
  t3 = t3
  oneMinute = oneMinute
  soon = soon
  w1 = w1
  w2 = w2
  Absent = Absent
  Configs = {provider, ingress}
  Workers = {w1, w2}
  SecretNames = {creds, other}
  Keys = {k1, k2}
  Tokens = {t1, t2, t3}
  Settings = {oneMinute, soon}
  Malformed = {soon}
  Offered <- SpecsOffered
  Stored <- DataStored
  Registered = {"github", "cloudflare", "istio"}
INVARIANTS
  TypeOK
  TokenOfItsSecret
  EntriesAreInitialised
PROPERTIES
  CreationRecovers
  RestartRefreshes
