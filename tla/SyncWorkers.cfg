\* Two SyncConfigs of different modes on one ingress, a second one without a factory, two workers, map races.
SPECIFICATION Spec
CONSTANTS
  strict = strict
  lenient = lenient
  github = github
  corporate = corporate
  istio = istio
  legacy = legacy
  a = a
  w1 = w1
  w2 = w2
  Absent = Absent
  Syncs <- SharedSyncs
  Providers = {github, corporate}
  Ingresses = {istio, legacy}
  Workers = {w1, w2}
  Contents = {a}
  ProviderRefs <- SharedProviderRefs
  IngressRefs <- StrictAlsoLegacy
  FailureMode <- SharedModes
  Registered = {github, corporate, istio}
  Flaky = {"fetch"}
  Churn = {}
SYMMETRY Symmetry
INVARIANTS
  AppliedAsAWhole
  ReadyAccountsForSpec
  ReportsAreWhole
  InstancesBounded
