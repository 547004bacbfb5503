\* One SyncConfig, one worker; every call can fail, every object can come and go.
SPECIFICATION Spec
CONSTANTS
  strict = strict
  lenient = lenient
  github = github
  corporate = corporate
  istio = istio
  legacy = legacy
  a = a
  w1 = w1
  w2 = w2
  Absent = Absent
  Syncs <- OneSync
  Providers = {github, corporate}
  Ingresses = {istio}
  Workers = {w1}
  Contents = {a}
  ProviderRefs <- OneProviderRefs
  IngressRefs <- OneIngressRefs
  FailureMode <- Continue
  Registered = {github, corporate, istio}
  Flaky = {"get", "list", "create", "fetch", "apply", "update"}
  Churn = {"sync", "config", "crash"}
INVARIANTS
  TypeOK
  NeverForgotten
  ReadyAccountsForSpec
PROPERTIES
  ReadyWasApplied
