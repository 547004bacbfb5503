\* Two SyncConfigs of different modes share an ingress and one worker; one provider has no factory, config objects come and go, status updates keep failing.
SPECIFICATION FairSpec
CONSTANTS
  strict = strict
  lenient = lenient
  github = github
  corporate = corporate
  istio = istio
  legacy = legacy
  a = a
  w1 = w1
  w2 = w2
  Absent = Absent
  Syncs <- SharedSyncs
  Providers = {github, corporate}
  Ingresses = {istio}
  Workers = {w1}
  Contents = {a}
  ProviderRefs <- SharedProviderRefs
  IngressRefs <- SharedIngressRefs
  FailureMode <- SharedModes
  Registered = {github, istio}
  Flaky = {"list", "update"}
  Churn = {"config"}
PROPERTIES
  KeepsReconciling
  Converges
