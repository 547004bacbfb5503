\* The engine over the Istio ingress; fetches and requests fail, responses are lost and the process restarts at any step.
SPECIFICATION Spec
CONSTANTS
  lenient = lenient
  github = github
  corporate = corporate
  istio = istio
  a = a
  w1 = w1
  Absent = Absent
  Nobody = Nobody
  Garbled = Garbled
  Syncs = {lenient}
  Providers = {github, corporate}
  Ingresses = {istio}
  Workers = {w1}
  Contents = {a}
  ProviderRefs <- OneProviderRefs
  IngressRefs <- OneIngressRefs
  FailureMode <- Continue
  Registered = {github, corporate, istio}
  Flaky = {"fetch", "apply"}
  Churn = {"crash"}
  Rejected = {"efGet", "efCreate", "efUpdate"}
  Lost = {"cmCreate", "cmUpdate", "efCreate", "efUpdate"}
  Silent = {}
INVARIANTS
  SuccessMeansTrusted
PROPERTIES
  ReadyMeansTrusted
