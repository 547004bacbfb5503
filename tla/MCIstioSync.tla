----------------------------- MODULE MCIstioSync -----------------------------
(* One SyncConfig with two providers and the Istio ingress.                *)
EXTENDS IstioSync, TLC

CONSTANTS lenient, github, corporate, istio, a, w1

OneProviderRefs == lenient :> <<github, corporate>>
OneIngressRefs == lenient :> <<istio>>
Continue == lenient :> "continue"

=============================================================================
