-------------------------- MODULE MCSyncController --------------------------
(***************************************************************************)
(* Small clusters for TLC: which SyncConfig refers to what, and how it     *)
(* treats failures.                                                        *)
(***************************************************************************)
EXTENDS SyncController, TLC

CONSTANTS strict, lenient, github, corporate, istio, legacy, a, w1, w2

(* Two SyncConfigs share an ingress; only the strict one asks for both     *)
(* providers, and in some runs for a second ingress as well.               *)
SharedSyncs == {strict, lenient}
SharedProviderRefs == strict :> <<github, corporate>> @@ lenient :> <<github>>
SharedIngressRefs == strict :> <<istio>> @@ lenient :> <<istio>>
StrictAlsoLegacy == strict :> <<istio, legacy>> @@ lenient :> <<istio>>
SharedModes == strict :> "fail" @@ lenient :> "continue"

(* One SyncConfig with two providers.                                      *)
OneSync == {lenient}
OneProviderRefs == lenient :> <<github, corporate>>
OneIngressRefs == lenient :> <<istio>>
Continue == lenient :> "continue"

(* Workers are interchangeable.                                            *)
Symmetry == Permutations(Workers)

=============================================================================
