--------------------------- MODULE MCPluginFactory ---------------------------
(* A ProviderConfig and an IngressConfig with edits that change the type,  *)
(* the section, the setting, the Secret and the key; one Secret for both   *)
(* and one that only the ingress can refer to.                             *)
EXTENDS PluginFactory, TLC

CONSTANTS w1, w2, provider, ingress, creds, other, k1, k2, t1, t2, t3, oneMinute, soon

Of(type, section, name, key, setting) ==
  [type |-> type, section |-> section, secretName |-> name, key |-> key, setting |-> setting]

SpecsOffered ==
  provider :> {Of("github", TRUE, creds, Absent, oneMinute),
               Of("github", TRUE, Absent, Absent, soon),
               Of("aws", TRUE, creds, Absent, Absent)}
  @@ ingress :> {Of("cloudflare", TRUE, creds, k1, Absent),
                 Of("cloudflare", TRUE, other, k1, Absent),
                 Of("cloudflare", FALSE, Absent, Absent, Absent),
                 Of("istio", TRUE, Absent, Absent, Absent)}

DataStored ==
  creds :> {k2 :> t2, k1 :> t1 @@ k2 :> t3} @@ other :> {k1 :> t3}

=============================================================================
