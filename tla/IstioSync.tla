------------------------------ MODULE IstioSync ------------------------------
(***************************************************************************)
(* The reconciliation engine together with the Istio ingress that it       *)
(* calls: Reconcile hands the collected ranges to ApplyIPRanges, which     *)
(* takes many steps of its own, and goes on with what that call returns.   *)
(*                                                                         *)
(* SyncController ends at the call of ApplyIPRanges and IstioIngress at    *)
(* its return; what a status that says Ready=True means for the            *)
(* EnvoyFilter takes both.  Requests are rejected, responses are lost and  *)
(* the process is restarted at any step, inside ApplyIPRanges as well.     *)
(* What is left out is named in EnvironmentAssumption: one worker, one     *)
(* ingress, nobody else who edits the ConfigMap or the custom resources.   *)
(***************************************************************************)
EXTENDS Naturals, Sequences, FiniteSets

CONSTANTS
  Syncs, Providers, Ingresses, Workers, Contents, Absent, ProviderRefs,
  IngressRefs, FailureMode, Registered, Flaky, Churn,   \* see SyncController
  Nobody, Garbled, Rejected, Lost,                      \* see IstioIngress
  Silent        \* the providers of whose ranges the filters leave nothing

VARIABLES
  exists, status, known, behind, config, plugins, instances, dirty, delayed,
  lastCall, pc, job,                                    \* see SyncController
  configMap, envoyFilter, cmCurrent, efCurrent, cachedData, fresh, cacheMutex,
  cutShort, want, result,                               \* see IstioIngress
  at            \* at[w]: the pc of IstioIngress

engineVars == <<exists, status, known, behind, config, plugins, instances,
                dirty, delayed, lastCall, pc, job>>
istioVars == <<configMap, envoyFilter, cmCurrent, efCurrent, cachedData, fresh,
               cacheMutex, cutShort, want, result, at>>
vars == <<engineVars, istioVars>>

(* One provider's ranges are one CIDR.  The history variable persisted of  *)
(* IstioIngress is not needed here: that every list counts as persisted    *)
(* agrees with all that its steps say of it.                               *)
Istio == INSTANCE IstioIngress WITH
           pc <- at, CIDRs <- Providers, Wanted <- SUBSET Providers,
           XForwardedFor <- TRUE, Tampering <- FALSE, Crashes <- TRUE,
           persisted <- SUBSET Providers

Engine == INSTANCE SyncController

ASSUME NamesAssumption ==
  /\ Providers \cap Ingresses = {}
  /\ Absent \notin Contents \cup Syncs \cup {Garbled} \cup Engine!Call
  /\ \A ranges \in SUBSET Providers : ranges # Absent /\ ranges # Garbled
  /\ Nobody \notin Workers

ASSUME SpecAssumption ==
  /\ ProviderRefs \in [Syncs -> Seq(Providers) \ {<<>>}]
  /\ IngressRefs \in [Syncs -> Seq(Ingresses) \ {<<>>}]
  /\ FailureMode \in [Syncs -> {"continue", "fail"}]
  /\ Registered \subseteq Providers \cup Ingresses

(* One worker and one ingress; ApplyIPRanges can fail.  The process is     *)
(* restarted, but nobody edits the SyncConfigs and configs: no step of     *)
(* ApplyIPRanges reads them, and module SyncController has the edits       *)
(* between the others.                                                     *)
ASSUME EnvironmentAssumption ==
  /\ \E w \in Workers : Workers = {w}
  /\ \E i \in Ingresses : Ingresses = {i}
  /\ Rejected \subseteq {"cmGet", "efGet"} \cup Istio!Writes /\ Lost \subseteq Istio!Writes
  /\ Silent \subseteq Providers
  /\ Flaky \subseteq {"get", "list", "create", "fetch", "apply", "update"}
  /\ "apply" \in Flaky
  /\ Churn = {"crash"}

-----------------------------------------------------------------------------
(* The engine's own steps leave the ingress alone.                         *)
Reconciling(w) ==
  /\ UNCHANGED istioVars
  /\ \/ Engine!GetSyncConfig(w)
     \/ Engine!GetProviderConfig(w) \/ Engine!LookupProvider(w)
     \/ Engine!CreateProvider(w) \/ Engine!FetchIPRanges(w)
     \/ Engine!GetIngressConfig(w) \/ Engine!LookupIngress(w)
     \/ Engine!CreateIngress(w)
     \/ Engine!UpdateStatus(w)

Queueing ==
  /\ UNCHANGED istioVars
  /\ \E s \in Syncs :
       \/ \E w \in Workers : Engine!Dequeue(w, s)
       \/ Engine!TimerFires(s) \/ Engine!DeliverSyncConfig(s)

(* What the filters leave of the ranges of some providers.                 *)
Filtered(ranges) == ranges \ Silent

CallIngress(w) ==
  /\ pc[w] = "use"
  /\ Engine!OnIngress(w)
  /\ Istio!ApplyIPRanges(w, Filtered(job[w].ranges))
  /\ UNCHANGED engineVars

(* Reconcile goes on with what ApplyIPRanges returns.                      *)
GoOn(w) ==
  \/ /\ result'[w] = "ok"
     /\ Engine!Called(w, TRUE)
     /\ Engine!Proceed(w, Engine!Settled(w, "Success"))
  \/ /\ result'[w] = "error"
     /\ Engine!Called(w, FALSE)
     /\ Engine!RefFails(w)

Applying(w) ==
  /\ Istio!Step(w)
  /\ \/ at'[w] # "idle" /\ UNCHANGED engineVars
     \/ /\ at'[w] = "idle"
        /\ GoOn(w)
        /\ UNCHANGED <<exists, status, known, behind, config, plugins, instances,
                       dirty, delayed>>

Expire == Istio!Expire /\ UNCHANGED engineVars

(* A call that is under way ends with the process.                         *)
Restart ==
  /\ Istio!Restart
  /\ Engine!Restart
  /\ \A w \in Workers : IF at[w] = "idle" THEN UNCHANGED lastCall
                                         ELSE Engine!Called(w, FALSE)

Init == Istio!Start /\ cutShort = {} /\ Engine!Init

Next ==
  \/ \E w \in Workers : Reconciling(w) \/ CallIngress(w) \/ Applying(w)
  \/ Queueing \/ Expire \/ Restart

Spec == Init /\ [][Next]_vars

-----------------------------------------------------------------------------
(* Properties.                                                             *)

(* A call that returns nil leaves its list in the EnvoyFilter, unless an   *)
(* earlier call for the same list was cut short between the write of the   *)
(* ConfigMap and that of the EnvoyFilter.                                  *)
SuccessMeansTrusted == Istio!SuccessMeansTrusted

(* From the stored status to the EnvoyFilter: when Ready=True is written   *)
(* and the Istio ingress has a Success entry, and no Error entry from      *)
(* being named twice, the EnvoyFilter trusts what the filters left of the  *)
(* ranges of the providers with a Success entry and nothing else, with two *)
(* exceptions: a call for that list was cut short, or the list is empty,   *)
(* which leaves the EnvoyFilter as it was.                                 *)
ReadyMeansTrusted ==
  [][\A s \in Syncs : status'[s] # status[s] /\ status'[s].ready = "True" =>
       LET list == Filtered(Engine!Succeeded(status'[s].providers))
           entries == status'[s].ingress
       IN Engine!Succeeded(entries) \ Engine!Failed(entries) # {} =>
            list = {} \/ envoyFilter = list \/ list \in cutShort]_vars

=============================================================================
