--------------------------- MODULE IstioSyncProofs ---------------------------
(***************************************************************************)
(* What a status that says Ready=True means for the EnvoyFilter, for any   *)
(* SyncConfigs and providers, whatever fails, is lost or is restarted.     *)
(* The argument takes from SyncReportProofs that such a status tells which *)
(* call was made and what it returned, and from IstioIngressProofs what a  *)
(* return of nil is worth.                                                 *)
(***************************************************************************)
EXTENDS IstioSync, TLAPS

EngineP == INSTANCE SyncReportProofs

IstioP == INSTANCE IstioIngressProofs WITH
            pc <- at, CIDRs <- Providers, Wanted <- SUBSET Providers,
            XForwardedFor <- TRUE, Tampering <- FALSE, Crashes <- TRUE,
            persisted <- SUBSET Providers

(* The assumptions of SyncController, as they read here.                   *)
LEMMA EngineAssumed ==
  /\ Providers \cap Ingresses = {} /\ Absent \notin Contents \cup Syncs
  /\ ProviderRefs \in [Syncs -> Seq(Providers) \ {<<>>}]
  /\ IngressRefs \in [Syncs -> Seq(Ingresses) \ {<<>>}]
  /\ FailureMode \in [Syncs -> EngineP!Modes]
  /\ Registered \subseteq EngineP!Configs
  /\ EngineP!IsFiniteSet(Workers)
  /\ Flaky \subseteq {"get", "list", "create", "fetch", "apply", "update"}
  /\ Churn \subseteq {"sync", "config", "crash"}
<1>1. EngineP!IsFiniteSet(Workers)
  <2>1. PICK w \in Workers : Workers = {w}
    BY EnvironmentAssumption
  <2>2. <<w>> \in Seq(Workers) /\ Len(<<w>>) = 1 /\ <<w>>[1] = w
    OBVIOUS
  <2>3. \A v \in Workers : \E n \in 1 .. Len(<<w>>) : <<w>>[n] = v
    BY <2>1, <2>2
  <2> QED BY <2>2, <2>3 DEF EngineP!IsFiniteSet
<1> QED BY <1>1, NamesAssumption, SpecAssumption, EnvironmentAssumption
        DEF EngineP!Modes, EngineP!Configs

(* Those of IstioIngress.                                                  *)
LEMMA IstioAssumed ==
  /\ SUBSET Providers \subseteq SUBSET Providers
  /\ Absent # Garbled
  /\ \A ranges \in SUBSET Providers : ranges # Absent /\ ranges # Garbled
  /\ Nobody \notin Workers
  /\ Rejected \subseteq {"cmGet", "efGet"} \cup IstioP!Writes /\ Lost \subseteq IstioP!Writes
  /\ {TRUE, FALSE, TRUE} \subseteq BOOLEAN
BY NamesAssumption, EnvironmentAssumption DEF IstioP!Writes, Istio!Writes

(* The worker of IstioSync is alone in the sense of IstioIngressProofs,    *)
(* and its reconciliations are isolated in that of SyncReportProofs.       *)
LEMMA WorkerIsAlone == IstioP!Alone /\ EngineP!Isolated
BY EnvironmentAssumption DEF IstioP!Alone, EngineP!Isolated

-----------------------------------------------------------------------------
(* Engine and EngineP, Istio and IstioP are two names of the same          *)
(* definitions.                                                            *)

(* The steps of the engine.                                                *)
LEMMA SameEngine == [Engine!Next]_Engine!vars <=> [EngineP!Next]_EngineP!vars
BY DEF Engine!cluster, EngineP!cluster, Engine!queue, EngineP!queue,
       Engine!caches, EngineP!caches, Engine!vars, EngineP!vars,
       Engine!Configs, EngineP!Configs, Engine!NewStatus,
       EngineP!NewStatus, Engine!NoJob, EngineP!NoJob, Engine!Refs,
       EngineP!Refs, Engine!InProgress, EngineP!InProgress, Engine!Current,
       EngineP!Current, Engine!OnProvider, EngineP!OnProvider,
       Engine!OnIngress, EngineP!OnIngress, Engine!SetReady,
       EngineP!SetReady, Engine!Enqueue, EngineP!Enqueue,
       Engine!ReturnError, EngineP!ReturnError, Engine!ReturnRequeueAfter,
       EngineP!ReturnRequeueAfter, Engine!ReturnNil, EngineP!ReturnNil,
       Engine!Finish, EngineP!Finish, Engine!Dequeue, EngineP!Dequeue,
       Engine!TimerFires, EngineP!TimerFires, Engine!GetSyncConfig,
       EngineP!GetSyncConfig, Engine!Settled, EngineP!Settled,
       Engine!Proceed, EngineP!Proceed, Engine!GivesUp, EngineP!GivesUp,
       Engine!RefFails, EngineP!RefFails, Engine!GetConfig,
       EngineP!GetConfig, Engine!Lookup, EngineP!Lookup, Engine!Store,
       EngineP!Store, Engine!Create, EngineP!Create,
       Engine!GetProviderConfig, EngineP!GetProviderConfig,
       Engine!LookupProvider, EngineP!LookupProvider,
       Engine!CreateProvider, EngineP!CreateProvider, Engine!FetchIPRanges,
       EngineP!FetchIPRanges, Engine!GetIngressConfig,
       EngineP!GetIngressConfig, Engine!LookupIngress,
       EngineP!LookupIngress, Engine!CreateIngress, EngineP!CreateIngress,
       Engine!ApplyIPRanges, EngineP!ApplyIPRanges, Engine!Writable,
       EngineP!Writable, Engine!WriteStatus, EngineP!WriteStatus,
       Engine!UpdateStatus, EngineP!UpdateStatus, Engine!Step,
       EngineP!Step, Engine!DeliverSyncConfig, EngineP!DeliverSyncConfig,
       Engine!findSyncConfigsForProvider,
       EngineP!findSyncConfigsForProvider,
       Engine!findSyncConfigsForIngress, EngineP!findSyncConfigsForIngress,
       Engine!ConfigEvent, EngineP!ConfigEvent, Engine!SyncConfigEvent,
       EngineP!SyncConfigEvent, Engine!MapRace, EngineP!MapRace,
       Engine!Called, EngineP!Called, Engine!Calling, EngineP!Calling,
       Engine!Restart, EngineP!Restart, Engine!Next, EngineP!Next

(* The types of the engine.                                                *)
LEMMA SameEngineTypes == Engine!TypeOK <=> EngineP!TypeOK
BY DEF Engine!Call, EngineP!Call, Engine!Configs, EngineP!Configs, Engine!Entry, EngineP!Entry,
       Engine!Status, EngineP!Status, Engine!Job, EngineP!Job, Engine!Refs,
       EngineP!Refs, Engine!Steps, EngineP!Steps, Engine!JobOK,
       EngineP!JobOK, Engine!TypeOK, EngineP!TypeOK

(* The steps of the ingress.                                               *)
LEMMA SameIstio ==
  /\ \A w : Istio!Step(w) <=> IstioP!Step(w)
  /\ \A w, ranges : Istio!ApplyIPRanges(w, ranges) <=> IstioP!ApplyIPRanges(w, ranges)
  /\ Istio!Expire <=> IstioP!Expire
  /\ Istio!Restart <=> IstioP!Restart
  /\ Istio!SuccessMeansTrusted <=> IstioP!SuccessMeansTrusted
BY DEF Istio!objects, IstioP!objects, Istio!cache, IstioP!cache,
       Istio!calls, IstioP!calls, Istio!Goto, IstioP!Goto, Istio!Return,
       IstioP!Return, Istio!Compare, IstioP!Compare, Istio!Remember,
       IstioP!Remember, Istio!ApplyIPRanges, IstioP!ApplyIPRanges,
       Istio!CacheIsValid, IstioP!CacheIsValid, Istio!ReadCache,
       IstioP!ReadCache, Istio!LockCache, IstioP!LockCache,
       Istio!FillFails, IstioP!FillFails, Istio!FillCache,
       IstioP!FillCache, Istio!GetConfigMap, IstioP!GetConfigMap,
       Istio!PutConfigMap, IstioP!PutConfigMap, Istio!ConfigMapRefused,
       IstioP!ConfigMapRefused, Istio!WriteConfigMap,
       IstioP!WriteConfigMap, Istio!CreateConfigMap,
       IstioP!CreateConfigMap, Istio!UpdateConfigMap,
       IstioP!UpdateConfigMap, Istio!Enforceable, IstioP!Enforceable,
       Istio!StoreCache, IstioP!StoreCache, Istio!GetEnvoyFilter,
       IstioP!GetEnvoyFilter, Istio!WriteEnvoyFilter,
       IstioP!WriteEnvoyFilter, Istio!CreateEnvoyFilter,
       IstioP!CreateEnvoyFilter, Istio!UpdateEnvoyFilter,
       IstioP!UpdateEnvoyFilter, Istio!Step, IstioP!Step, Istio!Expire,
       IstioP!Expire, Istio!Restart, IstioP!Restart, Istio!CutShort, IstioP!CutShort,
       Istio!PastConfigMap, IstioP!PastConfigMap, Istio!Writes,
       IstioP!Writes, Istio!SuccessMeansTrusted, IstioP!SuccessMeansTrusted

-----------------------------------------------------------------------------
(* The invariant.                                                          *)

(* A call of ApplyIPRanges is in progress only while the engine is at the  *)
(* line that makes it, and has for its argument what the filters leave of  *)
(* the collected ranges.                                                   *)
CallsFromEngine ==
  \A w \in Workers :
    at[w] # "idle" =>
      pc[w] = "use" /\ Engine!OnIngress(w) /\ want[w] = Filtered(job[w].ranges)

(* A list that is in force, or about which a success may be wrong.         *)
Excused(list) == list = {} \/ envoyFilter = list \/ list \in cutShort

(* Between calls, the last one, if it has returned nil, was for such a     *)
(* list.                                                                   *)
LastTrusted ==
  \A w \in Workers, i \in Ingresses, ranges \in SUBSET Providers :
    at[w] = "idle" /\ lastCall[i] = [ranges |-> ranges, ok |-> TRUE] =>
      Excused(Filtered(ranges))

IInv ==
  /\ EngineP!TypeOK /\ EngineP!IInvReport /\ EngineP!IInvTrue
  /\ IstioP!TypeOK /\ IstioP!AInv
  /\ CallsFromEngine /\ LastTrusted

(* There is one worker.                                                    *)
LEMMA OneWorker == ASSUME NEW v \in Workers, NEW w \in Workers PROVE v = w
BY EnvironmentAssumption

(* There is one ingress.                                                   *)
LEMMA OneIngress == ASSUME NEW i \in Ingresses, NEW k \in Ingresses PROVE i = k
BY EnvironmentAssumption

(* None of the engine's own steps can fall into a call, nor do they make   *)
(* one.                                                                    *)
LEMMA ReconcilingBetweenCalls ==
  ASSUME IInv, NEW w \in Workers, Reconciling(w)
  PROVE  at[w] = "idle" /\ UNCHANGED <<lastCall, istioVars>>
<1>1. (pc[w] # "use" \/ Engine!OnProvider(w)) /\ UNCHANGED <<lastCall, istioVars>>
  BY DEF Reconciling, Engine!GetSyncConfig, Engine!GetProviderConfig, Engine!LookupProvider,
         Engine!CreateProvider, Engine!FetchIPRanges, Engine!GetIngressConfig,
         Engine!LookupIngress, Engine!CreateIngress, Engine!UpdateStatus,
         Engine!GetConfig, Engine!Lookup, Engine!Create
<1> QED BY <1>1 DEF IInv, CallsFromEngine, Engine!OnIngress

(* What the steps of a call leave alone, and what they end with.           *)
LEMMA CallSteps ==
  ASSUME IInv, NEW w \in Workers, Istio!Step(w)
  PROVE  /\ at[w] # "idle" /\ UNCHANGED want
         /\ at'[w] = "idle" => result'[w] \in {"ok", "error"}
<1>1. at \in [Workers -> IstioP!PCs] /\ result \in [Workers -> {"none", "ok", "error"}]
  BY DEF IInv, IstioP!TypeOK, IstioP!PCs
<1> QED
  BY <1>1
     DEF Istio!Step, Istio!ReadCache, Istio!LockCache, Istio!FillCache, Istio!FillFails,
         Istio!GetConfigMap, Istio!CreateConfigMap, Istio!UpdateConfigMap,
         Istio!WriteConfigMap, Istio!ConfigMapRefused, Istio!StoreCache,
         Istio!GetEnvoyFilter, Istio!CreateEnvoyFilter, Istio!UpdateEnvoyFilter,
         Istio!WriteEnvoyFilter, Istio!Compare, Istio!Goto, Istio!Return,
         Istio!objects, Istio!cache

(* The ingress that is being called, and the list.                         *)
LEMMA CalledIngress ==
  ASSUME IInv, NEW w \in Workers, at[w] # "idle"
  PROVE  /\ pc[w] = "use" /\ Engine!OnIngress(w) /\ want[w] = Filtered(job[w].ranges)
         /\ Engine!Current(w) \in Ingresses /\ job[w].ranges \in SUBSET Providers
<1>1. pc[w] = "use" /\ Engine!OnIngress(w) /\ want[w] = Filtered(job[w].ranges)
  BY DEF IInv, CallsFromEngine
<1>2. EngineP!OnIngress(w)
  BY <1>1 DEF Engine!OnIngress, EngineP!OnIngress, Engine!OnProvider, EngineP!OnProvider
<1>3. EngineP!AtReference(job[w])
  BY <1>1, EngineP!WorkersJob, EngineAssumed DEF IInv
<1>4. EngineP!Current(w) \in Ingresses
  BY <1>2, <1>3, EngineP!IngressCurrent, EngineAssumed
<1>5. job[w].ranges \in SUBSET Providers
  BY <1>3 DEF EngineP!AtReference, EngineP!Job
<1> QED BY <1>1, <1>4, <1>5 DEF Engine!Current, EngineP!Current, Engine!Refs, EngineP!Refs

-----------------------------------------------------------------------------
(* The ingress.                                                            *)

(* What the ingress guarantees lasts.                                      *)
LEMMA IstioKeeps ==
  ASSUME IInv, [Next]_vars
  PROVE  IstioP!TypeOK' /\ IstioP!AInv'
<1>1. CASE UNCHANGED istioVars
  BY <1>1 DEF istioVars, IInv, IstioP!TypeOK, IstioP!AInv, IstioP!Consistent,
              IstioP!Believable, IstioP!SuccessMeansTrusted, IstioP!Enforceable
<1>2. ASSUME NEW w \in Workers, CallIngress(w) PROVE IstioP!TypeOK' /\ IstioP!AInv'
  <2> DEFINE list == Filtered(job[w].ranges)
  <2>1. list \in SUBSET Providers
    BY DEF IInv, EngineP!TypeOK, EngineP!Job, Filtered
  <2>2. IstioP!ApplyIPRanges(w, list)
    BY <1>2, SameIstio DEF CallIngress
  <2>3. IstioP!TypeOK'
    BY <2>1, <2>2, IstioP!NextTyped, IstioAssumed DEF IInv, IstioP!Next
  <2> QED BY <2>2, <2>3, IstioP!AloneCall, IstioAssumed, WorkerIsAlone DEF IInv
<1>3. ASSUME NEW w \in Workers, Applying(w) PROVE IstioP!TypeOK' /\ IstioP!AInv'
  BY <1>3, SameIstio, IstioP!StepTyped, IstioP!AloneStep, IstioAssumed, WorkerIsAlone
     DEF Applying, IInv
<1>4. CASE Expire
  <2>1. IstioP!Expire
    BY <1>4, SameIstio DEF Expire
  <2>2. IstioP!TypeOK'
    BY <2>1, IstioP!NextTyped, IstioAssumed DEF IInv, IstioP!Next
  <2> QED BY <2>1, <2>2, IstioP!AloneExpire, IstioAssumed DEF IInv
<1>5. CASE Restart
  <2>1. IstioP!Restart
    BY <1>5, SameIstio DEF Restart
  <2>2. IstioP!TypeOK'
    BY <2>1, IstioP!NextTyped, IstioAssumed DEF IInv, IstioP!Next
  <2> QED BY <2>1, <2>2, IstioP!AloneRestart, IstioAssumed, WorkerIsAlone DEF IInv
<1> QED BY <1>1, <1>2, <1>3, <1>4, <1>5 DEF Next, Reconciling, Queueing, vars

-----------------------------------------------------------------------------
(* The engine.                                                             *)

(* The last step of a call is the engine's ApplyIPRanges.                  *)
LEMMA ReturnIsApply ==
  ASSUME IInv, NEW w \in Workers, Applying(w), at'[w] = "idle"
  PROVE  Engine!ApplyIPRanges(w)
<1>1. /\ at[w] # "idle" /\ GoOn(w)
      /\ UNCHANGED <<exists, status, known, behind, config, plugins, instances,
                     dirty, delayed>>
  BY CallSteps DEF Applying
<1>2. pc[w] = "use" /\ Engine!OnIngress(w)
  BY <1>1, CalledIngress
<1> QED BY <1>1, <1>2, EnvironmentAssumption
        DEF GoOn, Engine!ApplyIPRanges, Engine!cluster, Engine!caches, Engine!queue

(* Every step is one of the engine, or none that the engine sees.          *)
LEMMA NextIsEngine ==
  ASSUME IInv, [Next]_vars
  PROVE  [EngineP!Next]_EngineP!vars
<1> SUFFICES [Engine!Next]_Engine!vars
  BY SameEngine
<1>1. ASSUME NEW w \in Workers, Reconciling(w) PROVE Engine!Next
  BY <1>1 DEF Reconciling, Engine!Next, Engine!Step
<1>2. CASE Queueing
  BY <1>2 DEF Queueing, Engine!Next
<1>3. CASE Restart
  BY <1>3 DEF Restart, Engine!Next
<1>4. ASSUME UNCHANGED engineVars PROVE UNCHANGED Engine!vars
  BY <1>4 DEF engineVars, Engine!vars, Engine!cluster, Engine!caches, Engine!queue
<1>5. ASSUME NEW w \in Workers, Applying(w) PROVE [Engine!Next]_Engine!vars
  <2>1. CASE at'[w] = "idle"
    BY <1>5, <2>1, ReturnIsApply DEF Engine!Next, Engine!Step
  <2>2. CASE at'[w] # "idle"
    BY <1>4, <1>5, <2>2 DEF Applying
  <2> QED BY <2>1, <2>2
<1>6. CASE Expire \/ UNCHANGED vars \/ \E w \in Workers : CallIngress(w)
  BY <1>4, <1>6 DEF Expire, vars, CallIngress
<1> QED BY <1>1, <1>2, <1>3, <1>5, <1>6 DEF Next

(* What the engine guarantees lasts.                                       *)
LEMMA EngineKeeps ==
  ASSUME IInv, [Next]_vars
  PROVE  EngineP!TypeOK' /\ EngineP!IInvReport' /\ EngineP!IInvTrue'
<1>1. [EngineP!Next]_EngineP!vars
  BY NextIsEngine
<1>2. EngineP!TypeOK'
  BY <1>1, EngineP!NextOK, EngineAssumed DEF IInv
<1>3. EngineP!IInvReport'
  BY <1>1, EngineP!ReportNext, EngineAssumed DEF IInv
<1>4. EngineP!IInvTrue'
  BY <1>1, EngineP!TrueNext, EngineAssumed, WorkerIsAlone DEF IInv
<1> QED BY <1>2, <1>3, <1>4

-----------------------------------------------------------------------------
(* Both together.                                                          *)

(* Calls happen where the engine makes them.                               *)
LEMMA CallsKeep ==
  ASSUME IInv, [Next]_vars
  PROVE  CallsFromEngine'
<1>1. ASSUME NEW w \in Workers, Reconciling(w) PROVE CallsFromEngine'
  BY <1>1, ReconcilingBetweenCalls, OneWorker DEF istioVars, CallsFromEngine
<1>2. ASSUME NEW w \in Workers, NEW s \in Syncs, Engine!Dequeue(w, s), UNCHANGED istioVars
      PROVE  CallsFromEngine'
  <2>1. at[w] = "idle"
    BY <1>2 DEF Engine!Dequeue, IInv, CallsFromEngine
  <2> QED BY <1>2, <2>1, OneWorker DEF istioVars, CallsFromEngine
<1>3. ASSUME UNCHANGED <<istioVars, pc, job>> PROVE CallsFromEngine'
  BY <1>3 DEF istioVars, IInv, CallsFromEngine, Engine!OnIngress, Engine!OnProvider
<1>4. ASSUME NEW s \in Syncs, Engine!TimerFires(s) \/ Engine!DeliverSyncConfig(s),
             UNCHANGED istioVars
      PROVE  CallsFromEngine'
  BY <1>3, <1>4 DEF Engine!TimerFires, Engine!DeliverSyncConfig
<1>5. CASE Queueing
  BY <1>2, <1>4, <1>5 DEF Queueing
<1>6. ASSUME NEW w \in Workers, CallIngress(w) PROVE CallsFromEngine'
  <2>1. want' = [want EXCEPT ![w] = Filtered(job[w].ranges)] /\ UNCHANGED engineVars
    BY <1>6 DEF CallIngress, Istio!ApplyIPRanges
  <2>2. want'[w] = Filtered(job[w].ranges)
    BY <2>1 DEF IInv, IstioP!TypeOK
  <2> QED BY <1>6, <2>1, <2>2, OneWorker
          DEF CallIngress, engineVars, CallsFromEngine, Engine!OnIngress, Engine!OnProvider
<1>7. ASSUME NEW w \in Workers, Applying(w) PROVE CallsFromEngine'
  <2>1. at[w] # "idle" /\ UNCHANGED want
    BY <1>7, CallSteps DEF Applying
  <2> QED BY <1>7, <2>1, OneWorker
          DEF Applying, engineVars, IInv, CallsFromEngine, Engine!OnIngress, Engine!OnProvider
<1>8. CASE Restart
  BY <1>8 DEF Restart, Istio!Restart, CallsFromEngine
<1>9. CASE Expire \/ UNCHANGED vars
  BY <1>3, <1>9 DEF Expire, Istio!Expire, Istio!objects, Istio!calls, vars, engineVars,
                    istioVars, IInv, CallsFromEngine, Engine!OnIngress, Engine!OnProvider
<1> QED BY <1>1, <1>5, <1>6, <1>7, <1>8, <1>9 DEF Next

(* A return of nil is for a list that is in force or excused, and none of  *)
(* the steps between calls changes that.                                   *)
LEMMA LastTrustedKeeps ==
  ASSUME IInv, [Next]_vars, IstioP!AInv'
  PROVE  LastTrusted'
<1>1. ASSUME UNCHANGED <<lastCall, at, envoyFilter>>, cutShort \subseteq cutShort'
      PROVE  LastTrusted'
  BY <1>1 DEF IInv, LastTrusted, Excused
<1>2. ASSUME NEW w \in Workers, Reconciling(w) PROVE LastTrusted'
  BY <1>1, <1>2, ReconcilingBetweenCalls DEF istioVars
<1>3. CASE Queueing
  BY <1>1, <1>3 DEF Queueing, Engine!Dequeue, Engine!TimerFires, Engine!DeliverSyncConfig,
                    istioVars
<1>4. ASSUME NEW w \in Workers, CallIngress(w) PROVE LastTrusted'
  <2>1. at'[w] # "idle"
    BY <1>4 DEF CallIngress, Istio!ApplyIPRanges, IInv, IstioP!TypeOK
  <2> QED BY <2>1, OneWorker DEF LastTrusted
<1>5. ASSUME NEW w \in Workers, Engine!Called(w, FALSE), at[w] # "idle" PROVE LastTrusted'
  <2>1. Engine!Current(w) \in Ingresses
    BY <1>5, CalledIngress
  <2>2. \A i \in Ingresses : lastCall'[i] = [ranges |-> job[w].ranges, ok |-> FALSE]
    BY <1>5, <2>1, OneIngress DEF Engine!Called, IInv, EngineP!TypeOK
  <2>3. ASSUME NEW ranges
        PROVE  [ranges |-> job[w].ranges, ok |-> FALSE] # [ranges |-> ranges, ok |-> TRUE]
    OBVIOUS
  <2> QED BY <2>2, <2>3 DEF LastTrusted
<1>6. ASSUME NEW w \in Workers, Engine!Called(w, TRUE), Applying(w), result'[w] = "ok"
      PROVE  LastTrusted'
  <2>1. /\ at[w] # "idle" /\ UNCHANGED want /\ want[w] = Filtered(job[w].ranges)
        /\ Engine!Current(w) \in Ingresses
    BY <1>6, CallSteps, CalledIngress DEF Applying
  <2>2. \A i \in Ingresses : lastCall'[i] = [ranges |-> job[w].ranges, ok |-> TRUE]
    BY <1>6, <2>1, OneIngress DEF Engine!Called, IInv, EngineP!TypeOK
  <2>3. ASSUME NEW ranges,
               [ranges |-> job[w].ranges, ok |-> TRUE] = [ranges |-> ranges, ok |-> TRUE]
        PROVE  ranges = job[w].ranges
    BY <2>3
  <2>4. want'[w] = {} \/ envoyFilter' = want'[w] \/ want'[w] \in cutShort'
    BY <1>6 DEF IstioP!AInv, IstioP!SuccessMeansTrusted, IstioP!Enforceable
  <2>5. Excused(want[w])'
    BY <2>1, <2>4 DEF Excused
  <2>6. ASSUME NEW i \in Ingresses, NEW ranges \in SUBSET Providers,
               lastCall'[i] = [ranges |-> ranges, ok |-> TRUE]
        PROVE  Excused(Filtered(ranges))'
    <3>1. ranges = job[w].ranges
      BY <2>2, <2>3, <2>6
    <3> QED BY <2>1, <2>4, <3>1 DEF Excused, Filtered
  <2> QED BY <2>6 DEF LastTrusted
<1>7. ASSUME NEW w \in Workers, Applying(w) PROVE LastTrusted'
  <2>1. CASE at'[w] # "idle"
    BY <2>1, OneWorker DEF LastTrusted
  <2>2. CASE at'[w] = "idle"
    <3>1. at[w] # "idle" /\ GoOn(w)
      BY <1>7, <2>2, CallSteps DEF Applying
    <3> QED BY <1>5, <1>6, <1>7, <3>1 DEF GoOn
  <2> QED BY <2>1, <2>2
<1>8. CASE Restart
  <2>1. PICK w \in Workers : TRUE
    BY EnvironmentAssumption
  <2>2. CASE at[w] # "idle"
    BY <1>5, <1>8, <2>2 DEF Restart
  <2>3. CASE at[w] = "idle"
    <3>1. /\ UNCHANGED <<lastCall, envoyFilter>> /\ cutShort \subseteq cutShort'
          /\ \A v \in Workers : at[v] = "idle"
      BY <1>8, <2>3, OneWorker DEF Restart, Istio!Restart, Istio!CutShort
    <3> QED BY <3>1 DEF IInv, LastTrusted, Excused
  <2> QED BY <2>2, <2>3
<1>9. CASE Expire \/ UNCHANGED vars
  BY <1>1, <1>9 DEF Expire, Istio!Expire, Istio!objects, Istio!calls, vars, engineVars,
                    istioVars
<1> QED BY <1>2, <1>3, <1>4, <1>7, <1>8, <1>9 DEF Next

(* At the start nothing is called.                                         *)
LEMMA InitOK ==
  ASSUME Init
  PROVE  IInv
<1>1. EngineP!Init
  BY DEF Init, Engine!Init, EngineP!Init, Engine!Configs, EngineP!Configs,
         Engine!NewStatus, EngineP!NewStatus, Engine!NoJob, EngineP!NoJob
<1>2. EngineP!TypeOK /\ EngineP!IInvReport
  BY <1>1, EngineP!InitOK, EngineP!ReportInit, EngineAssumed
<1>3. EngineP!IInvTrue
  BY <1>1 DEF EngineP!Init, EngineP!IInvTrue, EngineP!OneWorkerPerKey, EngineP!Truthful
<1>4. IstioP!TypeOK /\ IstioP!AInv
  BY IstioAssumed
     DEF Init, Istio!Start, IstioP!TypeOK, IstioP!AInv, IstioP!Consistent,
         IstioP!Believable, IstioP!SuccessMeansTrusted, IstioP!Elsewhere,
         IstioP!AtEnvoyFilter, IstioP!PastConfigMap
<1>5. CallsFromEngine
  BY DEF Init, Istio!Start, CallsFromEngine
<1>6. LastTrusted
  <2>1. \A i \in Ingresses : lastCall[i] = Absent
    BY DEF Init, Engine!Init
  <2>2. ASSUME NEW i \in Ingresses, NEW ranges \in SUBSET Providers,
               lastCall[i] = [ranges |-> ranges, ok |-> TRUE]
        PROVE  FALSE
    <3>1. [ranges |-> ranges, ok |-> TRUE] \in Engine!Call
      BY DEF Engine!Call
    <3> QED BY <2>1, <2>2, <3>1, NamesAssumption
  <2> QED BY <2>2 DEF LastTrusted
<1> QED BY <1>2, <1>3, <1>4, <1>5, <1>6 DEF IInv

(* The invariant lasts.                                                    *)
LEMMA Invariant == Spec => []IInv
<1>1. IInv /\ [Next]_vars => IInv'
  BY EngineKeeps, IstioKeeps, CallsKeep, LastTrustedKeeps DEF IInv
<1> QED BY <1>1, InitOK, PTL DEF Spec

(* One worker, one ingress, and nobody else who edits the ConfigMap:       *)
(* whichever requests are rejected and whichever responses are lost, and   *)
(* whenever the process is restarted, a call of the engine that returns    *)
(* nil for a list that is not empty leaves it in the EnvoyFilter, unless a *)
(* call for that list was cut short.                                       *)
THEOREM Trust == Spec => []SuccessMeansTrusted
<1>1. IInv => SuccessMeansTrusted
  BY DEF IInv, IstioP!AInv, SuccessMeansTrusted, Istio!SuccessMeansTrusted,
         Istio!Enforceable, IstioP!SuccessMeansTrusted, IstioP!Enforceable
<1> QED BY <1>1, Invariant, PTL

-----------------------------------------------------------------------------
(* From the status to the EnvoyFilter.                                     *)

(* The ingresses with a Success entry in a status that is stored with      *)
(* Ready=True.                                                             *)
LEMMA SucceededAreIngresses ==
  ASSUME NEW s \in Syncs, NEW st \in EngineP!Status, EngineP!StatusOK(st, s),
         st.ready = "True"
  PROVE  Engine!Succeeded(st.ingress) \subseteq Ingresses
<1> DEFINE entries == st.ingress
           n == Len(IngressRefs[s])
<1>1. EngineP!Accounts(entries, IngressRefs[s], FailureMode[s])
  BY DEF EngineP!StatusOK
<1>2. entries \in Seq(EngineP!Entry)
  BY DEF EngineP!Status
<1>3. n \in Nat /\ n <= n /\ DOMAIN IngressRefs[s] = 1 .. n
  BY EngineP!RefsParts, EngineAssumed
<1>4. EngineP!UpTo(entries, IngressRefs[s], FailureMode[s], n)
  BY <1>1, <1>3, EngineP!UpToTheEnd, EngineAssumed
<1>5. EngineP!Succeeded(entries) \subseteq EngineP!IngressesOf(s)
  BY <1>2, <1>3, <1>4, EngineP!SucceededAreRefs, EngineAssumed
<1>6. EngineP!IngressesOf(s) \subseteq Ingresses
  BY EngineP!IngressesOfType, EngineAssumed
<1> QED BY <1>5, <1>6 DEF Engine!Succeeded, EngineP!Succeeded, Engine!Configs, EngineP!Configs

(* The providers with a Success entry in such a status.                    *)
LEMMA SucceededAreProviders ==
  ASSUME NEW s \in Syncs, NEW st \in EngineP!Status, EngineP!StatusOK(st, s),
         st.ready = "True"
  PROVE  Engine!Succeeded(st.providers) \subseteq Providers
<1> DEFINE entries == st.providers
           refs == ProviderRefs[s]
<1>1. EngineP!Accounts(entries, refs, FailureMode[s])
  BY DEF EngineP!StatusOK
<1>2. PICK list \in Seq(EngineP!Entry) : list = entries
  BY DEF EngineP!Status
<1>3. DOMAIN list = 1 .. Len(list)
  BY EngineP!LenProperties
<1>4. refs \in Seq(Providers) /\ DOMAIN refs = 1 .. Len(refs)
  BY EngineP!RefsParts, EngineAssumed
<1>5. ASSUME NEW k \in DOMAIN entries PROVE entries[k].name \in Providers
  <2>1. k \in 1 .. Len(refs) /\ entries[k].name = refs[k]
    BY <1>1, <1>2, <1>3, <1>4 DEF EngineP!Accounts
  <2> QED BY <1>4, <2>1, EngineP!ElementOfSeq
<1> QED BY <1>5 DEF Engine!Succeeded

(* What a status says when it is written with Ready=True.                  *)
SaysTrusted(s) ==
  LET list == Filtered(Engine!Succeeded(status'[s].providers))
      entries == status'[s].ingress
  IN Engine!Succeeded(entries) \ Engine!Failed(entries) # {} => Excused(list)

(* Every status that a step writes with Ready=True is right.               *)
LEMMA WritesTrusted ==
  ASSUME IInv, [Next]_vars, EngineP!TypeOK', EngineP!IInvReport',
         NEW s \in Syncs, status'[s] # status[s], status'[s].ready = "True"
  PROVE  SaysTrusted(s)
<1> DEFINE list == Engine!Succeeded(status'[s].providers)
           entries == status'[s].ingress
<1>1. SUFFICES ASSUME NEW i \in Engine!Succeeded(entries) \ Engine!Failed(entries)
               PROVE  Excused(Filtered(list))
  BY DEF SaysTrusted
<1>2. PICK w \in Workers : Reconciling(w)
  BY DEF Next, Queueing, CallIngress, Applying, Expire, Restart, vars, engineVars,
         Engine!Dequeue, Engine!TimerFires, Engine!DeliverSyncConfig, Engine!cluster,
         Engine!Restart
<1>3. at[w] = "idle"
  BY <1>2, ReconcilingBetweenCalls
<1>4. /\ Engine!Succeeded(entries) \subseteq Ingresses
      /\ list \in SUBSET Providers
  <2>1. status'[s] \in EngineP!Status /\ EngineP!StatusOK(status'[s], s)
    BY DEF EngineP!TypeOK, EngineP!IInvReport
  <2> QED BY <2>1, SucceededAreIngresses, SucceededAreProviders
<1>5. EngineP!WasApplied(lastCall, entries, EngineP!Succeeded(status'[s].providers))
  BY NextIsEngine, EngineP!WritesTrue, EngineAssumed DEF IInv
<1>6. /\ Engine!Succeeded(entries) = EngineP!Succeeded(entries)
      /\ Engine!Failed(entries) = EngineP!Failed(entries)
      /\ list = EngineP!Succeeded(status'[s].providers)
  BY DEF Engine!Succeeded, EngineP!Succeeded, Engine!Failed, EngineP!Failed,
         Engine!Configs, EngineP!Configs
<1>7. lastCall[i] = [ranges |-> list, ok |-> TRUE]
  BY <1>5, <1>6 DEF EngineP!WasApplied
<1> QED BY <1>3, <1>4, <1>7 DEF IInv, LastTrusted

(* One worker, one ingress, nobody else who edits the ConfigMap, and specs *)
(* of any length: when the engine writes Ready=True with a Success entry   *)
(* for the ingress, and no Error entry from a second call in the same      *)
(* reconciliation, the EnvoyFilter trusts what the filters left of the     *)
(* ranges of exactly the providers with a Success entry, unless that list  *)
(* is empty or a call for it was cut short.                                *)
THEOREM ReadyTrust == Spec => ReadyMeansTrusted
<1> DEFINE A == \A s \in Syncs : status'[s] # status[s] /\ status'[s].ready = "True" =>
                  SaysTrusted(s)
<1>1. IInv /\ IInv' /\ [Next]_vars => [A]_vars
  BY WritesTrusted DEF IInv
<1> HIDE DEF A
<1>2. Spec => [][A]_vars
  BY <1>1, Invariant, PTL DEF Spec
<1>3. [][A]_vars => ReadyMeansTrusted
  BY DEF A, SaysTrusted, Excused, ReadyMeansTrusted
<1> QED BY <1>2, <1>3

=============================================================================
