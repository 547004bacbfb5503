---------------------------- MODULE SyncController ----------------------------
(***************************************************************************)
(* The reconciliation engine of pkg/controller/controller.go: the workers  *)
(* that controller-runtime starts for SyncReconciler, the work queue that  *)
(* feeds them, the informer that tells them about SyncConfigs, and the two *)
(* maps (ProviderCache, IngressCache) in which they keep the plugins they  *)
(* have created.                                                           *)
(*                                                                         *)
(* A reconciliation walks through the references of its SyncConfig, first  *)
(* the providers, then the ingresses.  The list of ranges that it collects *)
(* is represented by the set of the providers whose ranges were merged     *)
(* into it; the filters of the spec may have left none of a provider's.    *)
(* The module ends at the call of ApplyIPRanges: what an ingress makes of  *)
(* the list is the subject of IstioIngress and CloudflareIngress, and what *)
(* the whole comes to that of IstioSync.                                   *)
(***************************************************************************)
EXTENDS Naturals, Sequences, FiniteSets

CONSTANTS
  Syncs,         \* names of SyncConfigs
  Providers,     \* names of ProviderConfigs
  Ingresses,     \* names of IngressConfigs
  Workers,       \* the MaxConcurrentReconciles goroutines
  Contents,      \* what the spec of a ProviderConfig or IngressConfig can say
  Absent,        \* the value of an object or a map entry that does not exist
  ProviderRefs,  \* [Syncs -> Seq(Providers)], the field spec.providers
  IngressRefs,   \* [Syncs -> Seq(Ingresses)], the field spec.ingress
  FailureMode,   \* [Syncs -> {"continue", "fail"}], spec.syncPolicy.failureMode
  Registered,    \* the configs whose spec.type has a factory in its registry
  Flaky,         \* the calls that may fail although nothing is wrong with them
  Churn          \* what the environment does while the controller runs

Configs == Providers \cup Ingresses

Modes == {"continue", "fail"}

ASSUME NamesAssumption ==
  /\ Providers \cap Ingresses = {}
  /\ Absent \notin Contents \cup Syncs

(* The CRD requires at least one provider and one ingress (minItems: 1).   *)
ASSUME SpecAssumption ==
  /\ ProviderRefs \in [Syncs -> Seq(Providers) \ {<<>>}]
  /\ IngressRefs \in [Syncs -> Seq(Ingresses) \ {<<>>}]
  /\ FailureMode \in [Syncs -> Modes]
  /\ Registered \subseteq Configs

ASSUME WorkersAssumption == IsFiniteSet(Workers)

ASSUME EnvironmentAssumption ==
  /\ Flaky \subseteq {"get", "list", "create", "fetch", "apply", "update"}
  /\ Churn \subseteq {"sync", "config", "crash"}

VARIABLES
  exists,      \* exists[s]: the API server has SyncConfig s
  status,      \* status[s]: its stored status
  known,       \* known[s]: the informer's cache has SyncConfig s
  behind,      \* behind[s]: a watch event of s has not reached the informer
  config,      \* config[c]: the spec of config c, or Absent
  plugins,     \* plugins[c]: the entry of c in ProviderCache or IngressCache:
               \*   the spec its instance was initialised with, or Absent
  instances,   \* instances[c]: how many instances this process made for c
  dirty,       \* SyncConfigs the work queue has to hand out
  delayed,     \* SyncConfigs waiting in the queue for a RequeueAfter or backoff
  lastCall,    \* lastCall[i]: history, the last call of ApplyIPRanges on
               \*   ingress i, the list it was for and whether it returned nil
  pc,          \* pc[w]: the next step of worker w
  job          \* job[w]: the local variables of the Reconcile of worker w

cluster == <<exists, status, known, behind>>
queue == <<dirty, delayed>>
caches == <<plugins, instances>>
vars == <<cluster, config, caches, queue, lastCall, pc, job>>

-----------------------------------------------------------------------------
(* Data.                                                                   *)

Entry == [name : Configs, status : {"Success", "Error"}]

Status == [ready : {"None", "True", "False"},
           reason : {"None", "SyncSuccessful", "ProviderError", "IngressError"},
           providers : Seq(Entry),
           ingress : Seq(Entry)]

NewStatus == [ready |-> "None", reason |-> "None",
              providers |-> <<>>, ingress |-> <<>>]

(* The local variables of one Reconcile: its request, the position in the  *)
(* list of references, the ranges collected, the list of statuses being    *)
(* built, the status of the in-memory SyncConfig, whether that object is   *)
(* older than the stored one, and the config and plugin in hand.           *)
Job == [key : Syncs \cup {Absent}, pos : Nat, ranges : SUBSET Providers,
        report : Seq(Entry), status : Status, stale : BOOLEAN,
        spec : Contents \cup {Absent}, plugin : Contents \cup {Absent}]

NoJob == [key |-> Absent, pos |-> 1, ranges |-> {}, report |-> <<>>,
          status |-> NewStatus, stale |-> FALSE,
          spec |-> Absent, plugin |-> Absent]

Call == [ranges : SUBSET Providers, ok : BOOLEAN]

Refs(s) == ProviderRefs[s] \o IngressRefs[s]

InProgress == {job[w].key : w \in {v \in Workers : pc[v] # "idle"}}

Current(w) == Refs(job[w].key)[job[w].pos]

OnProvider(w) ==
  /\ job[w].key # Absent
  /\ job[w].pos <= Len(ProviderRefs[job[w].key])

OnIngress(w) == job[w].key # Absent /\ ~OnProvider(w)

(* setStatusCondition: there is one condition, of type Ready; it is        *)
(* appended the first time and updated in place afterwards.                *)
SetReady(st, ready, reason) == [st EXCEPT !.ready = ready, !.reason = reason]

-----------------------------------------------------------------------------
(* The work queue of controller-runtime, as the code uses it: a key waits  *)
(* in the queue at most once, no key is handed to two workers at a time, a *)
(* key added while it is being processed is handed out again afterwards.   *)

Enqueue(S) == dirty' = dirty \cup S

(* How controller-runtime treats what Reconcile returns.  An error wins    *)
(* over the RequeueAfter beside it: the key goes through the rate limiter, *)
(* which waits as well, only for another time.                             *)
ReturnErrorSwallowed(w) == UNCHANGED delayed

ReturnError(w) == delayed' = delayed \cup {job[w].key}

ReturnRequeueAfterNothing(w) == UNCHANGED delayed

ReturnRequeueAfter(w) == delayed' = delayed \cup {job[w].key}

ReturnNil(w) == UNCHANGED delayed

Finish(w) ==
  /\ pc' = [pc EXCEPT ![w] = "idle"]
  /\ job' = [job EXCEPT ![w] = NoJob]

Dequeue(w, s) ==
  /\ pc[w] = "idle"
  /\ s \in dirty \ InProgress
  /\ dirty' = dirty \ {s}
  /\ pc' = [pc EXCEPT ![w] = "get"]
  /\ job' = [job EXCEPT ![w] = [NoJob EXCEPT !.key = s]]
  /\ UNCHANGED <<cluster, config, caches, delayed, lastCall>>

TimerFires(s) ==
  /\ s \in delayed
  /\ delayed' = delayed \ {s}
  /\ Enqueue({s})
  /\ UNCHANGED <<cluster, config, caches, lastCall, pc, job>>

-----------------------------------------------------------------------------
(* Reconcile.                                                              *)

(* The Get is answered from the informer's cache.                          *)
GetSyncConfig(w) ==
  LET s == job[w].key IN
  /\ pc[w] = "get"
  /\ \/ /\ ~known[s]
        /\ ReturnNil(w)
        /\ Finish(w)
     \/ /\ "get" \in Flaky
        /\ ReturnError(w)
        /\ Finish(w)
     \/ /\ known[s]
        /\ job' = [job EXCEPT ![w].status = status[s], ![w].stale = behind[s]]
        /\ pc' = [pc EXCEPT ![w] = "config"]
        /\ UNCHANGED delayed
  /\ UNCHANGED <<cluster, config, caches, dirty, lastCall>>

SettledSilently(w, outcome) ==
  [job[w] EXCEPT
     !.report = IF outcome = "Error"
                  THEN @ ELSE Append(@, [name |-> Current(w), status |-> outcome]),
     !.pos = @ + 1, !.spec = Absent, !.plugin = Absent]

SettledAsSuccess(w, outcome) ==
  [job[w] EXCEPT
     !.report = Append(@, [name |-> Current(w), status |-> "Success"]),
     !.pos = @ + 1, !.spec = Absent, !.plugin = Absent]

(* The job of w with the current reference settled.                        *)
Settled(w, outcome) ==
  [job[w] EXCEPT
     !.report = Append(@, [name |-> Current(w), status |-> outcome]),
     !.pos = @ + 1, !.spec = Absent, !.plugin = Absent]

(* After the last provider the provider statuses are stored in the         *)
(* in-memory SyncConfig, after the last ingress the ingress statuses and   *)
(* the verdict.                                                            *)
Proceed(w, j) ==
  LET providersDone == j.pos = Len(ProviderRefs[j.key]) + 1
      allDone == j.pos = Len(Refs(j.key)) + 1
      verdict == SetReady([j.status EXCEPT !.ingress = j.report],
                          "True", "SyncSuccessful")
  IN /\ job' = [job EXCEPT ![w] =
                  CASE providersDone -> [j EXCEPT !.status.providers = j.report,
                                                  !.report = <<>>]
                    [] allDone       -> [j EXCEPT !.status = verdict]
                    [] OTHER         -> j]
     /\ pc' = [pc EXCEPT ![w] = IF allDone THEN "update" ELSE "config"]

(* Every error of a reference ends in the same block: an Error entry, then *)
(* either the next reference or, in mode fail, a return that drops the     *)
(* list of statuses and leaves Reconcile with a condition to write.        *)
GivesUpNever(s) == FALSE

GivesUp(s) == FailureMode[s] = "fail"

RefFailsReporting(w) ==
  IF GivesUp(job[w].key)
    THEN /\ job' = [job EXCEPT ![w].status =
                      IF OnProvider(w)
                        THEN SetReady([@ EXCEPT !.providers = Settled(w, "Error").report],
                                      "False", "ProviderError")
                        ELSE SetReady([@ EXCEPT !.ingress = Settled(w, "Error").report],
                                      "False", "IngressError")]
         /\ pc' = [pc EXCEPT ![w] = "update"]
    ELSE Proceed(w, Settled(w, "Error"))

RefFails(w) ==
  IF GivesUp(job[w].key)
    THEN /\ job' = [job EXCEPT ![w].status =
                      SetReady(@, "False", IF OnProvider(w) THEN "ProviderError"
                                                            ELSE "IngressError")]
         /\ pc' = [pc EXCEPT ![w] = "update"]
    ELSE Proceed(w, Settled(w, "Error"))

(* The steps of one reference, whatever its kind.                          *)
GetConfig(w) ==
  /\ pc[w] = "config"
  /\ \/ /\ config[Current(w)] = Absent \/ "get" \in Flaky
        /\ RefFails(w)
     \/ /\ config[Current(w)] # Absent
        /\ job' = [job EXCEPT ![w].spec = config[Current(w)]]
        /\ pc' = [pc EXCEPT ![w] = "lookup"]
  /\ UNCHANGED <<cluster, config, caches, queue, lastCall>>

LookupUnchecked(w) ==
  /\ pc[w] = "lookup"
  /\ job' = [job EXCEPT ![w].plugin = plugins[Current(w)]]
  /\ pc' = [pc EXCEPT ![w] = "use"]
  /\ UNCHANGED <<cluster, config, caches, queue, lastCall>>

Lookup(w) ==
  /\ pc[w] = "lookup"
  /\ IF plugins[Current(w)] # Absent
       THEN /\ job' = [job EXCEPT ![w].plugin = plugins[Current(w)]]
            /\ pc' = [pc EXCEPT ![w] = "use"]
       ELSE /\ pc' = [pc EXCEPT ![w] = "create"]
            /\ UNCHANGED job
  /\ UNCHANGED <<cluster, config, caches, queue, lastCall>>

StoreNothing(c, spec) == UNCHANGED plugins

Store(c, spec) == plugins' = [plugins EXCEPT ![c] = spec]

(* The registry, the Secret and Init can each refuse.                      *)
Create(w) ==
  LET c == Current(w) IN
  /\ pc[w] = "create"
  /\ \/ /\ c \notin Registered \/ "create" \in Flaky
        /\ RefFails(w)
        /\ UNCHANGED caches
     \/ /\ c \in Registered
        /\ Store(c, job[w].spec)
        /\ instances' = [instances EXCEPT ![c] = @ + 1]
        /\ job' = [job EXCEPT ![w].plugin = job[w].spec]
        /\ pc' = [pc EXCEPT ![w] = "use"]
  /\ UNCHANGED <<cluster, config, queue, lastCall>>

(* collectProviderIPRanges, one reference at a time.                       *)
GetProviderConfig(w) == OnProvider(w) /\ GetConfig(w)

LookupProvider(w) == OnProvider(w) /\ Lookup(w)

CreateProvider(w) == OnProvider(w) /\ Create(w)

(* The filtered ranges of the provider are merged into the list.           *)
FetchIPRanges(w) ==
  /\ pc[w] = "use"
  /\ OnProvider(w)
  /\ \/ /\ "fetch" \in Flaky
        /\ RefFails(w)
     \/ Proceed(w, [Settled(w, "Success") EXCEPT !.ranges = @ \cup {Current(w)}])
  /\ UNCHANGED <<cluster, config, caches, queue, lastCall>>

(* applyIPRangesToIngress, one reference at a time.                        *)
GetIngressConfig(w) == OnIngress(w) /\ GetConfig(w)

LookupIngress(w) == OnIngress(w) /\ Lookup(w)

CreateIngress(w) == OnIngress(w) /\ Create(w)

(* ApplyIPRanges returns nil or an error.                                  *)
Called(w, ok) ==
  lastCall' = [lastCall EXCEPT ![Current(w)] = [ranges |-> job[w].ranges, ok |-> ok]]

ApplyIPRanges(w) ==
  /\ pc[w] = "use"
  /\ OnIngress(w)
  /\ \/ /\ "apply" \in Flaky
        /\ RefFails(w)
        /\ Called(w, FALSE)
     \/ /\ Proceed(w, Settled(w, "Success"))
        /\ Called(w, TRUE)
  /\ UNCHANGED <<cluster, config, caches, queue>>

(* Status().Update is refused when the object is gone or has changed since *)
(* it was read.  A write that goes through causes a watch event, unless it *)
(* changes nothing: the times in the status count seconds.                 *)
Writable(w) == exists[job[w].key] /\ ~job[w].stale

WriteStatus(w) ==
  LET s == job[w].key IN
  /\ status' = [status EXCEPT ![s] = job[w].status]
  /\ \/ behind' = [behind EXCEPT ![s] = TRUE]
     \/ status[s] = job[w].status /\ UNCHANGED behind
  /\ UNCHANGED <<exists, known>>

UpdateStatus(w) ==
  LET succeeded == job[w].status.reason = "SyncSuccessful" IN
  /\ pc[w] = "update"
  /\ \/ /\ Writable(w)
        /\ WriteStatus(w)
        /\ IF succeeded THEN ReturnRequeueAfter(w) ELSE ReturnError(w)
     \/ /\ ~Writable(w) \/ "update" \in Flaky
        /\ UNCHANGED cluster
        /\ ReturnError(w)
     \/ /\ "update" \in Flaky
        /\ Writable(w)
        /\ WriteStatus(w)
        /\ ReturnError(w)
  /\ Finish(w)
  /\ UNCHANGED <<config, caches, dirty, lastCall>>

Step(w) ==
  \/ GetSyncConfig(w)
  \/ GetProviderConfig(w) \/ LookupProvider(w) \/ CreateProvider(w) \/ FetchIPRanges(w)
  \/ GetIngressConfig(w) \/ LookupIngress(w) \/ CreateIngress(w) \/ ApplyIPRanges(w)
  \/ UpdateStatus(w)

-----------------------------------------------------------------------------
(* The watches, and what the environment does.                             *)

(* An event of a SyncConfig reaches the informer, which updates its cache  *)
(* and enqueues the key.                                                   *)
DeliverSyncConfig(s) ==
  /\ behind[s]
  /\ behind' = [behind EXCEPT ![s] = FALSE]
  /\ known' = [known EXCEPT ![s] = exists[s]]
  /\ Enqueue({s})
  /\ UNCHANGED <<exists, status, config, caches, delayed, lastCall, pc, job>>

findSyncConfigsForProvider(p) ==
  {s \in Syncs : known[s] /\ \E k \in DOMAIN ProviderRefs[s] : ProviderRefs[s][k] = p}

findSyncConfigsForIngress(i) ==
  {s \in Syncs : known[s] /\ \E k \in DOMAIN IngressRefs[s] : IngressRefs[s][k] = i}

(* A ProviderConfig or IngressConfig is created, edited or deleted.  When  *)
(* the List in the map function fails, the event is dropped.               *)
ConfigEvent(c) ==
  /\ "config" \in Churn
  /\ \E spec \in (Contents \cup {Absent}) \ {config[c]} :
       config' = [config EXCEPT ![c] = spec]
  /\ \/ Enqueue(IF c \in Providers THEN findSyncConfigsForProvider(c)
                                   ELSE findSyncConfigsForIngress(c))
     \/ "list" \in Flaky /\ UNCHANGED dirty
  /\ UNCHANGED <<cluster, caches, delayed, lastCall, pc, job>>

(* Somebody creates, deletes or touches SyncConfig s: copies of it are now *)
(* out of date.  A new object has an empty status.  What its spec says is  *)
(* a constant of the module: an edit of the lists of references or of the  *)
(* failure mode is not modelled.                                           *)
SyncConfigEvent(s) ==
  /\ "sync" \in Churn
  /\ \E present \in BOOLEAN :
       /\ present \/ exists[s]
       /\ exists' = [exists EXCEPT ![s] = present]
       /\ status' = IF present /\ exists[s] THEN status
                                            ELSE [status EXCEPT ![s] = NewStatus]
  /\ behind' = [behind EXCEPT ![s] = TRUE]
  /\ job' = [w \in Workers |-> IF job[w].key = s THEN [job[w] EXCEPT !.stale = TRUE]
                                                 ELSE job[w]]
  /\ UNCHANGED <<known, config, caches, queue, lastCall, pc>>

(* ProviderCache and IngressCache are plain maps.  When one worker stores  *)
(* an entry while another reads or stores one in the same map, the Go      *)
(* runtime may end the process: "concurrent map read and map write".       *)
MapRace ==
  \E v, w \in Workers :
    /\ v # w
    /\ pc[v] = "create" /\ Current(v) \in Registered
    /\ \/ pc[w] = "lookup"
       \/ pc[w] = "create" /\ Current(w) \in Registered
    /\ OnProvider(v) <=> OnProvider(w)

(* The calls of ApplyIPRanges that may be under way.                       *)
Calling(i) == {w \in Workers : pc[w] = "use" /\ OnIngress(w) /\ Current(w) = i}

(* The process ends and the pod is restarted: the informer lists every     *)
(* object anew; queue and caches are empty.  A call that was under way has *)
(* not returned nil.                                                       *)
Restart ==
  /\ "crash" \in Churn \/ MapRace
  /\ known' = exists
  /\ behind' = [s \in Syncs |-> FALSE]
  /\ dirty' = {s \in Syncs : exists[s]}
  /\ delayed' = {}
  /\ plugins' = [c \in Configs |-> Absent]
  /\ instances' = [c \in Configs |-> 0]
  /\ pc' = [w \in Workers |-> "idle"]
  /\ job' = [w \in Workers |-> NoJob]
  /\ LET Last(i) == {lastCall[i]} \cup
                     {[ranges |-> job[w].ranges, ok |-> FALSE] : w \in Calling(i)}
     IN lastCall' \in {last \in [Ingresses -> UNION {Last(i) : i \in Ingresses}] :
                         \A i \in Ingresses : last[i] \in Last(i)}
  /\ UNCHANGED <<exists, status, config>>

-----------------------------------------------------------------------------
Init ==
  /\ exists \in [Syncs -> IF "sync" \in Churn THEN BOOLEAN ELSE {TRUE}]
  /\ status = [s \in Syncs |-> NewStatus]
  /\ known = exists
  /\ behind = [s \in Syncs |-> FALSE]
  /\ config \in [Configs -> Contents]
  /\ plugins = [c \in Configs |-> Absent]
  /\ instances = [c \in Configs |-> 0]
  /\ dirty = {s \in Syncs : exists[s]}
  /\ delayed = {}
  /\ lastCall = [i \in Ingresses |-> Absent]
  /\ pc = [w \in Workers |-> "idle"]
  /\ job = [w \in Workers |-> NoJob]

Next ==
  \/ \E w \in Workers : Step(w) \/ \E s \in Syncs : Dequeue(w, s)
  \/ \E s \in Syncs : TimerFires(s) \/ DeliverSyncConfig(s) \/ SyncConfigEvent(s)
  \/ \E c \in Configs : ConfigEvent(c)
  \/ Restart

Spec == Init /\ [][Next]_vars

(* A worker that has a job goes on, a timer that is set fires, a watch     *)
(* event is delivered.  The work queue is a FIFO: a key that is again and  *)
(* again ready to be handed out is handed out.                             *)
Fairness ==
  /\ \A w \in Workers : WF_vars(Step(w))
  /\ \A s \in Syncs : /\ WF_vars(TimerFires(s))
                      /\ WF_vars(DeliverSyncConfig(s))
                      /\ SF_vars(\E w \in Workers : Dequeue(w, s))

FairSpec == Spec /\ Fairness

-----------------------------------------------------------------------------
(* Properties.                                                             *)

(* What the local variables of Reconcile may hold at each of its steps: a  *)
(* reference to look at until "update", and a plugin that is not nil when  *)
(* FetchIPRanges or ApplyIPRanges is called on it.                         *)
Steps == {"idle", "get", "config", "lookup", "create", "use", "update"}

JobOK(step, j) ==
  /\ j \in Job
  /\ step # "idle" => j.key \in Syncs
  /\ step \notin {"idle", "update"} => j.pos \in 1 .. Len(Refs(j.key))
  /\ step \in {"lookup", "create"} => j.spec \in Contents
  /\ step = "use" => j.plugin \in Contents

(* Type correctness of the reconciler, its queue and what it writes.       *)
TypeOK ==
  /\ exists \in [Syncs -> BOOLEAN]
  /\ status \in [Syncs -> Status]
  /\ known \in [Syncs -> BOOLEAN]
  /\ behind \in [Syncs -> BOOLEAN]
  /\ config \in [Configs -> Contents \cup {Absent}]
  /\ plugins \in [Configs -> Contents \cup {Absent}]
  /\ instances \in [Configs -> Nat]
  /\ dirty \subseteq Syncs
  /\ delayed \subseteq Syncs
  /\ lastCall \in [Ingresses -> Call \cup {Absent}]
  /\ pc \in [Workers -> Steps]
  /\ job \in [Workers -> Job]
  /\ \A w \in Workers : JobOK(pc[w], job[w])

(* Whatever fails, races or restarts, a SyncConfig that exists is never    *)
(* dropped: it waits in the queue, for a timer or for a watch event, or a  *)
(* worker has it (every return of Reconcile, lines 158-207).               *)
NeverForgotten ==
  \A s \in Syncs :
    exists[s] => behind[s] \/ s \in dirty \cup delayed \cup InProgress

(* The list that each reconciliation hands to an ingress comes from one    *)
(* SyncConfig that refers to that ingress, even if several share it; and   *)
(* with failureMode fail it is the complete list: no provider that failed  *)
(* goes missing from an ingress (the early returns of                      *)
(* collectProviderIPRanges).                                               *)
AppliedAsAWhole ==
  \A i \in Ingresses :
    lastCall[i] # Absent =>
      \E s \in Syncs :
        /\ \E k \in DOMAIN IngressRefs[s] : IngressRefs[s][k] = i
        /\ LET all == {ProviderRefs[s][k] : k \in DOMAIN ProviderRefs[s]} IN
           /\ lastCall[i].ranges \subseteq all
           /\ FailureMode[s] = "fail" => lastCall[i].ranges = all

(* A stored condition Ready=True comes with one entry per reference, in    *)
(* the order of the spec, and with failureMode fail none of them is an     *)
(* error: no success is written over the leftovers of another attempt.     *)
Accounts(entries, refs, mode) ==
  /\ Len(entries) = Len(refs)
  /\ \A k \in DOMAIN refs :
       /\ entries[k].name = refs[k]
       /\ mode = "fail" => entries[k].status = "Success"

ReadyAccountsForSpec ==
  \A s \in Syncs :
    status[s].ready = "True" =>
      /\ Accounts(status[s].providers, ProviderRefs[s], FailureMode[s])
      /\ Accounts(status[s].ingress, IngressRefs[s], FailureMode[s])

(* A list of statuses is stored when it is complete or not at all, never   *)
(* the beginning that a reconciliation of mode fail has collected when it  *)
(* gives up: so that mode stores no Error entry.  And the provider list    *)
(* next to an IngressError is one that led to that attempt.                *)
Whole(entries, refs, mode) == entries = <<>> \/ Accounts(entries, refs, mode)

ReportsAreWhole ==
  \A s \in Syncs :
    /\ Whole(status[s].providers, ProviderRefs[s], FailureMode[s])
    /\ Whole(status[s].ingress, IngressRefs[s], FailureMode[s])
    /\ status[s].reason = "IngressError" =>
         Accounts(status[s].providers, ProviderRefs[s], FailureMode[s])

(* As long as one worker reconciles, or several that have no ingress in    *)
(* common, a status that is stored with Ready=True tells what was done:    *)
(* the last call on an ingress with a Success entry returned nil and was   *)
(* for the list from the providers with a Success entry and no other,      *)
(* whatever happened to the objects or the process on the way.  (When the  *)
(* spec names an ingress twice, the second call may have failed, with an   *)
(* Error entry.)                                                           *)
Succeeded(entries) ==
  {c \in Configs : \E k \in DOMAIN entries : entries[k] = [name |-> c, status |-> "Success"]}

Failed(entries) ==
  {c \in Configs : \E k \in DOMAIN entries : entries[k] = [name |-> c, status |-> "Error"]}

WasApplied(calls, entries, ranges) ==
  \A i \in Succeeded(entries) :
    \E ok \in BOOLEAN : /\ calls[i] = [ranges |-> ranges, ok |-> ok]
                        /\ ok \/ i \in Failed(entries)

ReadyWasApplied ==
  [][\A s \in Syncs : status'[s] # status[s] /\ status'[s].ready = "True" =>
       WasApplied(lastCall, status'[s].ingress, Succeeded(status'[s].providers))]_vars

(* The check-then-act of getOrCreateProvider and getOrCreateIngress can    *)
(* make an instance more than once, but only for as many workers as can    *)
(* miss the same entry at the same time: later lookups hit the cache.      *)
InstancesBounded ==
  \A c \in Configs : instances[c] <= Cardinality(Workers)

(* A SyncConfig that stays is reconciled to the end again and again, next  *)
(* to others and with calls that keep failing: every outcome brings it     *)
(* back through a timer or the rate limiter.                               *)
KeepsReconciling ==
  \A s \in Syncs :
    <>[]exists[s] => []<>(\E w \in Workers : job[w].key = s /\ pc[w] = "update")

(* Once every config object is there for good, the last call on each       *)
(* ingress was for good a success with what one of its SyncConfigs asks    *)
(* for: the ranges of all its providers that can be created, unless one    *)
(* that cannot be created keeps a SyncConfig of mode fail from applying    *)
(* anything.  That holds even if the event that announced an object was    *)
(* lost because the List in the map function failed, and while status      *)
(* updates keep failing: the periodic requeue and the retries make up for  *)
(* it.                                                                     *)
AskedFor(i) ==
  {{ProviderRefs[s][k] : k \in DOMAIN ProviderRefs[s]} \cap Registered :
     s \in {s \in Syncs :
              /\ \E k \in DOMAIN IngressRefs[s] : IngressRefs[s][k] = i
              /\ FailureMode[s] = "fail" =>
                   \A k \in DOMAIN ProviderRefs[s] : ProviderRefs[s][k] \in Registered}}

Converges ==
  (\A c \in Configs : <>[](config[c] # Absent)) =>
    \A i \in Ingresses :
      AskedFor(i) # {} =>
        <>[](\E asked \in AskedFor(i) : lastCall[i] = [ranges |-> asked, ok |-> TRUE])

=============================================================================
