# k8s-ingress-meta-sync in TLA+

Models, model checks and proofs of the controller in `src/`: it fetches published IP ranges
from *providers* (GitHub), filters and merges them as a `SyncConfig` object says, and writes
them to *ingresses* (an Istio EnvoyFilter, Cloudflare firewall rules).

Contents: [the system](#the-system), [modules](#modules-and-the-code), [runs](#runs),
[what the code does not do](#what-the-documentation-says-and-the-code-does-not-do),
[proofs](#proofs), [not modelled](#not-modelled), [plan](#plan).

## The system

One process: controller-runtime starts four workers (`MaxConcurrentReconciles: 4`) that all run
`SyncReconciler.Reconcile`. Everything else is called by them.

| Component | State | Operations | Called by / calls |
|---|---|---|---|
| Reconciliation engine `pkg/controller/controller.go` | the status of the SyncConfigs (API server); `ProviderCache`, `IngressCache`; locals of each Reconcile | `Reconcile` (get, collect, apply, write status), `getOrCreateProvider`, `getOrCreateIngress`, `setStatusCondition`, two map functions for watches | work queue / API server, plugins |
| Work queue and informer (controller-runtime, external) | queued keys, timers, failure counters; cached SyncConfigs | hand out a key, `RequeueAfter`, rate-limited retry, watch events | API server / engine |
| GitHub provider `pkg/providers/github` | `cachedData`, `lastFetch`, `cacheMutex` | `FetchIPRanges` | engine / HTTP |
| Istio ingress `pkg/ingress/istio` | `cachedData`, `lastFetch`, `cacheMutex`; a ConfigMap and an EnvoyFilter in the API server | `ApplyIPRanges`, `GetCurrentIPRanges` | engine / API server |
| Cloudflare ingress `pkg/ingress/cloudflare` | `cachedData`, `lastFetch`, `cacheMutex`; filters and rules of the zone | `ApplyIPRanges`, `GetCurrentIPRanges` | engine / HTTP |
| IP range sets `pkg/model/iprange.go` | a slice of (CIDR, labels) | `Add`, `Filter`, `Merge`, `Diff`, `Count`, `GetCIDRs` | all of the above |
| Plugin creation, in `pkg/controller/controller.go` | entries of `ProviderCache` and `IngressCache`; the copy of a spec, a token | the steps of `getOrCreateProvider` and `getOrCreateIngress`: registry, Secret, `Init`, cache | engine / registries, Secret reader, plugins |
| Secret reader `SecretReader`, in `pkg/controller/controller.go` | - | `GetSecret` | plugin creation / API server |
| Plugin registries `pkg/providers/provider.go`, `pkg/ingress/ingress.go` | two maps from a type to a factory | `Register`, `Get` | `init` functions / plugin creation |
| Manager `cmd/manager/main.go` | - | start, restart | Kubernetes |
| API types | - | data declarations | - |

What is hard here, and what makes each part correct:

* **Engine.** Four workers share two plain maps; a worker holds a SyncConfig it read earlier; any of
  several references can fail, in one of two failure modes; the process may die at any step.
  Correct: no SyncConfig is dropped; a list reaches an ingress as a whole or not at all; a status
  accounts for every reference; with a system that settles down the ingresses are called with the
  right lists.
* **Plugins.** The reconciler's plugins are shared by all workers. A read-write lock is dropped and
  taken again and is held during requests; the cache decides whether anything is written at all, and
  it is filled at other moments than the objects it describes. Correct: locks are given back; a call
  that returns nil has had its effect; what is enforced has been persisted; other people's objects
  are left alone; a list is never too old.
* **Creation of plugins.** A config and the Secret it names are read at different times by different
  workers, and can be edited in between; three things can fail one after the other. Correct: a
  plugin does not mix versions; no half-made plugin is found; failures are not remembered.
* **Range sets.** A CIDR may occur several times with different labels, in sets that are filtered,
  merged and compared. Correct: the selected ranges arrive, the difference is exact.

`PROJECT.json` lists every hazard with its line and the properties about it.

## Modules and the code

| Module | Models |
|---|---|
| `SyncController` | the engine, its workers, queue, informer and environment; a call of a plugin is one step |
| `PluginFactory` | how the workers come to a plugin: the steps that `Lookup` and `Create` of `SyncController` stand for |
| `GitHubProvider` | `FetchIPRanges` of one provider shared by workers, with time |
| `CachedList` | what a provider promises: the abstract specification of `GitHubProvider` |
| `IstioIngress` | `ApplyIPRanges` of one ingress shared by workers, ConfigMap and EnvoyFilter |
| `IstioSync` | the engine calling the Istio ingress (composes `SyncController` and `IstioIngress`) |
| `CloudflareIngress` | `ApplyIPRanges` of one ingress shared by workers, and the zone |
| `IPRange` | the operations on `IPRangeSet` as operators |
| `RangePipeline` | the data of one reconciliation: convert, filter, merge, compare (extends `IPRange`) |
| `MC*` | small instances for TLC |
| `SyncControllerProofs`, `SyncReportProofs` | theorems on `SyncController`; the second, on lists and statuses, extends the first |
| other `*Proofs` | theorems, each module extending the one it is about |

`PROJECT.json` maps every definition to its lines; what follows is what a reader cannot see there.

**`SyncController`.** A worker's `pc` is the next call of `Reconcile` that can fail or that others
can observe: `get` (SyncConfig), then for each reference `config` (its config object), `lookup` and
`create` (cache and factory), `use` (`FetchIPRanges` or `ApplyIPRanges`), at last `update` (status).
Between two of these nothing is shared, so the code between them belongs to the step. `job[w]` holds
the locals. The two loops over references have the same steps and share `GetConfig`, `Lookup` and
`Create`; `pos` runs over providers, then ingresses. A list of ranges is the set of providers whose
ranges are merged into it, which is what the properties tell apart; the filters may have left none
of a provider's. The module ends at the call of `ApplyIPRanges`: the history variable `lastCall` has
the list of the last call on each ingress and whether it returned nil, and claims nothing of what
the call did. `stale` is the resourceVersion: it is set when somebody changes the object after the
worker read it. A status written without a change of content causes no event; the times in it count
whole seconds, so the model allows both. `Restart` empties everything the process holds. It is
enabled by the churn of a run and by `MapRace`, the Go runtime's reaction to concurrent map access.
A call named in `Flaky` may fail at any time; other failures come from the state (no object, no
factory, a conflict).

**`PluginFactory`.** A worker holds the copy of the spec that `Reconcile` has read and takes three
steps with it: `lookup` (cache and registry), `secret`, `init` (`Init` and the store). A spec is
what decides about the creation: type, whether the section of that type is there, the Secret and
key, and one setting that stands for all options; a `Malformed` one is a polling interval
that is not a duration. `GetSecret` is the set of values the reader can return: the one under the
key, or the only one, or none. An empty key is `Absent`: no Secret has it. Specs and Secrets change
at any time within what `Offered` and `Stored` admit. `ServerUnavailable` is an API server that
does not answer the Secret reader, or the client that `Init` of the Istio ingress makes. An
`istio` section sets options only, a `cloudflare` config without one fails for want of a token.

**`IstioSync`.** The steps of the engine, with `CallIngress` and `Applying` (any step of
`IstioIngress`) in place of the single step that calls `ApplyIPRanges`; `at[w]` is where the worker
is inside it. When the call returns, the engine goes on with its result (`GoOn`). The ingress is
asked for what the filters leave of the list (`Filtered`; of the `Silent` providers they leave
nothing). Requests are rejected, responses are lost and the process is restarted at any step. Nobody
edits the ConfigMap, and nobody the SyncConfigs and configs: no step of `ApplyIPRanges` reads them.

**`IstioIngress`, `CloudflareIngress`.** Each request is a step, each look at the cache under its
lock another one. A list is the set of its CIDRs: `Diff` sees nothing else (`DiffComparesCIDRs`
below). `Rejected` requests may fail without effect, writes in `Lost` may have their effect and
fail. Whether the cache is `fresh` is a Boolean that may turn false at any time. `cmCurrent` and
`efCurrent` are the workers whose resourceVersion is still current. `persisted` and `cutShort` are
history variables: they appear in no guard. `cutShort` has the lists whose calls have ended between
the write of the ConfigMap and that of the EnvoyFilter: by a lost response to the first, an error of
the second or the end of the process. A list leaves it when a later call gets past
`updateConfigMap`, or once neither ConfigMap nor cache has it. In the zone filters are never
removed, because the code removes none; a filter's index is its ID, and `Quota` bounds their number.

**`GitHubProvider`.** What matters of a list is its age. `Tick` lets one unit of time go by; it
is blocked only by a request that is due to time out (`httpClient.Timeout`). **`CachedList`** has
none of the lock, the requests and the two looks at the cache: a call returns what is kept, or
replaces it, or fails, in one step. The mapping is the identity on the cache; the abstract set
`calling` is the workers that are not idle.

## Runs

Every passing run terminates with its whole state space.

| Run | What it shows |
|---|---|
| `sync_faults` | types, no SyncConfig forgotten, a Ready status accounts for the spec and tells what was called when it is written; one SyncConfig, every call flaky, every object comes and goes, restarts |
| `sync_workers` | lists applied as a whole, statuses of both modes account for the spec, stored lists of statuses are complete or absent, instances bounded; two SyncConfigs of different modes on one ingress, one of them with a second ingress that cannot be created, two workers, map races |
| `sync_live` | nobody starves, and the last call on the ingress ends up right: two SyncConfigs of different modes, one worker, a provider without a factory, lost events, status updates that keep failing |
| `plugin_factory` | a plugin's options and token belong together, only initialised plugins are found, creation recovers from every failure, a restart brings edits into effect; two workers, two configs, two Secrets, everything edited at any time |
| `istio_shared` | types and lock discipline, nothing trusted that was not persisted, every call returns; two workers and everything that can go wrong |
| `istio_alone` | the engine over the Istio ingress, one worker, fetches failing, EnvoyFilter requests rejected, any response lost, restarts at any step: what a success and a Ready status say of the EnvoyFilter, with calls that were cut short as the one exception, and the empty list, which Istio does not enforce |
| `istio_rejected` | the same without the exception, *violated* as soon as EnvoyFilter writes can be rejected |
| `cloudflare_shared` | types and lock discipline, foreign filters untouched, every call returns; two workers and everything that can go wrong |
| `cloudflare_alone` | for one worker, with refusals, lost responses to creations and restarts: no more filters carry the rule's name than there are workers, here one; success means enforced unless the filter with the list has no rule |
| `cloudflare_latest` | *violated* although nothing fails and no list is empty: nothing but the latest list is in force |
| `github_shared` | lists are never older than cacheTTL and one request; one request per cacheTTL; the provider implements `CachedList`; every call returns, even if the server never answers |
| `range_pipeline` | the selected CIDRs arrive, the difference is exact |

**Bounds.** Two providers, one ingress or two: the loops have a first, a middle and a last
iteration, and a failure can leave a proper part of a list. Two workers: every race in the code is
between two steps of two workers; one of them can queue behind the other's request. Two SyncConfigs:
one can disturb the other. `Contents` has one member: in `SyncController` a config is there or not,
and an edit is a deletion and a creation; what an edit means for a plugin is the subject of
`PluginFactory`. In `sync_workers` the strict SyncConfig ends with an IngressError after its first
ingress was written, which is the partial failure its loop can have; that it can be Ready as well is
left to the theorem `Ready`. `plugin_factory`: a ProviderConfig and an IngressConfig with three or
four specs, so that an edit can change the type, drop the section, spoil the setting or go over to
another Secret, and two Secrets: one with a value under one key or values under both, so that each
way of `GetSecret` is taken, and one whose token the first never has. `istio_alone` has one
SyncConfig of mode continue with two providers: every subset of them, the empty one when both
fetches fail, is a list. Requests for the ConfigMap are not rejected there (it would take several
times as many states); `istio_shared` rejects them, and the theorems `TrustAlone` and `Trust`
include it, as they include `Silent` providers. `cloudflare_latest` asks for no empty list, which
would give a shorter counterexample of another kind. `sync_live` has one worker, the hardest case
for starvation. Two CIDRs and three lists (equal, smaller, larger) for a single worker; two disjoint
singletons where two workers race. `Quota` is as large as the run affords: 3 means the foreign
filter and two of this ingress, 5 leaves room for four; at the limit a POST fails, which is a state
of the real system as well. `cacheTTL` 3 and `Timeout` 2 in `github_shared`: a list can expire
during a request and a request can take its whole time; the theorem covers all other values.
Symmetry is used only in `sync_workers`, which has no liveness, and only for the workers.

**Fairness.** `SyncController`: a worker that has a job goes on (goroutines run, and every request
has a timeout); timers fire; watch events are delivered; `SF` for handing out a key, because the
work queue is a FIFO and every key in it gets its turn each time a worker is free. No fairness for
failures to end: `KeepsReconciling` holds although calls keep failing. `Converges` assumes only that
config objects are there for good at some time; in its run the List of the map functions and the
status updates are flaky to the end. (A Get, fetch or apply that failed for ever would of course
keep an ingress from its ranges.) `PluginFactory`: a call goes on. Nothing obliges the reconciler to
call, because in mode fail a reference that keeps failing keeps it from ever looking up those after
it (`controller.go:264`, `281`, `297`): that some worker asks for the plugin again and again
(`AskedForAgain`) is a premise of `CreationRecovers`, as is an API server that answers after some
time (`Undisturbed`). `RestartRefreshes` has the premise that there are restarts and the edits end.
`IstioSync` has safety properties only. Ingresses: `SF` for each worker's steps, because
`sync.RWMutex` lets no one wait for ever. `GitHubProvider`: `WF` for the clock and the client's
timer, none for the server. Nothing obliges a caller to call a plugin.

**Deadlock** is checked in all runs but `range_pipeline`, where a reconciliation ends.

## What the documentation says and the code does not do

Two disagreements need a sequence of steps to see. Each has a run that TLC finds violated, and
an entry under `findings` in `PROJECT.json` with the line of the documentation quoted.

* `istio_rejected`: `updateConfigMap` fills the cache before the EnvoyFilter is written. When that
  write fails, the retry sees no difference and returns nil. `istio_alone` shows how far this goes:
  a success is untrue only for a list whose own call was cut short between the two writes, by an
  error, a lost response or the end of the process.
* `cloudflare_latest`: `updateRule` sends a filter without `Description`, by which `findFilterID`
  finds it. The next change creates a second filter and the first stays in force. The
  counterexample: a list is applied, applied again (the creation has cached an empty list), and the
  next one gets a filter of its own.

Others were noticed while modelling. The models contain the behaviour, but no run is about it:

* Mode continue writes Ready=True and LastSuccessfulSync (`controller.go:197`) although a reference
  failed; mode fail drops the statuses collected so far, so that the entries next to ProviderError
  are those of an earlier attempt (`controller.go:180`).
* The controller's own status write brings the SyncConfig back before its timer (`For()` has no
  predicate); `retryConfig` is read nowhere, retries do not stop.
* A plugin outlives every edit of its config object and of its Secret: `getOrCreateProvider` and
  `getOrCreateIngress` key their caches by name and never replace an entry (`controller.go:334`),
  where `docs/images/reconciliation-workflow.md:64` promises to "Initialize the provider with
  appropriate configuration" in a reconciliation. A restart is needed (`RestartRefreshes`).
* Two workers that miss the same cache entry create two instances of a plugin (`InstancesBounded`
  says it cannot get worse than one per worker).
* Istio: an empty list is stored in ConfigMap and cache but leaves the EnvoyFilter as it was
  (`istio.go:305`); of two concurrent calls, the one that wrote the ConfigMap first can store its
  list in the cache last; a process that ends between the two writes, or a lost response to the
  first, leaves a persisted list that is not trusted, and a later call finds it, sees no difference
  and reports success (`cutShort`).
* Cloudflare: a filter whose rule could not be created never gets one, and later calls that update
  it return nil (hence the exception in `SuccessMeansEnforced`); a creation caches an empty list
  (`cloudflare.go:538`), so that the next call writes the same list again; after an update whose
  response is lost the cache still has the old list, and a call for that list does nothing.
* `zoneId` and `ruleName` are checked by `Init` of Cloudflare in the options, which the reconciler
  sets whenever there is a section; a missing section shows as a missing `apiToken`.
* No factory is registered for the type `aws`, which the CRD admits. The binary as it is built
  imports no plugin package, so that no factory is registered at all (`Registered` is empty).
* A CIDR that a provider lists under an excluded and another label is collected all the same.

## Proofs

All proofs are complete; they rest on the modules' named assumptions about the constants
(`NamesAssumption`, `SpecAssumption`, ... ) and on the library's theorems on sequences, finite sets
and well-founded orders. Where no number is named below they hold for any number of workers,
SyncConfigs, references, lists, any `cacheTTL` and `Timeout`.

*Engine.*

* `SyncControllerProofs!TypeCorrect`: `Spec => []TypeOK`. The part that is not bookkeeping is
  `JobOK`: a worker between `get` and `update` is at a reference that exists, and a plugin that is
  used is not nil. `TypeOK` is inductive; one lemma per action, which rest on `WorkerMoves`
  (replacing one worker's step and job) and `ProceedOK` (what follows a settled reference).
* `SyncControllerProofs!NothingForgotten`: `Spec => []NeverForgotten`. Not inductive by itself:
  `Reconcile` returns without a requeue when the informer has no object. The invariant adds
  `KnownOrBehind`: where informer and API server differ, an event is on its way. The steps in the
  middle keep a key in progress (`GoesOn`), the last leaves it to a timer or the rate limiter.
* `SyncControllerProofs!Instances`: `Spec => []InstancesBounded`. As long as there is no entry in
  the cache no instance has been made; once there is one, nobody joins the workers that are at
  `create` for the same config (`Creating`), and these and the instances already made are together
  no more than the workers (`Made`).
* `SyncReportProofs!Applied`, `Reports`, `Ready`: `AppliedAsAWhole`, `ReportsAreWhole` and
  `ReadyAccountsForSpec`, from one invariant. `Honest` says of a worker at position `pos` that its
  report has an entry for each reference settled so far and that its ranges come from these, all of
  them in mode fail; `StatusOK` says of every status, stored or in a worker's hands, what may be
  stored. Both are needed: an attempt starts from the stored status and gives part of it back.
* `SyncReportProofs!ReadyCalls`: `Spec => ReadyWasApplied`, under the hypothesis `Isolated`: there
  is one worker, or no two SyncConfigs name a common ingress. Without it the property is false,
  since another worker may call the ingress between this worker's call and its status. The queue
  never hands one key to two workers (`OneWorkerPerKey`), so that under `Isolated` nobody but the
  worker itself calls an ingress that its report already calls a success (`Truthful`). What a call
  that returned nil did is for the ingress to say: `ReadyTrust` below.
* `PluginFactoryProofs!TypeCorrect`, `Provenance`, `Initialised`: `TypeOK`, `TokenOfItsSecret` and
  `EntriesAreInitialised`. The token in a worker's hands is what the key of the spec *in its hands*
  meant in one version of the Secret, whatever the objects say now.

*Plugins.*

* `GitHubProviderProofs!TypeCorrect`, `Staleness`, `SingleFetch`: `TypeOK`, `BoundedStaleness`,
  `OneFetchPerTTL`. The invariant of the second relates two clocks: a cache that counts as fresh is
  at most `lastFetch + Timeout` old (`CacheAge`), a response at most as old as its request
  (`ResponseAge`). For the third: while the lock is held the cache is not valid and can only get
  older (`LockedOnMiss`).
* `IstioIngressProofs!TypeCorrect`: `Spec => []TypeOK`, lock discipline included.
* `IstioIngressProofs!Persistence`: `Spec => []PersistBeforeTrust`. What `FillCache` finds was
  written (`FoundWasPersisted`), and a worker past `updateConfigMap` has written its own list
  (`AppliedWasPersisted`).
* `IstioIngressProofs!TrustAlone`: `Spec => []SuccessMeansTrusted` under the hypothesis `Alone`: one
  worker, and nobody else who edits the ConfigMap. Requests, responses, expiry and restarts are
  free. What makes a call return without a write, cache or ConfigMap, is `Absent`, empty, what the
  EnvoyFilter trusts, or a list in `cutShort` (`Believable`), except between the two writes, where
  it is the list of the call (`Consistent`).
* `CloudflareIngressProofs!TypeCorrect`: `Spec => []TypeOK`, lock discipline included.
* `CloudflareIngressProofs!Untouched`: `Spec => []ForeignUntouched`. A search never returns the
  foreign filter, and a created filter comes after it.
* `CloudflareIngressProofs!Bounded`: `Spec => []NamedFiltersBounded` for any number of workers. By
  itself it is not inductive: a worker that has found no filter can add one later. The filters with
  the name and the workers that may still create one (`Pending`) are together no more than the
  workers (`BInv`). A filter appears only when one of these stops being one, and a search that found
  a filter adds none to them. Its corollary `Unique`: with one worker, at most one filter carries
  the name.
* `CloudflareIngressProofs!Enforcement`: `Spec => []SuccessMeansEnforced` for one worker and updates
  (`putFilter`) whose response is not lost. The invariant `EInv` speaks of the lists of all filters
  of this ingress, with a rule or without (`Listed`): the cache has one of them or is empty, except
  between the update of a filter and that of the cache (`CacheIsListed`), and a filter in a worker's
  hands was sent with the list of its call (`SentAsWanted`). So the list of a successful call is
  that of a filter; the exception in the property is a filter without a rule.

*Range sets.*

* `IPRangeProofs!DiffComparesCIDRs` and `DiffIsExact`: `Diff` is empty exactly when the CIDRs are
  the same, and is the exact change otherwise, for all sets. The first justifies the representation
  of lists in the ingress modules.
* `IPRangeProofs!Collection` and `Comparison`: `Spec => []CollectedIsSelected` and `Spec =>
  []DiffIsTheChange` of `RangePipeline`, for any categories, responses, references and ranges of the
  ingress. The invariant says that the provider at work has converted exactly the well-formed CIDRs
  of the categories before the next one (`Converted`), each under its category, and that the CIDRs
  of the references before it are collected (`ChosenUpTo`). What the loops over lists keep
  (`KeptElements`) is proved by induction on the length of the list, with the principle for sets of
  numbers (lemma `Induction`, from the well-foundedness of `<`). It takes a set and not an operator,
  so that the provers can use it. For this the loops are the recursive function in `Kept` and not
  the library's `SelectSeq`, which the provers cannot expand.

*Refinement.*

* `GitHubProviderProofs!Refinement`: `Spec => Implements`. The last step of a call is a step of
  `CachedList`, the others are stutters. It needs `LockedOnMiss`: who comes back from a request, or
  from its failure, still finds that the cache was not valid.

*Composition.*

* `IstioSyncProofs!Trust` and `ReadyTrust`: `Spec => []SuccessMeansTrusted` and `Spec =>
  ReadyMeansTrusted`. The assumptions are those of `IstioSync` (`EnvironmentAssumption`): one
  worker, one ingress, nobody else who edits the ConfigMap or the custom resources; specs of any
  length and number, any failures. The invariants of `TrustAlone` and `ReadyCalls` hold in the
  composition: both proof modules are instantiated, and each step of `IstioSync` keeps both. What
  joins them (`LastTrusted`) says that a last call that returned nil was for what the EnvoyFilter
  trusts, unless it was empty or cut short.

**Only model-checked:** liveness (`KeepsReconciling`, `Converges`,
`CreationRecovers`, `RestartRefreshes`, `ApplyReturns`, `CallsReturn`: fairness and ENABLED are
beyond the prover). Every other property of a passing run is stated by a theorem.

## Not modelled

* `Register` of the registries: `init` functions call it before `main`, later they are only read. It
  is the constant `Registered`.
* The `aws` branch of `getOrCreateProvider` beyond the registry (two keys of one Secret), as no
  factory is registered for that type; a token that is the empty string.
* Edits of `spec.providers`, `spec.ingress` and `failureMode` of a SyncConfig: they are constants,
  so that what `ReadyAccountsForSpec` and `ReportsAreWhole` say of a stored status holds until such
  an edit, and again after the next attempt. An edit that changes nothing of these is
  `SyncConfigEvent`.
* Two instances of one ingress at work at the same time, which the check-then-act of the caches
  makes possible: `InstancesBounded` counts them, the ingress modules have one. They are to each
  other what another process is; `Tampering` in `istio_shared` is such a process.
* The composition of the engine with the Cloudflare ingress.
* Four workers on one Istio ingress in the composition: two of them race in `istio_shared`, where no
  success can be believed, because the other's list may be in force by then.
* What a SyncConfig with a shared ingress gets: the last one wins.
* The text of Lua code, filter expressions, log and status messages; parsing is modelled where it
  loses information (`parseFilterExpression`).
* An unknown `updateStrategy`, which makes `ApplyIPRanges` of Cloudflare fail before it writes; both
  known ones replace the whole list.
* Pagination of the Cloudflare API, leader election, health checks, flags, metrics.
* The statuses of ProviderConfig and IngressConfig, which no code reads or writes.
* Informer lag for ProviderConfigs and IngressConfigs: their `Get` sees the current object.
* A 32-bit retry backoff, and the lengths of the intervals: a timer fires at any time.

## Plan

Done: the modules above, in the order engine, Istio, Cloudflare, GitHub, range sets; then the
creation of plugins, the abstract provider and its refinement, the composition of the engine with
the Istio ingress, and theorems for every safety property that a run checks.

Next, in this order:

1. **Cloudflare in the engine**, as `IstioSync` does it, with what is true of it: foreign filters
   stay untouched, and a Ready status implies that the list is among what is enforced.
2. **Edited specs.** `ProviderRefs`, `IngressRefs` and `FailureMode` as variables of
   `SyncController`, with the version of the spec that a status accounts for.
3. **The abstraction of lists.** `SyncController` represents a list of ranges by the set of
   providers in it. With `Collection` it can be proved that `RangePipeline`, in the steps of one
   reconciliation, implements this: the CIDRs collected are a function of the providers settled so
   far.
