---------------------------- MODULE IstioIngress ----------------------------
(***************************************************************************)
(* One IstioIngress (pkg/ingress/istio/istio.go) as the reconciler's       *)
(* workers share it: the ConfigMap in which it persists the ranges, the    *)
(* EnvoyFilter that enforces them, and the cached copy of the ranges that  *)
(* decides whether anything has to be written at all.                      *)
(*                                                                         *)
(* A list of ranges is the set of its CIDRs: Diff compares CIDRs only (see *)
(* IPRange).  Each request to the API server is one step; its client is    *)
(* not cached.  Updates carry the resourceVersion that a Get has returned: *)
(* cmCurrent and efCurrent are the workers whose copy is still current.    *)
(***************************************************************************)
EXTENDS Naturals, FiniteSets

CONSTANTS
  Workers,        \* goroutines that call ApplyIPRanges
  CIDRs,          \* the CIDRs a list can have
  Wanted,         \* the lists the reconciler asks for
  XForwardedFor,  \* the option xForwardedForConfig.enabled
  Nobody,         \* the owner of an unlocked cacheMutex
  Absent,         \* an object that does not exist, a cache that is nil
  Garbled,        \* a ConfigMap whose ip_ranges is not a JSON list of strings
  Rejected,       \* the requests that may fail without effect
  Lost,           \* the writes whose response may be lost
  Tampering,      \* whether somebody else edits the ConfigMap
  Crashes         \* whether the process may be restarted

Writes == {"cmCreate", "cmUpdate", "efCreate", "efUpdate"}

ASSUME ConstantsAssumption ==
  /\ Wanted \subseteq SUBSET CIDRs
  /\ Absent # Garbled
  /\ \A ranges \in SUBSET CIDRs : ranges # Absent /\ ranges # Garbled
  /\ Nobody \notin Workers
  /\ Rejected \subseteq {"cmGet", "efGet"} \cup Writes /\ Lost \subseteq Writes
  /\ {XForwardedFor, Tampering, Crashes} \subseteq BOOLEAN

VARIABLES
  configMap,    \* the ranges in the ConfigMap, Absent or Garbled
  envoyFilter,  \* the trusted ranges in the EnvoyFilter, or Absent
  cmCurrent, efCurrent,
  cachedData,   \* the field of that name; Absent stands for nil
  fresh,        \* time.Since(lastFetch) < cacheTTL
  cacheMutex,   \* who holds the write lock
  pc,           \* pc[w]: the next step of worker w
  want,         \* want[w]: the argument of its last ApplyIPRanges
  result,       \* result[w]: what that call has returned
  persisted,    \* history: all the lists the ConfigMap has ever held
  cutShort      \* history: the lists whose calls have ended between the write
                \*   of the ConfigMap and that of the EnvoyFilter, as long as
                \*   the ConfigMap or the cache still says that they are applied

objects == <<configMap, envoyFilter, cmCurrent, efCurrent, persisted, cutShort>>
cache == <<cachedData, fresh, cacheMutex>>
calls == <<pc, want, result>>
vars == <<objects, cache, calls>>

-----------------------------------------------------------------------------
Goto(w, step) ==
  /\ pc' = [pc EXCEPT ![w] = step]
  /\ UNCHANGED <<want, result>>

Return(w, outcome) ==
  /\ pc' = [pc EXCEPT ![w] = "idle"]
  /\ result' = [result EXCEPT ![w] = outcome]
  /\ UNCHANGED want

CompareAddedOnly(w, current) ==
  IF want[w] \subseteq current THEN Return(w, "ok") ELSE Goto(w, "cmGet")

(* The end of GetCurrentIPRanges: without a difference ApplyIPRanges has   *)
(* nothing to do.                                                          *)
Compare(w, current) ==
  IF current = want[w] THEN Return(w, "ok") ELSE Goto(w, "cmGet")

Remember(ranges) == cachedData' = ranges /\ fresh' = TRUE

ApplyIPRanges(w, ranges) ==
  /\ pc[w] = "idle"
  /\ pc' = [pc EXCEPT ![w] = "read"]
  /\ want' = [want EXCEPT ![w] = ranges]
  /\ result' = [result EXCEPT ![w] = "none"]
  /\ cutShort' = cutShort \cap {configMap, cachedData}
  /\ UNCHANGED <<configMap, envoyFilter, cmCurrent, efCurrent, persisted, cache>>

CacheIsValid == cachedData # Absent /\ fresh

ReadCache(w) ==
  /\ pc[w] = "read"
  /\ cacheMutex = Nobody
  /\ IF CacheIsValid THEN Compare(w, cachedData) ELSE Goto(w, "lock")
  /\ UNCHANGED <<objects, cache>>

(* The write lock is taken and the cache is looked at again.               *)
LockCache(w) ==
  /\ pc[w] = "lock"
  /\ cacheMutex = Nobody
  /\ IF CacheIsValid
       THEN Compare(w, cachedData) /\ UNCHANGED cacheMutex
       ELSE Goto(w, "fill") /\ cacheMutex' = w
  /\ UNCHANGED <<objects, cachedData, fresh>>

(* Every error of the Get, not only NotFound, counts as an empty list.     *)
FillFailsLocked(w) == Return(w, "error") /\ UNCHANGED cacheMutex

FillFails(w) == Return(w, "error") /\ cacheMutex' = Nobody

FillCache(w) ==
  /\ pc[w] = "fill"
  /\ \/ /\ configMap = Absent \/ "cmGet" \in Rejected
        /\ Remember({})
        /\ Compare(w, {})
        /\ cacheMutex' = Nobody
     \/ /\ configMap = Garbled
        /\ FillFails(w)
        /\ UNCHANGED <<cachedData, fresh>>
     \/ /\ configMap \notin {Absent, Garbled}
        /\ Remember(configMap)
        /\ Compare(w, configMap)
        /\ cacheMutex' = Nobody
  /\ UNCHANGED objects

-----------------------------------------------------------------------------
(* updateConfigMap.                                                        *)

GetConfigMap(w) ==
  /\ pc[w] = "cmGet"
  /\ \/ /\ configMap = Absent \/ "cmGet" \in Rejected
        /\ Goto(w, "cmCreate")
        /\ UNCHANGED cmCurrent
     \/ /\ configMap # Absent
        /\ Goto(w, "cmUpdate")
        /\ cmCurrent' = cmCurrent \cup {w}
  /\ UNCHANGED <<configMap, envoyFilter, efCurrent, persisted, cutShort, cache>>

(* A write that changes nothing leaves the resourceVersion as it is.       *)
PutConfigMap(w, ranges) ==
  /\ configMap' = ranges
  /\ persisted' = persisted \cup {ranges}
  /\ cmCurrent' = IF configMap = ranges THEN cmCurrent \ {w} ELSE {}

ConfigMapRefusalIgnored(w) == Goto(w, "store")

ConfigMapRefused(w) == Return(w, "error")

(* An empty list is not to be enforced.                                    *)
CutShort(lists) == cutShort' = cutShort \cup (lists \ {{}})

(* A request that is not allowed (AlreadyExists, Conflict) or rejected has *)
(* no effect; one whose response is lost has, and fails all the same.      *)
WriteConfigMap(w, request, allowed) ==
  /\ pc[w] = request
  /\ \/ /\ allowed
        /\ PutConfigMap(w, want[w])
        /\ \/ Goto(w, "store") /\ UNCHANGED cutShort
           \/ request \in Lost /\ Return(w, "error") /\ CutShort({want[w]})
     \/ /\ ~allowed \/ request \in Rejected
        /\ ConfigMapRefused(w)
        /\ cmCurrent' = cmCurrent \ {w}
        /\ UNCHANGED <<configMap, persisted, cutShort>>
  /\ UNCHANGED <<envoyFilter, efCurrent, cache>>

CreateConfigMap(w) == WriteConfigMap(w, "cmCreate", configMap = Absent)

UpdateConfigMap(w) == WriteConfigMap(w, "cmUpdate", w \in cmCurrent)

(* An empty list leaves the EnvoyFilter alone, as does the option when it  *)
(* is not set (lines 305 and 231).                                         *)
Enforceable(ranges) == XForwardedFor /\ ranges # {}

StoreCache(w) ==
  /\ pc[w] = "store"
  /\ cacheMutex = Nobody
  /\ Remember(want[w])
  /\ cutShort' = {}
  /\ IF Enforceable(want[w]) THEN Goto(w, "efGet") ELSE Return(w, "ok")
  /\ UNCHANGED <<configMap, envoyFilter, cmCurrent, efCurrent, persisted, cacheMutex>>

-----------------------------------------------------------------------------
(* updateEnvoyFilter.                                                      *)

GetEnvoyFilter(w) ==
  /\ pc[w] = "efGet"
  /\ \/ /\ envoyFilter = Absent \/ "efGet" \in Rejected
        /\ Goto(w, "efCreate")
        /\ UNCHANGED efCurrent
     \/ /\ envoyFilter # Absent
        /\ Goto(w, "efUpdate")
        /\ efCurrent' = efCurrent \cup {w}
  /\ UNCHANGED <<configMap, envoyFilter, cmCurrent, persisted, cutShort, cache>>

WriteEnvoyFilter(w, request, allowed) ==
  /\ pc[w] = request
  /\ \/ /\ allowed
        /\ envoyFilter' = want[w]
        /\ efCurrent' = IF envoyFilter = want[w] THEN efCurrent \ {w} ELSE {}
        /\ \/ Return(w, "ok")
           \/ request \in Lost /\ Return(w, "error")
        /\ UNCHANGED cutShort
     \/ /\ ~allowed \/ request \in Rejected
        /\ Return(w, "error")
        /\ CutShort({want[w]})
        /\ efCurrent' = efCurrent \ {w}
        /\ UNCHANGED envoyFilter
  /\ UNCHANGED <<configMap, cmCurrent, persisted, cache>>

CreateEnvoyFilter(w) == WriteEnvoyFilter(w, "efCreate", envoyFilter = Absent)

UpdateEnvoyFilter(w) == WriteEnvoyFilter(w, "efUpdate", w \in efCurrent)

PastConfigMap == {"store", "efGet", "efCreate", "efUpdate"}

Step(w) ==
  \/ ReadCache(w) \/ LockCache(w) \/ FillCache(w)
  \/ GetConfigMap(w) \/ CreateConfigMap(w) \/ UpdateConfigMap(w) \/ StoreCache(w)
  \/ GetEnvoyFilter(w) \/ CreateEnvoyFilter(w) \/ UpdateEnvoyFilter(w)

-----------------------------------------------------------------------------
(* cacheTTL goes by.                                                       *)
Expire ==
  /\ fresh
  /\ fresh' = FALSE
  /\ UNCHANGED <<objects, cachedData, cacheMutex, calls>>

(* Somebody deletes or overwrites the ConfigMap.                           *)
TamperWithConfigMap ==
  /\ Tampering
  /\ \E content \in Wanted \cup {Absent, Garbled} :
       /\ configMap # content
       /\ configMap' = content
       /\ persisted' = persisted \cup ({content} \ {Absent, Garbled})
  /\ cmCurrent' = {}
  /\ UNCHANGED <<envoyFilter, efCurrent, cutShort, cache, calls>>

Restart ==
  /\ Crashes
  /\ CutShort({want[w] : w \in {v \in Workers : pc[v] \in PastConfigMap}})
  /\ cachedData' = Absent /\ fresh' = FALSE /\ cacheMutex' = Nobody
  /\ cmCurrent' = {} /\ efCurrent' = {}
  /\ pc' = [w \in Workers |-> "idle"]
  /\ result' = [w \in Workers |-> "none"]
  /\ want' = [w \in Workers |-> {}]
  /\ UNCHANGED <<configMap, envoyFilter, persisted>>

Start ==
  /\ configMap = Absent /\ envoyFilter = Absent
  /\ cmCurrent = {} /\ efCurrent = {}
  /\ cachedData = Absent /\ fresh = FALSE /\ cacheMutex = Nobody
  /\ pc = [w \in Workers |-> "idle"]
  /\ want = [w \in Workers |-> {}]
  /\ result = [w \in Workers |-> "none"]

Init == Start /\ persisted = {} /\ cutShort = {}

Next ==
  \/ \E w \in Workers : Step(w) \/ \E ranges \in Wanted : ApplyIPRanges(w, ranges)
  \/ Expire \/ TamperWithConfigMap \/ Restart

Spec == Init /\ [][Next]_vars

(* Requests are answered, and sync.RWMutex lets nobody wait for ever.      *)
FairSpec == Spec /\ \A w \in Workers : SF_vars(Step(w))

-----------------------------------------------------------------------------
(* Properties.                                                             *)

(* Types; and cacheMutex is held for the fetch of GetCurrentIPRanges only: *)
(* no return of it leaves the cache locked.                                *)
TypeOK ==
  /\ configMap \in {Absent, Garbled} \cup SUBSET CIDRs
  /\ envoyFilter \in {Absent} \cup SUBSET CIDRs
  /\ cmCurrent \subseteq Workers /\ efCurrent \subseteq Workers
  /\ cachedData \in {Absent} \cup SUBSET CIDRs
  /\ fresh \in BOOLEAN
  /\ cacheMutex \in Workers \cup {Nobody}
  /\ \A w \in Workers : cacheMutex = w <=> pc[w] = "fill"
  /\ pc \in [Workers -> {"idle", "read", "lock", "fill", "store", "cmGet", "efGet"} \cup Writes]
  /\ want \in [Workers -> SUBSET CIDRs]
  /\ result \in [Workers -> {"none", "ok", "error"}]
  /\ persisted \subseteq SUBSET CIDRs /\ cutShort \subseteq SUBSET CIDRs

(* "Store the IP ranges in a ConfigMap for persistence", then apply the    *)
(* EnvoyFilter: no list is ever trusted or remembered that the ConfigMap   *)
(* has not held, whoever else writes and whatever fails in between.  (The  *)
(* cache is also empty when there was nothing to read.)                    *)
PersistBeforeTrust ==
  /\ envoyFilter \in persisted \cup {Absent}
  /\ cachedData \in persisted \cup {Absent, {}}

(* While one worker at a time applies lists and nobody else edits the      *)
(* ConfigMap, a call that returns nil for a list that is not empty leaves  *)
(* that list in the EnvoyFilter, also when the diff said that there was    *)
(* nothing to do, with one exception: an earlier call for the same list    *)
(* has written the ConfigMap and ended, with an error or with the process, *)
(* before the EnvoyFilter was written (lines 226-232).  All requests may   *)
(* be rejected, all responses lost and the process restarted at any time.  *)
SuccessMeansTrusted ==
  \A w \in Workers :
    result[w] = "ok" /\ Enforceable(want[w]) =>
      envoyFilter = want[w] \/ want[w] \in cutShort

(* "Regular checks ensure configurations stay in sync" (src/README.md:26): *)
(* the same without the exception.  A check that finds nothing to do finds *)
(* its list in the EnvoyFilter.                                            *)
SuccessMeansInForce ==
  \A w \in Workers :
    result[w] = "ok" /\ Enforceable(want[w]) => envoyFilter = want[w]

(* Every call of ApplyIPRanges returns, whoever holds the cache's lock and *)
(* whatever the ConfigMap contains.                                        *)
ApplyReturns == \A w \in Workers : pc[w] # "idle" ~> pc[w] = "idle"

=============================================================================
