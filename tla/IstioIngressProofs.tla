------------------------- MODULE IstioIngressProofs -------------------------
(***************************************************************************)
(* What an IstioIngress trusts has been persisted, for any number of       *)
(* workers, any lists, and whatever is rejected, lost, tampered with or    *)
(* interrupted by a restart; and a single worker whose call succeeds has   *)
(* what it asks for in the EnvoyFilter, unless an earlier call for the     *)
(* same list was cut short.                                                *)
(***************************************************************************)
EXTENDS IstioIngress, TLAPS

-----------------------------------------------------------------------------
(* Types, and who holds the lock.                                          *)

PCs == {"idle", "read", "lock", "fill", "store", "cmGet", "efGet"} \cup Writes

(* A worker that neither holds the lock nor takes it moves.                *)
LEMMA MoveTyped ==
  ASSUME TypeOK, NEW w \in Workers, pc[w] # "fill", UNCHANGED <<cacheMutex, want>>,
         NEW step \in PCs \ {"fill"}, pc' = [pc EXCEPT ![w] = step],
         NEW outcome \in {"none", "ok", "error"},
         result' \in {result, [result EXCEPT ![w] = outcome]}
  PROVE  /\ cacheMutex' \in Workers \cup {Nobody}
         /\ \A v \in Workers : cacheMutex' = v <=> pc'[v] = "fill"
         /\ pc' \in [Workers -> PCs]
         /\ want' \in [Workers -> SUBSET CIDRs]
         /\ result' \in [Workers -> {"none", "ok", "error"}]
BY DEF TypeOK, PCs

(* Goto and Return are such moves.                                         *)
LEMMA GotoTyped ==
  ASSUME TypeOK, NEW w \in Workers, pc[w] # "fill", UNCHANGED cacheMutex,
         \/ \E step \in PCs \ {"fill"} : Goto(w, step)
         \/ \E outcome \in {"ok", "error"} : Return(w, outcome)
  PROVE  /\ cacheMutex' \in Workers \cup {Nobody}
         /\ \A v \in Workers : cacheMutex' = v <=> pc'[v] = "fill"
         /\ pc' \in [Workers -> PCs]
         /\ want' \in [Workers -> SUBSET CIDRs]
         /\ result' \in [Workers -> {"none", "ok", "error"}]
<1>1. CASE \E step \in PCs \ {"fill"} : Goto(w, step)
  BY <1>1, MoveTyped DEF Goto
<1>2. CASE \E outcome \in {"ok", "error"} : Return(w, outcome)
  <2>1. "idle" \in PCs \ {"fill"}
    BY DEF PCs
  <2> QED BY <1>2, <2>1, MoveTyped DEF Return
<1> QED BY <1>1, <1>2

(* What TypeOK says of the objects and of the cache's contents.            *)
LEMMA StepTyped ==
  ASSUME TypeOK, NEW w \in Workers, Step(w)
  PROVE  TypeOK'
<1>1. CASE ReadCache(w)
  BY <1>1, GotoTyped DEF ReadCache, Compare, objects, cache, TypeOK, PCs, Writes
<1>2. CASE LockCache(w)
  <2>1. CASE CacheIsValid
    BY <1>2, <2>1, GotoTyped DEF LockCache, Compare, objects, TypeOK, PCs, Writes
  <2>2. CASE ~CacheIsValid
    BY <1>2, <2>2, ConstantsAssumption DEF LockCache, Goto, objects, TypeOK
  <2> QED BY <2>1, <2>2
<1>3. CASE FillCache(w)
  <2>1. pc[w] = "fill" /\ cacheMutex = w /\ cacheMutex' = Nobody
    BY <1>3 DEF FillCache, FillFails, TypeOK
  <2>2. cachedData' \in {Absent} \cup SUBSET CIDRs /\ fresh' \in BOOLEAN
    BY <1>3 DEF FillCache, Remember, TypeOK
  <2>3. PICK step \in {"idle", "cmGet"} : pc' = [pc EXCEPT ![w] = step]
    BY <1>3 DEF FillCache, FillFails, Compare, Goto, Return
  <2>4. /\ pc' \in [Workers -> PCs]
        /\ \A v \in Workers : cacheMutex' = v <=> pc'[v] = "fill"
    BY <2>1, <2>3, ConstantsAssumption DEF TypeOK, PCs
  <2>5. /\ want' \in [Workers -> SUBSET CIDRs]
        /\ result' \in [Workers -> {"none", "ok", "error"}]
    BY <1>3 DEF FillCache, FillFails, Compare, Goto, Return, TypeOK
  <2> QED BY <1>3, <2>1, <2>2, <2>4, <2>5 DEF FillCache, objects, TypeOK, PCs
<1>4. CASE GetConfigMap(w)
  BY <1>4, GotoTyped DEF GetConfigMap, cache, TypeOK, PCs, Writes
<1>5. ASSUME NEW request \in {"cmCreate", "cmUpdate"}, NEW allowed,
             WriteConfigMap(w, request, allowed)
      PROVE  TypeOK'
  <2>1. UNCHANGED <<envoyFilter, efCurrent, cache>> /\ pc[w] # "fill"
    BY <1>5 DEF WriteConfigMap
  <2>2. /\ configMap' \in {Absent, Garbled} \cup SUBSET CIDRs
        /\ persisted' \subseteq SUBSET CIDRs /\ cutShort' \subseteq SUBSET CIDRs
        /\ cmCurrent' \subseteq Workers
    BY <1>5 DEF WriteConfigMap, PutConfigMap, CutShort, TypeOK
  <2>3. Goto(w, "store") \/ Return(w, "error")
    BY <1>5 DEF WriteConfigMap, ConfigMapRefused
  <2> QED BY <2>1, <2>2, <2>3, GotoTyped DEF cache, TypeOK, PCs
<1>6. CASE StoreCache(w)
  BY <1>6, GotoTyped DEF StoreCache, Remember, TypeOK, PCs
<1>7. CASE GetEnvoyFilter(w)
  BY <1>7, GotoTyped DEF GetEnvoyFilter, cache, TypeOK, PCs, Writes
<1>8. ASSUME NEW request \in {"efCreate", "efUpdate"}, NEW allowed,
             WriteEnvoyFilter(w, request, allowed)
      PROVE  TypeOK'
  <2>1. UNCHANGED <<configMap, cmCurrent, persisted, cache>> /\ pc[w] # "fill"
    BY <1>8 DEF WriteEnvoyFilter
  <2>2. /\ envoyFilter' \in {Absent} \cup SUBSET CIDRs
        /\ efCurrent' \subseteq Workers /\ cutShort' \subseteq SUBSET CIDRs
    BY <1>8 DEF WriteEnvoyFilter, CutShort, TypeOK
  <2>3. Return(w, "ok") \/ Return(w, "error")
    BY <1>8 DEF WriteEnvoyFilter
  <2> QED BY <2>1, <2>2, <2>3, GotoTyped DEF cache, TypeOK, PCs
<1> QED BY <1>1, <1>2, <1>3, <1>4, <1>5, <1>6, <1>7, <1>8
        DEF Step, CreateConfigMap, UpdateConfigMap, CreateEnvoyFilter, UpdateEnvoyFilter

(* Everything else that happens keeps the types.                           *)
LEMMA NextTyped ==
  ASSUME TypeOK, [Next]_vars
  PROVE  TypeOK'
<1>1. ASSUME NEW w \in Workers, NEW ranges \in Wanted, ApplyIPRanges(w, ranges)
      PROVE  TypeOK'
  BY <1>1, ConstantsAssumption DEF ApplyIPRanges, objects, cache, TypeOK
<1>2. CASE Expire
  BY <1>2 DEF Expire, objects, calls, TypeOK
<1>3. CASE TamperWithConfigMap
  BY <1>3, ConstantsAssumption DEF TamperWithConfigMap, cache, calls, TypeOK
<1>4. CASE Restart
  <2>1. cutShort' \subseteq SUBSET CIDRs
    BY <1>4 DEF Restart, CutShort, TypeOK
  <2> QED BY <1>4, <2>1, ConstantsAssumption DEF Restart, TypeOK
<1>5. CASE UNCHANGED vars
  BY <1>5 DEF vars, objects, cache, calls, TypeOK
<1> QED BY <1>1, <1>2, <1>3, <1>4, <1>5, StepTyped DEF Next

(* In every behaviour the variables have their types and cacheMutex is     *)
(* held by the worker that fetches, by nobody otherwise.                   *)
THEOREM TypeCorrect == Spec => []TypeOK
<1>1. Init => TypeOK
  BY ConstantsAssumption DEF Init, Start, TypeOK
<1> QED BY <1>1, NextTyped, PTL DEF Spec

-----------------------------------------------------------------------------
(* Persistence.                                                            *)

(* What FillCache finds in the ConfigMap was written to it.                *)
FoundWasPersisted == configMap \in persisted \cup {Absent, Garbled}

(* A worker that is past updateConfigMap has written its list.             *)
AppliedWasPersisted ==
  \A w \in Workers :
    pc[w] \in {"store", "efGet", "efCreate", "efUpdate"} => want[w] \in persisted

IInv == FoundWasPersisted /\ AppliedWasPersisted /\ PersistBeforeTrust

(* The types of the calls are all that the argument needs of TypeOK.       *)
CallsOK ==
  /\ pc \in [Workers -> {"idle", "read", "lock", "fill", "store", "cmGet", "efGet"} \cup Writes]
  /\ want \in [Workers -> SUBSET CIDRs]

(* A worker that moves without touching the objects or the cache, and not  *)
(* past updateConfigMap.                                                   *)
Elsewhere == {"idle", "read", "lock", "fill", "cmGet", "cmCreate", "cmUpdate"}

(* A worker that moves, past updateConfigMap only with a list that is      *)
(* persisted.                                                              *)
LEMMA GotoKeeps ==
  ASSUME CallsOK, AppliedWasPersisted, persisted \subseteq persisted',
         NEW w \in Workers, NEW step, UNCHANGED want,
         step \in Elsewhere \/ step \in {"store", "efGet", "efCreate", "efUpdate"},
         step \in Elsewhere \/ want[w] \in persisted',
         pc' = [pc EXCEPT ![w] = step]
  PROVE  CallsOK' /\ AppliedWasPersisted'
BY DEF CallsOK, AppliedWasPersisted, Elsewhere, Writes

(* A call that starts has persisted nothing yet.                           *)
LEMMA ApplyIPRangesKeeps ==
  ASSUME CallsOK, IInv, NEW w \in Workers, NEW ranges \in Wanted, ApplyIPRanges(w, ranges)
  PROVE  CallsOK' /\ IInv'
<1>1. /\ pc' = [pc EXCEPT ![w] = "read"] /\ want' = [want EXCEPT ![w] = ranges]
      /\ UNCHANGED <<configMap, envoyFilter, persisted, cachedData>>
  BY DEF ApplyIPRanges, cache
<1>2. CallsOK' /\ AppliedWasPersisted'
  BY <1>1, ConstantsAssumption DEF CallsOK, IInv, AppliedWasPersisted
<1> QED BY <1>1, <1>2 DEF IInv, FoundWasPersisted, PersistBeforeTrust

(* A look at the cache.                                                    *)
LEMMA LookKeeps ==
  ASSUME CallsOK, IInv, NEW w \in Workers, ReadCache(w) \/ LockCache(w)
  PROVE  CallsOK' /\ IInv'
<1>1. UNCHANGED <<objects, cachedData>>
  BY DEF ReadCache, LockCache, cache
<1>2. PICK step \in Elsewhere : pc' = [pc EXCEPT ![w] = step] /\ UNCHANGED want
  BY DEF ReadCache, LockCache, Compare, Goto, Return, Elsewhere
<1>3. CallsOK' /\ AppliedWasPersisted'
  BY <1>1, <1>2, GotoKeeps DEF IInv, objects
<1> QED BY <1>1, <1>3 DEF IInv, FoundWasPersisted, PersistBeforeTrust, objects

(* What is remembered is what the ConfigMap contains, or nothing.          *)
LEMMA FillCacheKeeps ==
  ASSUME CallsOK, IInv, NEW w \in Workers, FillCache(w)
  PROVE  CallsOK' /\ IInv'
<1>1. UNCHANGED objects
  BY DEF FillCache
<1>2. PICK step \in Elsewhere : pc' = [pc EXCEPT ![w] = step] /\ UNCHANGED want
  BY DEF FillCache, FillFails, Compare, Goto, Return, Elsewhere
<1>3. CallsOK' /\ AppliedWasPersisted'
  BY <1>1, <1>2, GotoKeeps DEF IInv, objects
<1>4. cachedData' \in persisted \cup {Absent, {}}
  BY DEF FillCache, Remember, IInv, FoundWasPersisted, PersistBeforeTrust
<1> QED BY <1>1, <1>3, <1>4 DEF IInv, FoundWasPersisted, PersistBeforeTrust, objects

(* The two Gets choose between Create and Update.                          *)
LEMMA GetsKeep ==
  ASSUME CallsOK, IInv, NEW w \in Workers, GetConfigMap(w) \/ GetEnvoyFilter(w)
  PROVE  CallsOK' /\ IInv'
<1>1. UNCHANGED <<configMap, envoyFilter, persisted, cache>>
  BY DEF GetConfigMap, GetEnvoyFilter
<1>2. CallsOK' /\ AppliedWasPersisted'
  <2>1. CASE GetConfigMap(w)
    <3>1. PICK step \in Elsewhere : pc' = [pc EXCEPT ![w] = step] /\ UNCHANGED want
      BY <2>1 DEF GetConfigMap, Goto, Elsewhere
    <3> QED BY <1>1, <3>1, GotoKeeps DEF IInv
  <2>2. CASE GetEnvoyFilter(w)
    <3>1. want[w] \in persisted
      BY <2>2 DEF GetEnvoyFilter, IInv, AppliedWasPersisted
    <3>2. PICK step \in {"efCreate", "efUpdate"} :
            pc' = [pc EXCEPT ![w] = step] /\ UNCHANGED want
      BY <2>2 DEF GetEnvoyFilter, Goto
    <3> QED BY <1>1, <3>1, <3>2, GotoKeeps DEF IInv
  <2> QED BY <2>1, <2>2
<1> QED BY <1>1, <1>2 DEF IInv, FoundWasPersisted, PersistBeforeTrust, cache

(* A write of the ConfigMap is recorded before the worker goes on, and a   *)
(* refused one ends the call.                                              *)
LEMMA WriteConfigMapKeeps ==
  ASSUME CallsOK, IInv, NEW w \in Workers, NEW request, NEW allowed,
         WriteConfigMap(w, request, allowed)
  PROVE  CallsOK' /\ IInv'
<1>1. UNCHANGED <<envoyFilter, cachedData, want>>
  BY DEF WriteConfigMap, ConfigMapRefused, Goto, Return, cache
<1>2. CASE PutConfigMap(w, want[w]) /\ (Goto(w, "store") \/ Return(w, "error"))
  <2>1. configMap' = want[w] /\ persisted' = persisted \cup {want[w]}
    BY <1>2 DEF PutConfigMap
  <2>2. CallsOK' /\ AppliedWasPersisted'
    <3>1. PICK step \in {"store", "idle"} : pc' = [pc EXCEPT ![w] = step]
      BY <1>2 DEF Goto, Return
    <3> QED BY <1>1, <2>1, <3>1, GotoKeeps DEF IInv, Elsewhere
  <2> QED BY <1>1, <2>1, <2>2 DEF IInv, FoundWasPersisted, PersistBeforeTrust
<1>3. CASE ConfigMapRefused(w) /\ UNCHANGED <<configMap, persisted>>
  <2>1. pc' = [pc EXCEPT ![w] = "idle"]
    BY <1>3 DEF ConfigMapRefused, Return
  <2>2. CallsOK' /\ AppliedWasPersisted'
    BY <1>1, <1>3, <2>1, GotoKeeps DEF IInv, Elsewhere
  <2> QED BY <1>1, <1>3, <2>2 DEF IInv, FoundWasPersisted, PersistBeforeTrust
<1> QED BY <1>2, <1>3 DEF WriteConfigMap

(* What is remembered after updateConfigMap is the list just written.      *)
LEMMA StoreCacheKeeps ==
  ASSUME CallsOK, IInv, NEW w \in Workers, StoreCache(w)
  PROVE  CallsOK' /\ IInv'
<1>1. /\ want[w] \in persisted /\ UNCHANGED <<configMap, envoyFilter, persisted>>
      /\ cachedData' = want[w]
  BY DEF StoreCache, Remember, IInv, AppliedWasPersisted
<1>2. PICK step \in {"efGet", "idle"} : pc' = [pc EXCEPT ![w] = step] /\ UNCHANGED want
  BY DEF StoreCache, Goto, Return
<1>3. CallsOK' /\ AppliedWasPersisted'
  BY <1>1, <1>2, GotoKeeps DEF IInv, Elsewhere
<1> QED BY <1>1, <1>3 DEF IInv, FoundWasPersisted, PersistBeforeTrust

(* The EnvoyFilter gets the list of a worker that has persisted it.        *)
LEMMA WriteEnvoyFilterKeeps ==
  ASSUME CallsOK, IInv, NEW w \in Workers, NEW request \in {"efCreate", "efUpdate"},
         NEW allowed, WriteEnvoyFilter(w, request, allowed)
  PROVE  CallsOK' /\ IInv'
<1>1. want[w] \in persisted
  BY DEF WriteEnvoyFilter, IInv, AppliedWasPersisted
<1>2. /\ pc' = [pc EXCEPT ![w] = "idle"]
      /\ UNCHANGED <<want, configMap, persisted, cache>>
      /\ envoyFilter' \in {envoyFilter, want[w]}
  BY DEF WriteEnvoyFilter, Return
<1>3. CallsOK' /\ AppliedWasPersisted'
  BY <1>2, GotoKeeps DEF IInv, Elsewhere
<1> QED BY <1>1, <1>2, <1>3 DEF IInv, FoundWasPersisted, PersistBeforeTrust, cache

(* A restart forgets what the process knew, not what was persisted.        *)
LEMMA RestartKeeps ==
  ASSUME CallsOK, IInv, Restart
  PROVE  CallsOK' /\ IInv'
BY DEF Restart, CallsOK, IInv, FoundWasPersisted, AppliedWasPersisted, PersistBeforeTrust

(* In every behaviour the EnvoyFilter trusts only lists that have been in  *)
(* the ConfigMap, and the cache remembers only such lists.                 *)
THEOREM Persistence == Spec => []PersistBeforeTrust
<1>1. ASSUME Init PROVE CallsOK /\ IInv
  BY <1>1 DEF Init, Start, CallsOK, IInv, FoundWasPersisted, AppliedWasPersisted,
              PersistBeforeTrust
<1>2. ASSUME CallsOK, IInv, [Next]_vars PROVE CallsOK' /\ IInv'
  <2>1. ASSUME NEW w \in Workers, Step(w) PROVE CallsOK' /\ IInv'
    BY <1>2, <2>1, LookKeeps, FillCacheKeeps, GetsKeep, WriteConfigMapKeeps,
       StoreCacheKeeps, WriteEnvoyFilterKeeps
       DEF Step, CreateConfigMap, UpdateConfigMap, CreateEnvoyFilter, UpdateEnvoyFilter
  <2>2. ASSUME NEW w \in Workers, NEW ranges \in Wanted, ApplyIPRanges(w, ranges)
        PROVE  CallsOK' /\ IInv'
    BY <1>2, <2>2, ApplyIPRangesKeeps
  <2>3. CASE Expire
    BY <1>2, <2>3 DEF Expire, objects, calls, CallsOK, IInv, FoundWasPersisted,
                      AppliedWasPersisted, PersistBeforeTrust
  <2>4. CASE TamperWithConfigMap
    BY <1>2, <2>4 DEF TamperWithConfigMap, cache, calls, CallsOK, IInv,
                      FoundWasPersisted, AppliedWasPersisted, PersistBeforeTrust
  <2>5. CASE Restart
    BY <1>2, <2>5, RestartKeeps
  <2>6. CASE UNCHANGED vars
    BY <1>2, <2>6 DEF vars, objects, cache, calls, CallsOK, IInv, FoundWasPersisted,
                      AppliedWasPersisted, PersistBeforeTrust
  <2> QED BY <1>2, <2>1, <2>2, <2>3, <2>4, <2>5, <2>6 DEF Next
<1>3. IInv => PersistBeforeTrust
  BY DEF IInv
<1> QED BY <1>1, <1>2, <1>3, PTL DEF Spec

-----------------------------------------------------------------------------
(* A worker that is alone.                                                 *)

(* One worker, and nobody else who writes the ConfigMap.                   *)
Alone == (\A v, w \in Workers : v = w) /\ ~Tampering

(* A list that makes ApplyIPRanges believe there is nothing to do, rightly *)
(* or because a call for it was cut short.                                 *)
Believable(ranges) == ranges \in {Absent, {}, envoyFilter} \cup cutShort

AtEnvoyFilter == {"efGet", "efCreate", "efUpdate"}

(* Between calls, and until a call has written the ConfigMap, the cache    *)
(* and the ConfigMap can be believed; from then on they are ahead of the   *)
(* EnvoyFilter.                                                            *)
Consistent(w) ==
  /\ pc[w] # "idle" => result[w] = "none"
  /\ pc[w] \in Elsewhere => Believable(cachedData) /\ Believable(configMap)
  /\ pc[w] \in PastConfigMap => configMap = want[w]
  /\ pc[w] \in AtEnvoyFilter => cachedData = want[w]

AInv ==
  /\ configMap # Garbled
  /\ \A w \in Workers : Consistent(w)
  /\ SuccessMeansTrusted

(* A worker that is alone is consistent after its step if it is where the  *)
(* lists that can be believed are, and reports no more than that.          *)
LEMMA ConsistentAlone ==
  ASSUME Alone, NEW w \in Workers, Consistent(w)', configMap' # Garbled,
         result'[w] = "ok" /\ want'[w] # {} =>
           envoyFilter' = want'[w] \/ want'[w] \in cutShort'
  PROVE  AInv'
BY DEF Alone, AInv, SuccessMeansTrusted, Enforceable

(* The end of a look at the cache or at the ConfigMap: a list that can be  *)
(* believed and is the one wanted is in force or was cut short.            *)
LEMMA CompareKeeps ==
  ASSUME Alone, TypeOK, AInv, NEW w \in Workers, pc[w] \in Elsewhere \ {"idle"},
         NEW current \in SUBSET CIDRs, Believable(current), Compare(w, current),
         cachedData' \in {cachedData, current}, UNCHANGED <<configMap, envoyFilter, cutShort>>
  PROVE  AInv'
<1>1. Consistent(w)
  BY DEF AInv
<1>2. CASE current = want[w]
  <2>1. Return(w, "ok")
    BY <1>2 DEF Compare
  <2>2. Consistent(w)'
    BY <1>1, <2>1
       DEF Consistent, Believable, Return, TypeOK, Elsewhere, AtEnvoyFilter, PastConfigMap
  <2>3. want'[w] # {} => envoyFilter' = want'[w] \/ want'[w] \in cutShort'
    BY <1>2, <2>1, ConstantsAssumption DEF Return, Believable
  <2> QED BY <2>2, <2>3, ConsistentAlone DEF AInv
<1>3. CASE current # want[w]
  <2>1. Goto(w, "cmGet")
    BY <1>3 DEF Compare
  <2>2. Consistent(w)' /\ result'[w] = "none"
    BY <1>1, <2>1
       DEF Consistent, Believable, Goto, TypeOK, Elsewhere, AtEnvoyFilter, PastConfigMap
  <2> QED BY <2>2, ConsistentAlone DEF AInv
<1> QED BY <1>2, <1>3

(* A move that leaves objects and cached list alone and does not succeed.  *)
LEMMA MoveKeeps ==
  ASSUME Alone, TypeOK, AInv, NEW w \in Workers, pc[w] \in Elsewhere \ {"idle"},
         (\E step \in Elsewhere \ {"idle"} : Goto(w, step)) \/ Return(w, "error"),
         UNCHANGED <<configMap, envoyFilter, cachedData, cutShort>>
  PROVE  AInv'
<1>1. Consistent(w)
  BY DEF AInv
<1>2. CASE \E step \in Elsewhere \ {"idle"} : Goto(w, step)
  <2>1. Consistent(w)' /\ result'[w] = "none"
    BY <1>1, <1>2
       DEF Consistent, Believable, Goto, TypeOK, Elsewhere, AtEnvoyFilter, PastConfigMap
  <2> QED BY <2>1, ConsistentAlone DEF AInv
<1>3. CASE Return(w, "error")
  <2>1. Consistent(w)' /\ result'[w] = "error"
    BY <1>1, <1>3
       DEF Consistent, Believable, Return, TypeOK, Elsewhere, AtEnvoyFilter, PastConfigMap
  <2> QED BY <2>1, ConsistentAlone DEF AInv
<1> QED BY <1>2, <1>3

(* A look at the cache, under the read lock or the write lock.             *)
LEMMA LookKeepsAlone ==
  ASSUME Alone, TypeOK, AInv, NEW w \in Workers, ReadCache(w) \/ LockCache(w)
  PROVE  AInv'
<1>1. pc[w] \in Elsewhere \ {"idle"} /\ UNCHANGED <<objects, cachedData>>
  BY DEF ReadCache, LockCache, Elsewhere, cache
<1>2. CASE CacheIsValid
  <2>1. cachedData \in SUBSET CIDRs /\ Believable(cachedData)
    BY <1>1, <1>2 DEF CacheIsValid, TypeOK, AInv, Consistent
  <2>2. Compare(w, cachedData)
    BY <1>2 DEF ReadCache, LockCache
  <2> QED BY <1>1, <2>1, <2>2, CompareKeeps DEF objects
<1>3. CASE ~CacheIsValid
  <2>1. Goto(w, "lock") \/ Goto(w, "fill")
    BY <1>3 DEF ReadCache, LockCache
  <2> QED BY <1>1, <2>1, MoveKeeps DEF objects, Elsewhere
<1> QED BY <1>2, <1>3

(* What is read from the ConfigMap is as believable as the ConfigMap.      *)
LEMMA FillCacheKeepsAlone ==
  ASSUME Alone, TypeOK, AInv, NEW w \in Workers, FillCache(w)
  PROVE  AInv'
<1>1. pc[w] \in Elsewhere \ {"idle"} /\ UNCHANGED objects
  BY DEF FillCache, Elsewhere
<1>2. PICK current \in {{}, configMap} \cap SUBSET CIDRs :
        Compare(w, current) /\ cachedData' = current
  BY DEF FillCache, Remember, TypeOK, AInv
<1>3. Believable(current)
  BY <1>1, <1>2 DEF AInv, Consistent, Believable
<1> QED BY <1>1, <1>2, <1>3, CompareKeeps DEF objects

(* A write of the ConfigMap either goes on to the EnvoyFilter, or is cut   *)
(* short, or has no effect.                                                *)
LEMMA WriteConfigMapKeepsAlone ==
  ASSUME Alone, TypeOK, AInv, NEW w \in Workers, NEW request \in {"cmCreate", "cmUpdate"},
         NEW allowed, WriteConfigMap(w, request, allowed)
  PROVE  AInv'
<1>1. Consistent(w)
  BY DEF AInv
<1>2. pc[w] \in Elsewhere \ {"idle"} /\ UNCHANGED <<envoyFilter, cachedData>>
  BY DEF WriteConfigMap, Elsewhere, cache
<1>3. CASE PutConfigMap(w, want[w]) /\ Goto(w, "store")
  <2>1. configMap' = want[w] /\ want'[w] = want[w] /\ pc'[w] = "store" /\ result'[w] = "none"
    BY <1>1, <1>2, <1>3 DEF PutConfigMap, Goto, TypeOK, Consistent
  <2>2. Consistent(w)' /\ configMap' # Garbled
    BY <2>1, ConstantsAssumption
       DEF Consistent, Elsewhere, AtEnvoyFilter, PastConfigMap, TypeOK
  <2> QED BY <2>1, <2>2, ConsistentAlone
<1>4. CASE PutConfigMap(w, want[w]) /\ Return(w, "error") /\ CutShort({want[w]})
  <2>1. /\ configMap' = want[w] /\ want' = want /\ pc'[w] = "idle" /\ result'[w] = "error"
        /\ cutShort \subseteq cutShort' /\ want[w] \in cutShort' \cup {{}}
    BY <1>4 DEF PutConfigMap, Return, CutShort, TypeOK
  <2>2. Consistent(w)' /\ configMap' # Garbled
    BY <1>1, <1>2, <2>1, ConstantsAssumption
       DEF Consistent, Believable, Elsewhere, AtEnvoyFilter, PastConfigMap, TypeOK
  <2> QED BY <2>1, <2>2, ConsistentAlone
<1>5. CASE ConfigMapRefused(w) /\ UNCHANGED <<configMap, cutShort>>
  BY <1>2, <1>5, MoveKeeps DEF ConfigMapRefused
<1> QED BY <1>3, <1>4, <1>5 DEF WriteConfigMap

(* Once the cache is stored it agrees with the ConfigMap, and no list that *)
(* was cut short is left in either.                                        *)
LEMMA StoreCacheKeepsAlone ==
  ASSUME Alone, XForwardedFor, TypeOK, AInv, NEW w \in Workers, StoreCache(w)
  PROVE  AInv'
<1>1. /\ cachedData' = want[w] /\ UNCHANGED <<configMap, envoyFilter>>
      /\ configMap = want[w] /\ result[w] = "none" /\ configMap # Garbled
  BY DEF StoreCache, Remember, AInv, Consistent, PastConfigMap
<1>2. CASE want[w] # {}
  <2>1. Goto(w, "efGet")
    BY <1>2 DEF StoreCache, Enforceable
  <2>2. Consistent(w)' /\ result'[w] = "none"
    BY <1>1, <2>1 DEF Goto, Consistent, Elsewhere, AtEnvoyFilter, PastConfigMap, TypeOK
  <2> QED BY <1>1, <2>2, ConsistentAlone
<1>3. CASE want[w] = {}
  <2>1. Return(w, "ok")
    BY <1>3 DEF StoreCache, Enforceable
  <2>2. Consistent(w)' /\ want'[w] = {}
    BY <1>1, <1>3, <2>1
       DEF Return, Consistent, Believable, Elsewhere, AtEnvoyFilter, PastConfigMap, TypeOK
  <2> QED BY <1>1, <2>2, ConsistentAlone
<1> QED BY <1>2, <1>3

(* The write of the EnvoyFilter succeeds, or its list is cut short.        *)
LEMMA WriteEnvoyFilterKeepsAlone ==
  ASSUME Alone, TypeOK, AInv, NEW w \in Workers, NEW request \in {"efCreate", "efUpdate"},
         NEW allowed, WriteEnvoyFilter(w, request, allowed)
  PROVE  AInv'
<1>1. /\ pc[w] = request /\ UNCHANGED <<configMap, cache, want>>
      /\ cachedData = want[w] /\ configMap = want[w] /\ configMap # Garbled
      /\ pc' = [pc EXCEPT ![w] = "idle"]
      /\ \/ envoyFilter' = want[w]
         \/ want[w] \in cutShort' \cup {{}} /\ Return(w, "error")
  BY DEF WriteEnvoyFilter, CutShort, Return, AInv, Consistent, AtEnvoyFilter, PastConfigMap
<1>2. Consistent(w)' /\ (result'[w] = "ok" => envoyFilter' = want'[w])
  BY <1>1 DEF Return, cache, Consistent, Believable, Elsewhere, AtEnvoyFilter,
              PastConfigMap, TypeOK
<1> QED BY <1>1, <1>2, ConsistentAlone

(* Each step of ApplyIPRanges.                                             *)
LEMMA AloneStep ==
  ASSUME Alone, XForwardedFor, TypeOK, AInv, NEW w \in Workers, Step(w)
  PROVE  AInv'
<1>1. CASE GetConfigMap(w)
  BY <1>1, MoveKeeps DEF GetConfigMap, Elsewhere, cache
<1>2. CASE GetEnvoyFilter(w)
  <2>1. /\ UNCHANGED <<configMap, cachedData, want, result>> /\ pc[w] = "efGet"
        /\ pc'[w] \in {"efCreate", "efUpdate"}
    BY <1>2 DEF GetEnvoyFilter, Goto, cache, TypeOK
  <2>2. Consistent(w)' /\ result'[w] = "none" /\ configMap # Garbled
    BY <2>1 DEF AInv, Consistent, Elsewhere, AtEnvoyFilter, PastConfigMap
  <2> QED BY <2>1, <2>2, ConsistentAlone
<1> QED BY <1>1, <1>2, LookKeepsAlone, FillCacheKeepsAlone, WriteConfigMapKeepsAlone,
           StoreCacheKeepsAlone, WriteEnvoyFilterKeepsAlone
        DEF Step, CreateConfigMap, UpdateConfigMap, CreateEnvoyFilter, UpdateEnvoyFilter

(* A call that begins has not reported anything.                           *)
LEMMA AloneCall ==
  ASSUME Alone, TypeOK, AInv, NEW w \in Workers, NEW ranges, ApplyIPRanges(w, ranges)
  PROVE  AInv'
<1>1. Consistent(w)' /\ result'[w] = "none" /\ configMap' # Garbled
  BY DEF ApplyIPRanges, objects, cache, AInv, Consistent, Believable, Elsewhere,
         AtEnvoyFilter, PastConfigMap, TypeOK
<1> QED BY <1>1, ConsistentAlone

(* The process is restarted: a list that only the ConfigMap had is one     *)
(* whose call was cut short.                                               *)
LEMMA AloneRestart ==
  ASSUME Alone, TypeOK, AInv, Restart
  PROVE  AInv'
<1>1. /\ cachedData' = Absent /\ UNCHANGED <<configMap, envoyFilter>>
      /\ cutShort \subseteq cutShort'
      /\ \A w \in Workers : pc[w] \in PastConfigMap => want[w] \in cutShort' \cup {{}}
      /\ pc' = [w \in Workers |-> "idle"] /\ result' = [w \in Workers |-> "none"]
      /\ configMap # Garbled
  BY DEF Restart, CutShort, AInv
<1>2. ASSUME NEW w \in Workers PROVE Consistent(w)'
  <2>1. pc[w] \in Elsewhere \cup PastConfigMap /\ Consistent(w)
    BY DEF TypeOK, AInv, Elsewhere, PastConfigMap, Writes
  <2>2. Believable(configMap)'
    BY <1>1, <2>1 DEF Consistent, Believable
  <2> QED BY <1>1, <2>2 DEF Consistent, Believable, AtEnvoyFilter, PastConfigMap
<1> QED BY <1>1, <1>2 DEF AInv, SuccessMeansTrusted

(* The cache expires.                                                      *)
LEMMA AloneExpire ==
  ASSUME AInv, Expire
  PROVE  AInv'
BY DEF Expire, objects, calls, AInv, Consistent, Believable, SuccessMeansTrusted,
       Enforceable

(* One worker, and nobody else who edits the ConfigMap: whichever requests *)
(* are rejected, whichever responses are lost, whenever the cache expires  *)
(* or the process is restarted, a call that returns nil leaves its list in *)
(* the EnvoyFilter, unless an earlier call for that list was cut short     *)
(* between the two writes.                                                 *)
THEOREM TrustAlone ==
  ASSUME Alone
  PROVE  Spec => []SuccessMeansTrusted
<1>1. Spec => []TypeOK
  BY TypeCorrect
<1>2. CASE XForwardedFor
  <2>1. Init => AInv
    BY ConstantsAssumption
       DEF Init, Start, AInv, Consistent, Believable, SuccessMeansTrusted, Elsewhere,
           AtEnvoyFilter, PastConfigMap
  <2>2. TypeOK /\ AInv /\ [Next]_vars => AInv'
    <3>1. CASE UNCHANGED vars
      BY <3>1 DEF vars, objects, cache, calls, AInv, Consistent, Believable,
                  SuccessMeansTrusted, Enforceable
    <3>2. CASE TamperWithConfigMap
      BY <3>2 DEF TamperWithConfigMap, Alone
    <3> QED BY <1>2, <3>1, <3>2, AloneStep, AloneCall, AloneRestart, AloneExpire DEF Next
  <2>3. AInv => SuccessMeansTrusted
    BY DEF AInv
  <2> QED BY <1>1, <2>1, <2>2, <2>3, PTL DEF Spec
<1>3. CASE ~XForwardedFor
  <2>1. SuccessMeansTrusted
    BY <1>3 DEF SuccessMeansTrusted, Enforceable
  <2> QED BY <2>1, PTL
<1> QED BY <1>2, <1>3

=============================================================================
