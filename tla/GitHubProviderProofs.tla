------------------------ MODULE GitHubProviderProofs ------------------------
(***************************************************************************)
(* How old a list can be that GitHubProvider returns, for every cacheTTL,  *)
(* every timeout and any number of workers.                                *)
(***************************************************************************)
EXTENDS GitHubProvider, TLAPS

(* The list in a cache that counts as fresh was put together during the    *)
(* request that ended lastFetch ago.                                       *)
CacheAge ==
  cachedData # Absent /\ lastFetch < cacheTTL => cachedData <= lastFetch + Timeout

(* A list on its way was put together after its request was sent.          *)
ResponseAge == \A w \in Workers : pc[w] = "receive" => response[w] <= elapsed[w]

IInv == TypeOK /\ CacheAge /\ ResponseAge /\ BoundedStaleness

PCs == {"idle", "read", "lock", "send", "wait", "receive"}

(* What the assumptions say of the constants.                              *)
LEMMA ConstantsType ==
  /\ cacheTTL \in Nat /\ Timeout \in Nat /\ TooOld \in Nat
  /\ Absent \notin Nat /\ Absent \notin Ages
  /\ cacheTTL + Timeout < TooOld
BY ConstantsAssumption DEF TooOld, Ages

(* A step that leaves the lock and whether w holds it as they are.         *)
LEMMA GotoKeepsLock ==
  ASSUME TypeOK, NEW w \in Workers, NEW step \in PCs, Goto(w, step),
         \/ /\ UNCHANGED cacheMutex
            /\ step \in {"send", "wait", "receive"} <=> cacheMutex = w
         \/ /\ cacheMutex = Nobody /\ cacheMutex' = w /\ step = "send"
         \/ /\ cacheMutex = w /\ cacheMutex' = Nobody /\ step = "idle"
  PROVE  /\ pc' \in [Workers -> PCs]
         /\ cacheMutex' \in {Nobody} \cup Workers
         /\ \A v \in Workers : cacheMutex' = v <=> pc'[v] \in {"send", "wait", "receive"}
<1>1. pc' \in [Workers -> PCs] /\ pc' = [pc EXCEPT ![w] = step]
  BY DEF TypeOK, Goto, PCs
<1>2. ASSUME NEW v \in Workers
      PROVE  cacheMutex' = v <=> pc'[v] \in {"send", "wait", "receive"}
  <2>1. pc[v] \in {"send", "wait", "receive"} <=> cacheMutex = v
    BY DEF TypeOK
  <2>2. pc'[v] = IF v = w THEN step ELSE pc[v]
    BY <1>1 DEF TypeOK
  <2>3. Nobody # v /\ Nobody # w
    BY ConstantsAssumption
  <2> QED BY <2>1, <2>2, <2>3
<1> QED BY <1>1, <1>2 DEF TypeOK

(* What a call returns is in its type and not too old.                     *)
LEMMA HitOK ==
  ASSUME IInv, NEW w \in Workers, CacheIsValid, Hit(w)
  PROVE  /\ result' \in [Workers -> {Absent} \cup Ages] /\ UNCHANGED lastFetch
         /\ BoundedStaleness'
<1>1. cachedData \in Ages /\ cachedData <= lastFetch + Timeout /\ lastFetch < cacheTTL
  BY DEF IInv, TypeOK, CacheAge, CacheIsValid
<1>2. cachedData <= cacheTTL + Timeout
  BY <1>1, ConstantsType DEF IInv, TypeOK, Ages
<1>3. result' = [result EXCEPT ![w] = cachedData] /\ UNCHANGED lastFetch
  BY DEF Hit, Return
<1> QED BY <1>1, <1>2, <1>3 DEF IInv, TypeOK, BoundedStaleness

(* A call that starts or fails returns no list.                            *)
LEMMA ReturnAbsentOK ==
  ASSUME IInv, NEW w \in Workers, result' = [result EXCEPT ![w] = Absent]
  PROVE  result' \in [Workers -> {Absent} \cup Ages] /\ BoundedStaleness'
BY DEF IInv, TypeOK, BoundedStaleness

-----------------------------------------------------------------------------
(* Each step of a call keeps the invariant.                                *)

(* A call that starts.                                                     *)
LEMMA FetchIPRangesKeeps ==
  ASSUME IInv, NEW w \in Workers, FetchIPRanges(w)
  PROVE  IInv'
<1>1. /\ pc' \in [Workers -> PCs]
      /\ \A v \in Workers : cacheMutex = v <=> pc'[v] \in {"send", "wait", "receive"}
  BY GotoKeepsLock DEF FetchIPRanges, IInv, TypeOK, PCs, cache
<1>2. ResponseAge'
  BY DEF FetchIPRanges, Goto, IInv, TypeOK, ResponseAge, request
<1>3. result' \in [Workers -> {Absent} \cup Ages] /\ BoundedStaleness'
  BY ReturnAbsentOK DEF FetchIPRanges
<1> QED BY <1>1, <1>2, <1>3 DEF FetchIPRanges, IInv, TypeOK, CacheAge, PCs, cache, request

(* A look at the cache, without or with the write lock.                    *)
LEMMA LookKeeps ==
  ASSUME IInv, NEW w \in Workers, ReadCache(w) \/ LockCache(w)
  PROVE  IInv'
<1>1. /\ pc[w] \in {"read", "lock"} /\ cacheMutex = Nobody
      /\ UNCHANGED <<cachedData, request>>
  BY DEF ReadCache, LockCache
<1>2. UNCHANGED lastFetch /\ BoundedStaleness' /\ result' \in [Workers -> {Absent} \cup Ages]
  <2>1. CASE CacheIsValid /\ Hit(w)
    BY <2>1, HitOK
  <2>2. CASE UNCHANGED <<lastFetch, result>>
    BY <2>2 DEF IInv, TypeOK, BoundedStaleness
  <2> QED BY <2>1, <2>2 DEF ReadCache, LockCache
<1>3. \/ Goto(w, "idle") /\ UNCHANGED cacheMutex
      \/ Goto(w, "lock") /\ UNCHANGED cacheMutex
      \/ Goto(w, "send") /\ cacheMutex' = w
  BY DEF ReadCache, LockCache, Hit, Return
<1>4. /\ pc' \in [Workers -> PCs]
      /\ cacheMutex' \in {Nobody} \cup Workers
      /\ \A v \in Workers : cacheMutex' = v <=> pc'[v] \in {"send", "wait", "receive"}
  BY <1>1, <1>3, GotoKeepsLock, ConstantsAssumption DEF IInv, PCs
<1>5. ResponseAge'
  BY <1>1, <1>3 DEF Goto, IInv, TypeOK, ResponseAge, request
<1>6. CacheAge'
  BY <1>1, <1>2 DEF IInv, CacheAge
<1> QED BY <1>1, <1>2, <1>4, <1>5, <1>6 DEF IInv, TypeOK, PCs, request

(* The request is sent: its time starts to count.                          *)
LEMMA SendRequestKeeps ==
  ASSUME IInv, NEW w \in Workers, SendRequest(w)
  PROVE  IInv'
<1>1. cacheMutex = w
  BY DEF SendRequest, IInv, TypeOK
<1>2. /\ pc' \in [Workers -> PCs]
      /\ \A v \in Workers : cacheMutex = v <=> pc'[v] \in {"send", "wait", "receive"}
  BY <1>1, GotoKeepsLock DEF SendRequest, IInv, TypeOK, PCs, cache
<1>3. elapsed' \in [Workers -> 0 .. Timeout]
  BY ConstantsType DEF SendRequest, IInv, TypeOK
<1>4. ResponseAge'
  BY DEF SendRequest, Goto, IInv, TypeOK, ResponseAge
<1> QED BY <1>2, <1>3, <1>4
        DEF SendRequest, IInv, TypeOK, CacheAge, BoundedStaleness, PCs, cache

(* The list is put together: its age starts to count, after that of its    *)
(* request.                                                                *)
LEMMA ServerRespondsKeeps ==
  ASSUME IInv, NEW w \in Workers, ServerResponds(w)
  PROVE  IInv'
<1>1. cacheMutex = w
  BY DEF ServerResponds, IInv, TypeOK
<1>2. /\ pc' \in [Workers -> PCs]
      /\ \A v \in Workers : cacheMutex = v <=> pc'[v] \in {"send", "wait", "receive"}
  BY <1>1, GotoKeepsLock DEF ServerResponds, IInv, TypeOK, PCs, cache
<1>3. response' \in [Workers -> 0 .. Timeout]
  BY ConstantsType DEF ServerResponds, IInv, TypeOK
<1>4. ResponseAge'
  BY DEF ServerResponds, Goto, IInv, TypeOK, ResponseAge
<1> QED BY <1>2, <1>3, <1>4
        DEF ServerResponds, IInv, TypeOK, CacheAge, BoundedStaleness, PCs, cache

(* The list that is cached and returned is as old as its response, at      *)
(* most Timeout.                                                           *)
LEMMA ReceiveListKeeps ==
  ASSUME IInv, NEW w \in Workers, ReceiveList(w)
  PROVE  IInv'
<1>1. cacheMutex = w /\ response[w] \in 0 .. Timeout
  BY DEF ReceiveList, IInv, TypeOK
<1>2. /\ pc' \in [Workers -> PCs]
      /\ cacheMutex' \in {Nobody} \cup Workers
      /\ \A v \in Workers : cacheMutex' = v <=> pc'[v] \in {"send", "wait", "receive"}
  BY <1>1, GotoKeepsLock DEF ReceiveList, Return, IInv, PCs
<1>3. response[w] \in Ages /\ response[w] <= cacheTTL + Timeout
  BY <1>1, ConstantsType DEF Ages
<1>4. CacheAge' /\ cachedData' \in {Absent} \cup Ages /\ lastFetch' \in 0 .. cacheTTL
  BY <1>1, <1>3, ConstantsType DEF ReceiveList, CacheAge
<1>5. result' = [result EXCEPT ![w] = response[w]]
  BY DEF ReceiveList, Return
<1>6. result' \in [Workers -> {Absent} \cup Ages] /\ BoundedStaleness'
  BY <1>3, <1>5 DEF IInv, TypeOK, BoundedStaleness
<1>7. ResponseAge' /\ UNCHANGED <<elapsed, response>>
  BY DEF ReceiveList, Return, Goto, IInv, TypeOK, ResponseAge, request
<1> QED BY <1>2, <1>4, <1>6, <1>7 DEF IInv, TypeOK, PCs

(* A request that fails leaves the cache and gives the lock back.          *)
LEMMA RequestFailsKeeps ==
  ASSUME IInv, NEW w \in Workers, RequestFails(w)
  PROVE  IInv'
<1>1. cacheMutex = w
  BY DEF RequestFails, IInv, TypeOK
<1>2. /\ pc' \in [Workers -> PCs]
      /\ cacheMutex' \in {Nobody} \cup Workers
      /\ \A v \in Workers : cacheMutex' = v <=> pc'[v] \in {"send", "wait", "receive"}
  BY <1>1, GotoKeepsLock DEF RequestFails, Fail, Return, IInv, PCs
<1>3. result' \in [Workers -> {Absent} \cup Ages] /\ BoundedStaleness'
  BY ReturnAbsentOK DEF RequestFails, Fail, Return
<1>4. ResponseAge'
  BY DEF RequestFails, Fail, Return, Goto, IInv, TypeOK, ResponseAge, request
<1> QED BY <1>2, <1>3, <1>4 DEF RequestFails, IInv, TypeOK, CacheAge, PCs, request

(* When time passes every age grows by one, those that are compared with   *)
(* each other alike.                                                       *)
LEMMA OlderType ==
  ASSUME NEW bound \in Nat, NEW age \in {Absent} \cup 0 .. bound
  PROVE  /\ Older(age, bound) \in {Absent} \cup 0 .. bound
         /\ age # Absent => Older(age, bound) \in 0 .. bound
         /\ age = Absent <=> Older(age, bound) = Absent
         /\ age \in Nat /\ age < bound => Older(age, bound) = age + 1
         /\ age \in Nat => Older(age, bound) <= age + 1
BY ConstantsType DEF Older

(* A tick of the clock: the timer of the client bounds what is in flight.  *)
LEMMA TickKeeps ==
  ASSUME IInv, Tick
  PROVE  IInv'
<1>1. /\ cachedData' \in {Absent} \cup Ages
      /\ lastFetch' \in 0 .. cacheTTL
  BY OlderType, ConstantsType DEF Tick, IInv, TypeOK, Ages
<1>2. ASSUME NEW w \in Workers
      PROVE  /\ elapsed'[w] \in 0 .. Timeout /\ response'[w] \in 0 .. Timeout
             /\ pc[w] = "receive" => response'[w] <= elapsed'[w]
  <2>1. elapsed[w] \in 0 .. Timeout /\ response[w] \in 0 .. Timeout
    BY DEF IInv, TypeOK
  <2>2. /\ InFlight(w) => elapsed[w] < Timeout
        /\ elapsed'[w] = IF InFlight(w) THEN elapsed[w] + 1 ELSE elapsed[w]
        /\ response'[w] = IF pc[w] = "receive" THEN response[w] + 1 ELSE response[w]
    BY DEF Tick
  <2>3. pc[w] = "receive" => InFlight(w) /\ response[w] <= elapsed[w]
    BY DEF InFlight, IInv, ResponseAge
  <2> QED BY <2>1, <2>2, <2>3, ConstantsType
<1>3. CacheAge'
  <2> SUFFICES ASSUME cachedData' # Absent, lastFetch' < cacheTTL
               PROVE  cachedData' <= lastFetch' + Timeout
    BY DEF CacheAge
  <2>1. cachedData \in Ages /\ lastFetch \in 0 .. cacheTTL
    BY OlderType, ConstantsType DEF Tick, IInv, TypeOK, Ages
  <2>2. lastFetch < cacheTTL /\ lastFetch' = lastFetch + 1
    BY <2>1, ConstantsType DEF Tick, Older
  <2>3. cachedData <= lastFetch + Timeout
    BY <2>1, <2>2, ConstantsType DEF IInv, CacheAge
  <2>4. cachedData' <= cachedData + 1 /\ cachedData' \in Ages
    BY <2>1, ConstantsType, OlderType DEF Tick, Ages
  <2> QED BY <2>1, <2>2, <2>3, <2>4, ConstantsType DEF Ages
<1>4. /\ elapsed' \in [Workers -> 0 .. Timeout]
      /\ response' \in [Workers -> 0 .. Timeout]
  BY <1>2 DEF Tick
<1> QED BY <1>1, <1>2, <1>3, <1>4
        DEF Tick, IInv, TypeOK, ResponseAge, BoundedStaleness

(* The invariant holds throughout, and with it the lock's discipline.      *)
THEOREM Invariant == Spec => []IInv
<1>1. ASSUME Init PROVE IInv
  BY <1>1, ConstantsType, ConstantsAssumption
     DEF Init, IInv, TypeOK, CacheAge, ResponseAge, BoundedStaleness
<1>2. ASSUME IInv, [Next]_vars PROVE IInv'
  <2>1. ASSUME NEW w \in Workers, FetchIPRanges(w) PROVE IInv'
    BY <1>2, <2>1, FetchIPRangesKeeps
  <2>2. ASSUME NEW w \in Workers, Proceed(w) PROVE IInv'
    BY <1>2, <2>2, LookKeeps, SendRequestKeeps DEF Proceed
  <2>3. ASSUME NEW w \in Workers, ServerResponds(w) PROVE IInv'
    BY <1>2, <2>3, ServerRespondsKeeps
  <2>4. ASSUME NEW w \in Workers, ReceiveList(w) PROVE IInv'
    BY <1>2, <2>4, ReceiveListKeeps
  <2>5. ASSUME NEW w \in Workers, RequestFails(w) PROVE IInv'
    BY <1>2, <2>5, RequestFailsKeeps
  <2>6. CASE Tick
    BY <1>2, <2>6, TickKeeps
  <2>7. CASE UNCHANGED vars
    BY <1>2, <2>7 DEF vars, cache, request, IInv, TypeOK, CacheAge, ResponseAge,
                      BoundedStaleness
  <2> QED BY <1>2, <2>1, <2>2, <2>3, <2>4, <2>5, <2>6, <2>7 DEF Next
<1> QED BY <1>1, <1>2, PTL DEF Spec

(* Types and the lock's discipline, for every value of the constants.      *)
THEOREM TypeCorrect == Spec => []TypeOK
<1>1. IInv => TypeOK
  BY DEF IInv
<1> QED BY <1>1, Invariant, PTL

(* For every cacheTTL and timeout and any number of workers, no call       *)
(* returns a list older than cacheTTL and one request.                     *)
THEOREM Staleness == Spec => []BoundedStaleness
<1>1. IInv => BoundedStaleness
  BY DEF IInv
<1> QED BY <1>1, Invariant, PTL

-----------------------------------------------------------------------------
(* While the lock is held the cache is not valid: nobody can fill it.      *)
LockedOnMiss == cacheMutex # Nobody => ~CacheIsValid

(* A cache that is not valid does not become valid by getting older.       *)
LEMMA TickKeepsInvalid ==
  ASSUME TypeOK, Tick, ~CacheIsValid
  PROVE  ~CacheIsValid'
<1>1. CASE cachedData = Absent
  BY <1>1, ConstantsType DEF Tick, Older, CacheIsValid
<1>2. CASE ~(lastFetch < cacheTTL)
  <2>1. lastFetch = cacheTTL
    BY <1>2, ConstantsType DEF TypeOK
  <2>2. lastFetch' = cacheTTL
    BY <2>1 DEF Tick, Older
  <2> QED BY <2>2, ConstantsType DEF CacheIsValid
<1> QED BY <1>1, <1>2 DEF CacheIsValid

(* A request is only made, and only lasts, while the cache is not valid.    *)
LEMMA LockedOnMissKept ==
  ASSUME TypeOK, LockedOnMiss, [Next]_vars
  PROVE  LockedOnMiss'
<1>1. ASSUME NEW w \in Workers, ReadCache(w) \/ LockCache(w) PROVE LockedOnMiss'
  <2>1. \/ UNCHANGED <<cachedData, lastFetch, cacheMutex>>
        \/ ~CacheIsValid /\ UNCHANGED <<cachedData, lastFetch>>
    BY <1>1 DEF ReadCache, LockCache, Hit
  <2> QED BY <2>1 DEF LockedOnMiss, CacheIsValid
<1>2. ASSUME NEW w \in Workers,
             FetchIPRanges(w) \/ SendRequest(w) \/ ServerResponds(w)
      PROVE  LockedOnMiss'
  BY <1>2 DEF FetchIPRanges, SendRequest, ServerResponds, cache,
                    LockedOnMiss, CacheIsValid
<1>3. ASSUME NEW w \in Workers, ReceiveList(w) \/ RequestFails(w) PROVE LockedOnMiss'
  BY <1>3 DEF ReceiveList, RequestFails, Fail, LockedOnMiss
<1>4. CASE Tick
  BY <1>4, TickKeepsInvalid DEF Tick, LockedOnMiss
<1>5. CASE UNCHANGED vars
  BY <1>5 DEF vars, cache, LockedOnMiss, CacheIsValid
<1> QED BY <1>1, <1>2, <1>3, <1>4, <1>5 DEF Next, Proceed

(* It is so throughout.                                                    *)
LEMMA AlwaysLockedOnMiss == Spec => []LockedOnMiss
<1>1. Init => LockedOnMiss
  BY DEF Init, LockedOnMiss
<1> QED BY <1>1, LockedOnMissKept, TypeCorrect, PTL DEF Spec

(* For any number of workers: no request while a fresh list is in the      *)
(* cache, and never two requests at a time.                                *)
THEOREM SingleFetch == Spec => []OneFetchPerTTL
<1>1. TypeOK /\ LockedOnMiss => OneFetchPerTTL
  BY ConstantsAssumption DEF TypeOK, LockedOnMiss, OneFetchPerTTL, InFlight
<1> QED BY <1>1, AlwaysLockedOnMiss, TypeCorrect, PTL

-----------------------------------------------------------------------------
(* FetchIPRanges is one step to its callers.  The steps of a call before   *)
(* its last one are stutters.                                              *)

(* A step of w before its last leaves what the callers see.                *)
LEMMA InnerStep ==
  ASSUME TypeOK, NEW w \in Workers, NEW step \in PCs \ {"idle"}, pc[w] # "idle",
         Goto(w, step), UNCHANGED <<cachedData, lastFetch, result>>
  PROVE  UNCHANGED Promise!vars
<1>1. ASSUME NEW v \in Workers PROVE pc[v] # "idle" <=> pc'[v] # "idle"
  BY DEF TypeOK, Goto
<1>2. {v \in Workers : pc[v] # "idle"} = {v \in Workers : pc'[v] # "idle"}
  BY <1>1
<1> QED BY <1>2 DEF Promise!vars

(* The last one takes it out of those that are calling.                    *)
LEMMA LastStep ==
  ASSUME TypeOK, NEW w \in Workers, Goto(w, "idle")
  PROVE  {v \in Workers : pc'[v] # "idle"} = {v \in Workers : pc[v] # "idle"} \ {w}
<1>1. ASSUME NEW v \in Workers PROVE pc'[v] # "idle" <=> pc[v] # "idle" /\ v # w
  BY DEF TypeOK, Goto
<1> QED BY <1>1

(* A step of a worker is one of the abstract provider or none.             *)
LEMMA WorkerStep ==
  ASSUME TypeOK, LockedOnMiss, NEW w \in Workers,
         \/ FetchIPRanges(w) \/ Proceed(w)
         \/ ServerResponds(w) \/ ReceiveList(w) \/ RequestFails(w)
  PROVE  [Promise!Next]_(Promise!vars)
<1>1. CASE FetchIPRanges(w)
  <2>1. ASSUME NEW v \in Workers PROVE pc'[v] # "idle" <=> pc[v] # "idle" \/ v = w
    BY <1>1 DEF TypeOK, FetchIPRanges, Goto
  <2>2. {v \in Workers : pc'[v] # "idle"} = {v \in Workers : pc[v] # "idle"} \cup {w}
    BY <2>1
  <2>3. Promise!Call(w)
    BY <1>1, <2>2 DEF FetchIPRanges, Promise!Call, cache
  <2> QED BY <2>3 DEF Promise!Next
<1>2. CASE (ReadCache(w) \/ LockCache(w)) /\ CacheIsValid /\ Hit(w)
  <2>1. Promise!Return(w, cachedData)
    BY <1>2, LastStep DEF ReadCache, LockCache, Hit, Return, Promise!Return
  <2>2. Promise!Hit(w)
    BY <1>2, <2>1 DEF ReadCache, LockCache, Hit, CacheIsValid, Promise!Hit, Promise!Valid
  <2> QED BY <2>2 DEF Promise!Next
<1>3. CASE (ReadCache(w) \/ LockCache(w)) /\ ~(CacheIsValid /\ Hit(w))
  BY <1>3, InnerStep DEF ReadCache, LockCache, PCs
<1>4. CASE SendRequest(w) \/ ServerResponds(w)
  BY <1>4, InnerStep DEF SendRequest, ServerResponds, PCs, cache
<1>5. CASE ReceiveList(w)
  <2>1. ~CacheIsValid /\ pc[w] # "idle"
    BY <1>5, ConstantsAssumption DEF ReceiveList, TypeOK, LockedOnMiss
  <2>2. Promise!Return(w, response[w]) /\ response[w] \in 0 .. Timeout
    BY <1>5, <2>1, LastStep DEF ReceiveList, TypeOK, Return, Promise!Return
  <2>3. Promise!Replace(w)
    BY <1>5, <2>1, <2>2
       DEF ReceiveList, CacheIsValid, Promise!Replace, Promise!Valid, Promise!Return
  <2> QED BY <2>3 DEF Promise!Next
<1>6. CASE RequestFails(w)
  <2>1. ~CacheIsValid /\ pc[w] # "idle"
    BY <1>6, ConstantsAssumption DEF RequestFails, TypeOK, LockedOnMiss
  <2>2. Promise!Return(w, Absent)
    BY <1>6, <2>1, LastStep DEF RequestFails, Fail, Return, Promise!Return
  <2>3. Promise!Fail(w)
    BY <1>6, <2>1, <2>2 DEF RequestFails, CacheIsValid, Promise!Fail, Promise!Valid
  <2> QED BY <2>3 DEF Promise!Next
<1> QED BY <1>1, <1>2, <1>3, <1>4, <1>5, <1>6 DEF Proceed

(* For any number of workers and every cacheTTL and timeout: a provider    *)
(* whose calls take many steps and a lock implements one whose calls are   *)
(* single steps.                                                           *)
THEOREM Refinement == Spec => Implements
<1>1. ASSUME Init PROVE Promise!Init
  <2>1. {w \in Workers : pc[w] # "idle"} = {}
    BY <1>1 DEF Init
  <2> QED BY <1>1, <2>1 DEF Init, Promise!Init
<1>2. ASSUME TypeOK, LockedOnMiss, [Next]_vars PROVE [Promise!Next]_(Promise!vars)
  <2>1. CASE Tick
    <3>1. Promise!Tick
      <4>1. Older(lastFetch, cacheTTL)
              = IF lastFetch = cacheTTL THEN lastFetch ELSE lastFetch + 1
        BY <1>2, ConstantsType DEF TypeOK, Older
      <4> QED BY <2>1, <4>1 DEF Tick, Older, TooOld, Promise!Tick
    <3> QED BY <3>1 DEF Promise!Next
  <2>2. CASE UNCHANGED vars
    BY <2>2 DEF vars, cache, Promise!vars
  <2> QED BY <1>2, <2>1, <2>2, WorkerStep DEF Next
<1> QED BY <1>1, <1>2, AlwaysLockedOnMiss, TypeCorrect, PTL
        DEF Spec, Implements, Promise!Spec

=============================================================================
