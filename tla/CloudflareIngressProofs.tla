---------------------- MODULE CloudflareIngressProofs ----------------------
(***************************************************************************)
(* A CloudflareIngress keeps its lock in order and leaves alone what is    *)
(* not its own, for any number of workers, whatever requests are refused   *)
(* or lose their response, and across restarts; and a single worker never  *)
(* makes two filters of its name.                                          *)
(***************************************************************************)
EXTENDS CloudflareIngress, SequenceTheorems, FiniteSetTheorems, TLAPS

-----------------------------------------------------------------------------
(* Types, and who holds the lock.                                          *)

PCs == {"idle", "read", "lock", "fill", "details", "find", "storeCreated",
        "storeUpdated"} \cup Writes

Holding == {"fill", "details"}

Naming == {"details", "postRule", "putFilter"}

(* A worker goes to a step with a filter in hand, or with none (0).        *)
Moves(w, step, f) ==
  /\ pc' = [pc EXCEPT ![w] = step]
  /\ filterID' = [filterID EXCEPT ![w] = f]
  /\ UNCHANGED want
  /\ result' \in {result} \cup {[result EXCEPT ![w] = o] : o \in {"ok", "error"}}

(* The ways of the module to say that.                                     *)
LEMMA WaysToMove ==
  ASSUME TypeOK, NEW w \in Workers
  PROVE  /\ \A step : Goto(w, step) => Moves(w, step, filterID[w])
         /\ \A step, f : GotoWith(w, step, f) => Moves(w, step, f)
         /\ \A o \in {"ok", "error"} : Return(w, o) => Moves(w, "idle", 0)
BY DEF TypeOK, Goto, GotoWith, Return, Moves

(* The types of what the workers have, after one of them has moved to a    *)
(* step that fits what it does with the lock and the filter it has.        *)
LEMMA MovesTyped ==
  ASSUME TypeOK, DOMAIN filters \subseteq DOMAIN filters',
         NEW w \in Workers, NEW step \in PCs, NEW f \in {0} \cup DOMAIN filters',
         Moves(w, step, f), step \in Naming => f # 0,
         \/ cacheMutex' = cacheMutex /\ (step \in Holding <=> pc[w] \in Holding)
         \/ /\ cacheMutex \in {w, Nobody}
            /\ cacheMutex' = IF step \in Holding THEN w ELSE Nobody
  PROVE  /\ cacheMutex' \in Workers \cup {Nobody}
         /\ \A v \in Workers : cacheMutex' = v <=> pc'[v] \in Holding
         /\ pc' \in [Workers -> PCs]
         /\ want' \in [Workers -> SUBSET CIDRs]
         /\ filterID' \in [Workers -> {0} \cup DOMAIN filters']
         /\ \A v \in Workers : pc'[v] \in Naming => filterID'[v] # 0
         /\ result' \in [Workers -> {"none", "ok", "error"}]
<1>1. /\ pc' \in [Workers -> PCs] /\ want' \in [Workers -> SUBSET CIDRs]
      /\ filterID' \in [Workers -> {0} \cup DOMAIN filters']
      /\ result' \in [Workers -> {"none", "ok", "error"}]
  BY DEF TypeOK, Moves, PCs
<1>2. \A v \in Workers : pc'[v] \in Naming => filterID'[v] # 0
  BY DEF TypeOK, Moves, Naming
<1>3. /\ cacheMutex' \in Workers \cup {Nobody}
      /\ \A v \in Workers : cacheMutex' = v <=> pc'[v] \in Holding
  BY ConstantsAssumption DEF TypeOK, Moves, Holding
<1> QED BY <1>1, <1>2, <1>3

(* An expression made for a list is one that a filter can have.            *)
LEMMA ExpressionType ==
  ASSUME NEW ranges \in SUBSET CIDRs
  PROVE  buildFilterExpression(ranges) \in {EmptyRule} \cup SUBSET CIDRs
BY DEF buildFilterExpression

(* What is read from an expression is a list.                              *)
LEMMA ParsedType ==
  ASSUME NEW expression \in {EmptyRule, NoExpression} \cup SUBSET CIDRs
  PROVE  parseFilterExpression(expression) \in SUBSET CIDRs
BY DEF parseFilterExpression

(* A filter that is added, or put in the place of another one.             *)
LEMMA SentTyped ==
  ASSUME TypeOK, NEW w \in Workers, NEW name \in {ruleName, NoName}
  PROVE  [description |-> name, expression |-> buildFilterExpression(want[w])] \in Filter
BY ExpressionType DEF TypeOK, Filter

(* The zone stays well formed and loses no filter.                         *)
LEMMA ZoneTyped ==
  ASSUME TypeOK, NEW w \in Workers, Step(w)
  PROVE  /\ filters' \in Seq(Filter) /\ Len(filters') <= Quota
         /\ rules' \subseteq DOMAIN filters'
         /\ DOMAIN filters \subseteq DOMAIN filters'
<1>1. CASE UNCHANGED zone
  BY <1>1 DEF TypeOK, zone
<1>2. CASE PostFilter(w) /\ ~UNCHANGED zone
  <2> DEFINE e == [description |-> ruleName,
                   expression |-> buildFilterExpression(want[w])]
  <2>1. filters' = Append(filters, e) /\ Len(filters) < Quota /\ UNCHANGED rules
    BY <1>2 DEF PostFilter, Refused
  <2>2. e \in Filter
    BY SentTyped
  <2> HIDE DEF e
  <2>3. filters' \in Seq(Filter) /\ Len(filters') = Len(filters) + 1
    BY <2>1, <2>2, AppendProperties DEF TypeOK
  <2> QED BY <2>1, <2>3, ConstantsAssumption DEF TypeOK
<1>3. CASE PostRule(w) /\ ~UNCHANGED zone
  BY <1>3 DEF PostRule, Refused, TypeOK
<1>4. CASE PutFilter(w) /\ ~UNCHANGED zone
  <2> DEFINE e == [description |-> NoName,
                   expression |-> buildFilterExpression(want[w])]
  <2>1. filters' = [filters EXCEPT ![filterID[w]] = e] /\ UNCHANGED rules
    BY <1>4 DEF PutFilter, Refused
  <2>2. e \in Filter
    BY SentTyped
  <2>3. filterID[w] \in DOMAIN filters
    BY <1>4 DEF PutFilter, TypeOK
  <2> HIDE DEF e
  <2>4. filterID[w] \in 1 .. Len(filters)
    BY <2>3 DEF TypeOK
  <2> QED BY <2>1, <2>2, <2>4, ExceptSeq DEF TypeOK
<1> QED BY <1>1, <1>2, <1>3, <1>4
        DEF Step, ReadCache, LockCache, FindToFill, GetFilterDetails, FindToUpdate,
            StoreCreated, StoreUpdated

(* What the cache holds is a list.                                         *)
LEMMA CacheTyped ==
  ASSUME TypeOK, NEW w \in Workers, Step(w)
  PROVE  cachedData' \in {Absent} \cup SUBSET CIDRs /\ fresh' \in BOOLEAN
<1>1. CASE UNCHANGED <<cachedData, fresh>>
  BY <1>1 DEF TypeOK
<1>2. ASSUME NEW ranges \in SUBSET CIDRs, Remember(ranges)
      PROVE  cachedData' \in {Absent} \cup SUBSET CIDRs /\ fresh' \in BOOLEAN
  BY <1>2 DEF Remember
<1>3. CASE FindToFill(w)
  BY <1>1, <1>2, <1>3 DEF FindToFill, cache
<1>4. CASE GetFilterDetails(w)
  <2>1. filterID[w] \in DOMAIN filters /\ filters \in Seq(Filter)
    BY <1>4 DEF GetFilterDetails, TypeOK
  <2>2. filters[filterID[w]] \in Filter
    BY <2>1, ElementOfSeq
  <2>3. filters[filterID[w]].expression \in {EmptyRule} \cup SUBSET CIDRs
    BY <2>2 DEF Filter
  <2> QED BY <1>1, <1>2, <1>4, <2>3, ParsedType DEF GetFilterDetails
<1>5. CASE StoreCreated(w)
  BY <1>2, <1>5, ParsedType DEF StoreCreated
<1>6. CASE StoreUpdated(w)
  <2>1. buildFilterExpression(want[w]) \in {EmptyRule} \cup SUBSET CIDRs
    BY ExpressionType DEF TypeOK
  <2> QED BY <1>2, <1>6, <2>1, ParsedType DEF StoreUpdated
<1> QED BY <1>1, <1>3, <1>4, <1>5, <1>6
        DEF Step, ReadCache, LockCache, FindToUpdate, PostFilter, PostRule, PutFilter,
            cache

(* Every step of a worker is a move that fits.                             *)
LEMMA StepMoves ==
  ASSUME TypeOK, NEW w \in Workers, Step(w)
  PROVE  \E step \in PCs, f \in {0} \cup DOMAIN filters' :
           /\ Moves(w, step, f)
           /\ step \in Naming => f # 0
           /\ \/ cacheMutex' = cacheMutex /\ (step \in Holding <=> pc[w] \in Holding)
              \/ /\ cacheMutex \in {w, Nobody}
                 /\ cacheMutex' = IF step \in Holding THEN w ELSE Nobody
<1> DEFINE Fits(step, f) ==
             /\ Moves(w, step, f)
             /\ step \in Naming => f # 0
             /\ \/ cacheMutex' = cacheMutex /\ (step \in Holding <=> pc[w] \in Holding)
                \/ /\ cacheMutex \in {w, Nobody}
                   /\ cacheMutex' = IF step \in Holding THEN w ELSE Nobody
<1> SUFFICES \E step \in PCs, f \in {0} \cup DOMAIN filters' : Fits(step, f)
  OBVIOUS
<1>1. filterID[w] \in {0} \cup DOMAIN filters'
  BY ZoneTyped DEF TypeOK
<1>2. cacheMutex = w <=> pc[w] \in Holding
  BY DEF TypeOK, Holding
<1>3. ASSUME \E o \in {"ok", "error"} : Return(w, o),
             \/ cacheMutex' = cacheMutex /\ pc[w] \notin Holding
             \/ cacheMutex = w /\ cacheMutex' = Nobody
      PROVE  Fits("idle", 0)
  BY <1>3, WaysToMove DEF Holding, Naming
<1>4. ASSUME NEW ranges, Compare(w, ranges),
             \/ cacheMutex' = cacheMutex /\ pc[w] \notin Holding
             \/ cacheMutex = w /\ cacheMutex' = Nobody
      PROVE  Fits("idle", 0) \/ Fits("find", filterID[w])
  BY <1>3, <1>4, WaysToMove DEF Compare, Holding, Naming
<1>5. {"idle", "find", "lock", "fill", "details", "postFilter", "postRule", "putFilter",
       "storeCreated", "storeUpdated"} \subseteq PCs
  BY DEF PCs, Writes
<1>6. CASE ReadCache(w)
  BY <1>1, <1>4, <1>5, <1>6, WaysToMove DEF ReadCache, cache, Holding, Naming
<1>7. CASE LockCache(w)
  BY <1>1, <1>4, <1>5, <1>7, WaysToMove DEF LockCache, Holding, Naming
<1>8. ASSUME NEW f \in Found PROVE f \in DOMAIN filters /\ f # 0
  BY DEF Found, TypeOK
<1>9. CASE FindToFill(w)
  <2>1. cacheMutex = w /\ pc[w] \in Holding
    BY <1>2, <1>9 DEF FindToFill, Holding
  <2>2. CASE cacheMutex' = Nobody
    BY <1>1, <1>3, <1>4, <1>5, <1>8, <1>9, <2>1, <2>2, ConstantsAssumption
       DEF FindToFill, FillFails, cache
  <2>3. ASSUME NEW f \in Found, GotoWith(w, "details", f), UNCHANGED <<cache, zone>>
        PROVE  Fits("details", f) /\ f \in DOMAIN filters'
    BY <1>8, <2>1, <2>3, WaysToMove DEF Holding, cache, zone
  <2> QED BY <1>5, <1>9, <2>2, <2>3 DEF FindToFill, FillFails
<1>10. CASE GetFilterDetails(w)
  <2>1. cacheMutex = w /\ cacheMutex' = Nobody
    BY <1>2, <1>10 DEF GetFilterDetails, FillFails, Holding
  <2> QED BY <1>1, <1>3, <1>4, <1>5, <1>10, <2>1 DEF GetFilterDetails, FillFails
<1>11. CASE FindToUpdate(w)
  <2>1. cacheMutex' = cacheMutex /\ pc[w] \notin Holding /\ UNCHANGED zone
    BY <1>11 DEF FindToUpdate, cache, Holding
  <2>2. ASSUME NEW f \in Found, GotoWith(w, "putFilter", f)
        PROVE  Fits("putFilter", f) /\ f \in DOMAIN filters'
    BY <1>8, <2>1, <2>2, WaysToMove DEF Holding, zone
  <2>3. ASSUME Goto(w, "postFilter") PROVE Fits("postFilter", filterID[w])
    BY <2>1, <2>3, WaysToMove DEF Holding, Naming
  <2> QED BY <1>1, <1>3, <1>5, <1>11, <2>1, <2>2, <2>3 DEF FindToUpdate, FindFails
<1>12. CASE PostFilter(w)
  <2>1. cacheMutex' = cacheMutex /\ pc[w] \notin Holding
    BY <1>12 DEF PostFilter, cache, Holding
  <2>2. CASE Return(w, "error")
    BY <1>3, <1>5, <2>1, <2>2
  <2>3. CASE GotoWith(w, "postRule", Len(filters')) /\ Len(filters) < Quota
             /\ \E e : filters' = Append(filters, e)
    <3>1. Len(filters') = Len(filters) + 1 /\ filters' \in Seq(Filter)
      BY <2>3, ZoneTyped DEF TypeOK
    <3>2. Len(filters') \in DOMAIN filters' /\ Len(filters') # 0
      BY <3>1 DEF TypeOK
    <3>3. Fits("postRule", Len(filters'))
      BY <2>1, <2>3, <3>2, WaysToMove DEF Holding
    <3> QED BY <1>5, <3>2, <3>3
  <2> QED BY <1>12, <2>2, <2>3 DEF PostFilter, Unheard, Refused
<1>13. CASE PostRule(w)
  <2>1. cacheMutex' = cacheMutex /\ pc[w] \notin Holding
    BY <1>13 DEF PostRule, cache, Holding
  <2>2. ASSUME Goto(w, "storeCreated") PROVE Fits("storeCreated", filterID[w])
    BY <2>1, <2>2, WaysToMove DEF Holding, Naming
  <2> QED BY <1>1, <1>3, <1>5, <1>13, <2>1, <2>2 DEF PostRule, Unheard, Refused
<1>14. CASE PutFilter(w)
  <2>1. cacheMutex' = cacheMutex /\ pc[w] \notin Holding
    BY <1>14 DEF PutFilter, cache, Holding
  <2>2. ASSUME Goto(w, "storeUpdated") PROVE Fits("storeUpdated", filterID[w])
    BY <2>1, <2>2, WaysToMove DEF Holding, Naming
  <2> QED BY <1>1, <1>3, <1>5, <1>14, <2>1, <2>2 DEF PutFilter, Unheard, Refused
<1>15. CASE StoreCreated(w) \/ StoreUpdated(w)
  BY <1>3, <1>5, <1>15 DEF StoreCreated, StoreUpdated, Holding
<1> QED BY <1>6, <1>7, <1>9, <1>10, <1>11, <1>12, <1>13, <1>14, <1>15 DEF Step

(* The steps of the workers keep the types.                                *)
LEMMA StepTyped ==
  ASSUME TypeOK, NEW w \in Workers, Step(w)
  PROVE  TypeOK'
BY ZoneTyped, CacheTyped, StepMoves, MovesTyped DEF TypeOK, PCs, Holding, Naming

(* Everything else that happens does.                                      *)
LEMMA NextTyped ==
  ASSUME TypeOK, [Next]_vars
  PROVE  TypeOK'
<1>1. ASSUME NEW w \in Workers, NEW ranges \in Wanted, ApplyIPRanges(w, ranges)
      PROVE  TypeOK'
  BY <1>1, ConstantsAssumption DEF ApplyIPRanges, zone, cache, TypeOK
<1>2. CASE Expire
  BY <1>2 DEF Expire, zone, calls, TypeOK
<1>3. CASE Restart
  BY <1>3, ConstantsAssumption DEF Restart, zone, TypeOK
<1>4. CASE UNCHANGED vars
  BY <1>4 DEF vars, zone, cache, calls, TypeOK
<1> QED BY <1>1, <1>2, <1>3, <1>4, StepTyped DEF Next

(* In every behaviour the variables have their types; cacheMutex is held   *)
(* during the two requests of GetCurrentIPRanges and at no other time, and *)
(* who names a filter in a request names one that exists.                  *)
THEOREM TypeCorrect == Spec => []TypeOK
<1>1. Init => TypeOK
  <2> SUFFICES ASSUME Init PROVE TypeOK
    OBVIOUS
  <2>1. Foreign \in Filter
    BY DEF Foreign, Filter
  <2>2. /\ filters \in Seq(Filter) /\ Len(filters) = 1 /\ DOMAIN filters = {1}
    BY <2>1 DEF Init
  <2>3. Len(filters) <= Quota /\ rules \subseteq DOMAIN filters
    BY <2>2, ConstantsAssumption DEF Init
  <2> QED BY <2>2, <2>3, ConstantsAssumption DEF Init, TypeOK
<1> QED BY <1>1, NextTyped, PTL DEF Spec

-----------------------------------------------------------------------------
(* The filter of somebody else.                                            *)

(* The zone and what the workers hold of it; the foreign filter is first.  *)
ZoneOK ==
  /\ filters \in Seq(Filter) /\ 1 \in DOMAIN filters
  /\ want \in [Workers -> SUBSET CIDRs]
  /\ filterID \in [Workers -> Nat]

IInv == ZoneOK /\ ForeignUntouched

(* The search of a worker never returns the foreign filter.                *)
LEMMA FoundIsOwn ==
  ASSUME IInv, NEW f \in Found
  PROVE  f \in Nat /\ f # 1
<1>1. ruleName # filters[1].description
  BY ConstantsAssumption DEF IInv, ForeignUntouched, Foreign
<1>2. f \in DOMAIN filters /\ DOMAIN filters \subseteq Nat
  BY DEF Found, IInv, ZoneOK
<1> QED BY <1>1, <1>2 DEF Found, Matches

(* A step that leaves the zone alone and gives a worker at most a filter   *)
(* that is not the foreign one.                                            *)
LEMMA ZoneUnchanged ==
  ASSUME IInv, UNCHANGED <<zone, want>>, NEW w \in Workers, NEW f \in Nat, f # 1,
         filterID' = filterID \/ filterID' = [filterID EXCEPT ![w] = f]
  PROVE  IInv'
BY DEF IInv, ZoneOK, ForeignUntouched, zone

(* The steps that only read the zone, or store what they know.             *)
LEMMA ReadersKeep ==
  ASSUME IInv, NEW w \in Workers,
         \/ ReadCache(w) \/ LockCache(w) \/ FindToFill(w) \/ GetFilterDetails(w)
         \/ FindToUpdate(w) \/ StoreCreated(w) \/ StoreUpdated(w)
  PROVE  IInv'
<1>1. UNCHANGED <<zone, want>>
  BY DEF ReadCache, LockCache, FindToFill, GetFilterDetails, FindToUpdate, StoreCreated,
         StoreUpdated, FillFails, FindFails, Compare, Goto, GotoWith, Return
<1>2. \/ filterID' = filterID
      \/ filterID' = [filterID EXCEPT ![w] = 0]
      \/ \E f \in Found : filterID' = [filterID EXCEPT ![w] = f]
  BY DEF ReadCache, LockCache, FindToFill, GetFilterDetails, FindToUpdate, StoreCreated,
         StoreUpdated, FillFails, FindFails, Compare, Goto, GotoWith, Return
<1> QED BY <1>1, <1>2, FoundIsOwn, ZoneUnchanged

(* A filter that is created comes after the foreign one.                   *)
LEMMA PostFilterKeeps ==
  ASSUME IInv, NEW w \in Workers, PostFilter(w)
  PROVE  IInv'
<1>1. CASE UNCHANGED zone /\ Return(w, "error")
  <2>1. UNCHANGED <<zone, want>> /\ filterID' = [filterID EXCEPT ![w] = 0]
    BY <1>1 DEF Return
  <2> QED BY <2>1 DEF IInv, ZoneOK, ForeignUntouched, zone
<1>2. CASE /\ filters' = Append(filters, [description |-> ruleName,
                                          expression |-> buildFilterExpression(want[w])])
           /\ GotoWith(w, "postRule", Len(filters')) \/ Unheard(w, "postFilter")
  <2> DEFINE e == [description |-> ruleName,
                   expression |-> buildFilterExpression(want[w])]
  <2>1. e \in Filter
    BY ExpressionType DEF Filter, IInv, ZoneOK
  <2>2. /\ filters' \in Seq(Filter) /\ Len(filters') = Len(filters) + 1
        /\ \A k \in 1 .. Len(filters) : filters'[k] = filters[k]
    <3> HIDE DEF e
    <3>1. filters' = Append(filters, e)
      BY <1>2 DEF e
    <3> QED BY <2>1, <3>1, AppendProperties DEF IInv, ZoneOK
  <2>3. 1 \in 1 .. Len(filters) /\ Len(filters) \in Nat
    BY DEF IInv, ZoneOK
  <2>4. filters'[1] = Foreign /\ 1 \in DOMAIN filters'
    BY <2>2, <2>3 DEF IInv, ForeignUntouched
  <2>5. Len(filters') \in Nat /\ Len(filters') # 1
    BY <2>2, <2>3
  <2>6. UNCHANGED want /\ \E f \in Nat \ {1} : filterID' = [filterID EXCEPT ![w] = f]
    BY <1>2, <2>5 DEF GotoWith, Unheard, Return
  <2> QED BY <2>2, <2>4, <2>6 DEF IInv, ZoneOK, ForeignUntouched
<1> QED BY <1>1, <1>2 DEF PostFilter, Refused

(* A rule that is added changes no filter.                                 *)
LEMMA PostRuleKeeps ==
  ASSUME IInv, NEW w \in Workers, PostRule(w)
  PROVE  IInv'
<1>1. UNCHANGED <<filters, want>>
  BY DEF PostRule, Refused, Unheard, Goto, Return, zone
<1>2. filterID' = filterID \/ filterID' = [filterID EXCEPT ![w] = 0]
  BY DEF PostRule, Refused, Unheard, Goto, Return
<1> QED BY <1>1, <1>2 DEF IInv, ZoneOK, ForeignUntouched

(* A filter that is replaced is the one that the worker has in hand.       *)
LEMMA PutFilterKeeps ==
  ASSUME IInv, NEW w \in Workers, PutFilter(w)
  PROVE  IInv'
<1>1. UNCHANGED want
  BY DEF PutFilter, Refused, Unheard, Goto, Return
<1>2. filterID' = filterID \/ filterID' = [filterID EXCEPT ![w] = 0]
  BY DEF PutFilter, Refused, Unheard, Goto, Return
<1>3. filters' \in Seq(Filter) /\ 1 \in DOMAIN filters' /\ filters'[1] = Foreign
  <2>1. CASE UNCHANGED zone
    BY <2>1 DEF IInv, ZoneOK, ForeignUntouched, zone
  <2>2. CASE filters' = [filters EXCEPT ![filterID[w]] =
                           [description |-> NoName,
                            expression |-> buildFilterExpression(want[w])]]
    <3> DEFINE e == [description |-> NoName,
                     expression |-> buildFilterExpression(want[w])]
    <3>1. e \in Filter
      BY ExpressionType DEF Filter, IInv, ZoneOK
    <3>2. filters' = [filters EXCEPT ![filterID[w]] = e]
      BY <2>2
    <3>3. filterID[w] # 1
      BY DEF IInv, ForeignUntouched
    <3> HIDE DEF e
    <3>4. filters' \in Seq(Filter) /\ DOMAIN filters' = DOMAIN filters
      <4>1. CASE filterID[w] \in 1 .. Len(filters)
        BY <3>1, <3>2, <4>1, ExceptSeq DEF IInv, ZoneOK
      <4>2. CASE filterID[w] \notin 1 .. Len(filters)
        <5>1. filters \in [1 .. Len(filters) -> Filter]
          BY DEF IInv, ZoneOK
        <5>2. filters' = filters
          BY <3>2, <4>2, <5>1
        <5> QED BY <5>2 DEF IInv, ZoneOK
      <4> QED BY <4>1, <4>2
    <3>5. filters'[1] = filters[1]
      BY <3>2, <3>3 DEF IInv, ZoneOK
    <3> QED BY <3>4, <3>5 DEF IInv, ZoneOK, ForeignUntouched
  <2> QED BY <2>1, <2>2 DEF PutFilter, Refused
<1> QED BY <1>1, <1>2, <1>3 DEF IInv, ZoneOK, ForeignUntouched

(* The invariant holds in every behaviour.                                 *)
LEMMA ZoneInvariant == Spec => []IInv
<1>1. ASSUME Init PROVE IInv
  <2>1. Foreign \in Filter
    BY DEF Foreign, Filter
  <2> QED BY <1>1, <2>1 DEF Init, IInv, ZoneOK, ForeignUntouched
<1>2. ASSUME IInv, [Next]_vars PROVE IInv'
  <2>1. ASSUME NEW w \in Workers, Step(w) PROVE IInv'
    BY <1>2, <2>1, ReadersKeep, PostFilterKeeps, PostRuleKeeps, PutFilterKeeps DEF Step
  <2>2. ASSUME NEW w \in Workers, NEW ranges \in Wanted, ApplyIPRanges(w, ranges)
        PROVE  IInv'
    BY <1>2, <2>2, ConstantsAssumption
       DEF ApplyIPRanges, IInv, ZoneOK, ForeignUntouched, zone
  <2>3. CASE Expire
    BY <1>2, <2>3 DEF Expire, IInv, ZoneOK, ForeignUntouched, zone, calls
  <2>4. CASE Restart
    BY <1>2, <2>4 DEF Restart, IInv, ZoneOK, ForeignUntouched, zone
  <2>5. CASE UNCHANGED vars
    BY <1>2, <2>5 DEF vars, IInv, ZoneOK, ForeignUntouched, zone, calls
  <2> QED BY <1>2, <2>1, <2>2, <2>3, <2>4, <2>5 DEF Next
<1> QED BY <1>1, <1>2, PTL DEF Spec

(* In every behaviour the filter that somebody else made is as it was, and *)
(* no request of the ingress names it.                                     *)
THEOREM Untouched == Spec => []ForeignUntouched
<1>1. IInv => ForeignUntouched
  BY DEF IInv
<1> QED BY <1>1, ZoneInvariant, PTL

-----------------------------------------------------------------------------
(* How many filters carry the ruleName.                                    *)

Pending == {w \in Workers : pc[w] = "postFilter"}

(* Whoever is about to create a filter has found none.  Since then others  *)
(* may have created theirs, but the search that lets a worker join them    *)
(* fails as long as one is there: the filters that carry the name, and the *)
(* workers about to add one, are together no more than the workers.        *)
BInv == Cardinality(Found) + Cardinality(Pending) <= Cardinality(Workers)

(* What is counted is finite.                                              *)
LEMMA FoundFinite ==
  ASSUME TypeOK
  PROVE  /\ IsFiniteSet(Found) /\ Cardinality(Found) \in Nat
         /\ IsFiniteSet(Pending) /\ Cardinality(Pending) \in Nat
         /\ IsFiniteSet(Workers) /\ Cardinality(Workers) \in Nat
         /\ Cardinality(Pending) <= Cardinality(Workers)
<1>1. IsFiniteSet(1 .. Len(filters)) /\ Found \subseteq 1 .. Len(filters)
  <2>1. Len(filters) \in Nat /\ DOMAIN filters = 1 .. Len(filters)
    BY DEF TypeOK
  <2> QED BY <2>1, FS_Interval DEF Found
<1>2. IsFiniteSet(Found)
  BY <1>1, FS_Subset
<1>3. IsFiniteSet(Workers) /\ Pending \subseteq Workers
  BY ConstantsAssumption DEF Pending
<1>4. IsFiniteSet(Pending) /\ Cardinality(Pending) <= Cardinality(Workers)
  BY <1>3, FS_Subset
<1> QED BY <1>2, <1>3, <1>4, FS_CardinalityType

(* A step after which no new filter has the name and nobody is about to    *)
(* create one who was not before.                                          *)
LEMMA NoMore ==
  ASSUME TypeOK, TypeOK', BInv, Found' \subseteq Found, Pending' \subseteq Pending
  PROVE  BInv'
<1> DEFINE f == Cardinality(Found)
           g == Cardinality(Pending)
           n == Cardinality(Workers)
<1>1. f \in Nat /\ g \in Nat /\ n \in Nat /\ f + g <= n
  BY FoundFinite DEF BInv
<1>2. Cardinality(Found') \in Nat /\ Cardinality(Found') <= f
  BY FoundFinite, FS_Subset, FS_CardinalityType
<1>3. Cardinality(Pending') \in Nat /\ Cardinality(Pending') <= g
  BY FoundFinite, FS_Subset, FS_CardinalityType
<1> HIDE DEF f, g, n
<1>4. Cardinality(Found') + Cardinality(Pending') <= n
  BY <1>1, <1>2, <1>3
<1> QED BY <1>4 DEF BInv, n

(* The names, while the filters stay, or one of them is replaced by an     *)
(* update, which takes its name away, or one is added.                     *)
LEMMA FoundStays ==
  ASSUME filters' = filters
  PROVE  Found' = Found
BY DEF Found, Matches

LEMMA FoundAfterPut ==
  ASSUME TypeOK, NEW i \in DOMAIN filters, NEW e,
         filters' = [filters EXCEPT ![i] = e], e.description = NoName
  PROVE  Found' \subseteq Found
<1>1. DOMAIN filters' = DOMAIN filters /\ filters'[i] = e
      /\ \A k \in DOMAIN filters : k # i => filters'[k] = filters[k]
  BY DEF TypeOK
<1> QED BY <1>1, ConstantsAssumption DEF Found, Matches

LEMMA FoundAfterPost ==
  ASSUME TypeOK, NEW e \in Filter, filters' = Append(filters, e)
  PROVE  Found' \subseteq Found \cup {Len(filters) + 1}
<1>1. /\ DOMAIN filters' = 1 .. Len(filters) + 1 /\ DOMAIN filters = 1 .. Len(filters)
      /\ \A k \in 1 .. Len(filters) : filters'[k] = filters[k]
  BY AppendProperties DEF TypeOK
<1>2. \A k \in 1 .. Len(filters) + 1 : k \in 1 .. Len(filters) \/ k = Len(filters) + 1
  BY DEF TypeOK
<1> QED BY <1>1, <1>2 DEF Found, Matches

(* A creation: one filter more, one worker less that is about to make one. *)
LEMMA PostBounded ==
  ASSUME TypeOK, TypeOK', BInv, NEW w \in Workers, PostFilter(w)
  PROVE  BInv'
<1>1. w \in Pending /\ Pending' = Pending \ {w}
  <2>1. \A v \in Workers : pc'[v] = (IF v = w THEN pc'[w] ELSE pc[v])
    BY DEF PostFilter, Unheard, Refused, GotoWith, Return, TypeOK
  <2>2. pc[w] = "postFilter" /\ pc'[w] # "postFilter"
    BY DEF PostFilter, Unheard, Refused, GotoWith, Return, TypeOK
  <2> QED BY <2>1, <2>2 DEF Pending
<1>2. CASE UNCHANGED zone
  BY <1>1, <1>2, FoundStays, NoMore DEF zone
<1>3. CASE filters' = Append(filters, [description |-> ruleName,
                                       expression |-> buildFilterExpression(want[w])])
  <2> DEFINE i == Len(filters) + 1
             f == Cardinality(Found)
             g == Cardinality(Pending)
             n == Cardinality(Workers)
  <2>1. Found' \subseteq Found \cup {i}
    BY <1>3, SentTyped, FoundAfterPost
  <2>2. f \in Nat /\ g \in Nat /\ n \in Nat /\ f + g <= n
    BY FoundFinite DEF BInv
  <2>3. IsFiniteSet(Found \cup {i}) /\ Cardinality(Found \cup {i}) \in {f, f + 1}
    BY FoundFinite, FS_AddElement
  <2>4. Cardinality(Found') \in Nat /\ Cardinality(Found') <= Cardinality(Found \cup {i})
    BY <2>1, <2>3, FS_Subset, FS_CardinalityType
  <2>5. Cardinality(Pending') = g - 1
    BY <1>1, FoundFinite, FS_RemoveElement
  <2> HIDE DEF i, f, g, n
  <2>6. Cardinality(Found') + Cardinality(Pending') <= n
    BY <2>2, <2>3, <2>4, <2>5
  <2> QED BY <2>6 DEF BInv, n
<1> QED BY <1>2, <1>3 DEF PostFilter, Refused

(* An update.                                                              *)
LEMMA PutBounded ==
  ASSUME TypeOK, TypeOK', BInv, NEW w \in Workers, PutFilter(w)
  PROVE  BInv'
<1>1. Pending' \subseteq Pending
  BY DEF PutFilter, Unheard, Refused, Goto, Return, TypeOK, Pending
<1>2. CASE UNCHANGED zone
  BY <1>1, <1>2, FoundStays, NoMore DEF zone
<1>3. CASE filters' = [filters EXCEPT ![filterID[w]] =
                         [description |-> NoName,
                          expression |-> buildFilterExpression(want[w])]]
  <2> DEFINE e == [description |-> NoName,
                   expression |-> buildFilterExpression(want[w])]
  <2>1. filterID[w] \in DOMAIN filters
    BY DEF PutFilter, TypeOK
  <2>2. filters' = [filters EXCEPT ![filterID[w]] = e] /\ e.description = NoName
    BY <1>3
  <2> HIDE DEF e
  <2> QED BY <1>1, <2>1, <2>2, FoundAfterPut, NoMore
<1> QED BY <1>2, <1>3 DEF PutFilter, Refused

(* Every other step of a worker: only a search that has found nothing      *)
(* leads to a creation.                                                    *)
LEMMA OthersBounded ==
  ASSUME TypeOK, TypeOK', BInv, NEW w \in Workers,
         \/ ReadCache(w) \/ LockCache(w) \/ FindToFill(w) \/ GetFilterDetails(w)
         \/ FindToUpdate(w) \/ PostRule(w) \/ StoreCreated(w) \/ StoreUpdated(w)
  PROVE  BInv'
<1>1. filters' = filters
  BY DEF ReadCache, LockCache, FindToFill, GetFilterDetails, FindToUpdate, PostRule,
         StoreCreated, StoreUpdated, Refused, zone
<1>2. CASE Found = {}
  <2>1. Cardinality(Found') = 0
    BY <1>1, <1>2, FoundStays, FS_EmptySet
  <2>2. Cardinality(Pending') \in Nat /\ Cardinality(Pending') <= Cardinality(Workers)
    <3>1. Pending' \subseteq Workers
      BY DEF Pending
    <3> QED BY <3>1, ConstantsAssumption, FS_Subset, FS_CardinalityType
  <2> QED BY <2>1, <2>2 DEF BInv
<1>3. CASE Found # {}
  <2>1. Pending' \subseteq Pending
    BY <1>3 DEF ReadCache, LockCache, FindToFill, GetFilterDetails, FindToUpdate,
                PostRule, StoreCreated, StoreUpdated, Refused, Unheard, FillFails,
                FindFails, Compare, Goto, GotoWith, Return, TypeOK, Pending
  <2> QED BY <1>1, <2>1, FoundStays, NoMore
<1> QED BY <1>2, <1>3

(* For any number of workers, whatever is refused or unheard and wherever  *)
(* the process ends: no more filters carry the ruleName than there are     *)
(* workers.                                                                *)
THEOREM Bounded == Spec => []NamedFiltersBounded
<1>1. Init => BInv
  <2> SUFFICES ASSUME Init PROVE BInv
    OBVIOUS
  <2>1. Found = {} /\ Pending = {}
    BY ConstantsAssumption DEF Init, Foreign, Found, Matches, Pending
  <2>2. Cardinality(Workers) \in Nat
    BY ConstantsAssumption, FS_CardinalityType
  <2> QED BY <2>1, <2>2, FS_EmptySet DEF BInv
<1>2. TypeOK /\ TypeOK' /\ BInv /\ [Next]_vars => BInv'
  <2> SUFFICES ASSUME TypeOK, TypeOK', BInv, [Next]_vars PROVE BInv'
    OBVIOUS
  <2>1. ASSUME NEW w \in Workers, Step(w) PROVE BInv'
    BY <2>1, PostBounded, PutBounded, OthersBounded DEF Step
  <2>2. ASSUME NEW w \in Workers, NEW ranges \in Wanted, ApplyIPRanges(w, ranges)
        PROVE  BInv'
    <3>1. Pending' \subseteq Pending
      BY <2>2 DEF ApplyIPRanges, TypeOK, Pending
    <3> QED BY <2>2, <3>1, FoundStays, NoMore DEF ApplyIPRanges, zone
  <2>3. CASE Expire \/ Restart \/ UNCHANGED vars
    <3>1. Pending' \subseteq Pending
      BY <2>3 DEF Expire, Restart, vars, calls, Pending
    <3> QED BY <2>3, <3>1, FoundStays, NoMore DEF Expire, Restart, vars, zone
  <2> QED BY <2>1, <2>2, <2>3 DEF Next
<1>3. TypeOK /\ BInv => NamedFiltersBounded
  <2> SUFFICES ASSUME TypeOK, BInv PROVE NamedFiltersBounded
    OBVIOUS
  <2> DEFINE f == Cardinality(Found)
             g == Cardinality(Pending)
             n == Cardinality(Workers)
  <2>1. f \in Nat /\ g \in Nat /\ n \in Nat /\ f + g <= n
    BY FoundFinite DEF BInv
  <2> HIDE DEF f, g, n
  <2>2. f <= n
    BY <2>1
  <2> QED BY <2>2 DEF NamedFiltersBounded, f, n
<1> QED BY <1>1, <1>2, <1>3, TypeCorrect, PTL DEF Spec

(* In particular one worker at a time keeps the name unique.               *)
COROLLARY Unique ==
  ASSUME NEW w, Workers = {w}
  PROVE  Spec => [](Cardinality(Found) <= 1)
<1>1. NamedFiltersBounded => Cardinality(Found) <= 1
  BY FS_Singleton DEF NamedFiltersBounded
<1> QED BY <1>1, Bounded, PTL

-----------------------------------------------------------------------------
(* What a worker that is alone has in force after a call that succeeded.   *)

(* The lists of the filters that the ingress has made, with a rule or      *)
(* without, and the empty list, which needs no filter.                     *)
Listed ==
  {{}} \cup {parseFilterExpression(filters[f].expression) : f \in DOMAIN filters \ {1}}

(* The filter in hand was sent with the list of this call.                 *)
SentAsWanted(w) ==
  /\ filterID[w] \in DOMAIN filters \ {1}
  /\ filters[filterID[w]].expression = buildFilterExpression(want[w])

(* The cache holds the list of some filter, but for the time between the   *)
(* update of a filter, which may take a list away, and its own update.     *)
CacheIsListed ==
  cachedData # Absent /\ (\A w \in Workers : pc[w] # "storeUpdated") =>
    cachedData \in Listed

EInv ==
  /\ \A w \in Workers :
       pc[w] \in {"postRule", "storeCreated", "storeUpdated"} => SentAsWanted(w)
  /\ CacheIsListed
  /\ \A w \in Workers : result[w] = "ok" => pc[w] = "idle" /\ want[w] \in Listed

(* What is read back from an expression is the list it was made for.       *)
LEMMA ParseBuild ==
  ASSUME NEW ranges \in SUBSET CIDRs
  PROVE  parseFilterExpression(buildFilterExpression(ranges)) = ranges
BY ConstantsAssumption DEF parseFilterExpression, buildFilterExpression

(* Every filter but the foreign one counts.                                *)
LEMMA OwnIsListed ==
  ASSUME NEW f \in DOMAIN filters, f # 1
  PROVE  parseFilterExpression(filters[f].expression) \in Listed
BY DEF Listed

(* The list that was sent is a filter's.                                   *)
LEMMA SentIsListed ==
  ASSUME TypeOK, NEW w \in Workers, SentAsWanted(w)
  PROVE  want[w] \in Listed
<1>1. parseFilterExpression(buildFilterExpression(want[w])) = want[w]
  BY ParseBuild DEF TypeOK
<1> QED BY <1>1, OwnIsListed DEF SentAsWanted

(* Filters that stay list what they did.                                   *)
LEMMA SameListed ==
  ASSUME filters' = filters
  PROVE  Listed' = Listed
BY DEF Listed

(* Where the worker is after a move, and what its call has returned.       *)
LEMMA WhereNext ==
  ASSUME TypeOK, NEW w \in Workers
  PROVE  /\ \A step : Goto(w, step) =>
              pc'[w] = step /\ UNCHANGED <<want, result, filterID>>
         /\ \A step, f : GotoWith(w, step, f) =>
              pc'[w] = step /\ filterID'[w] = f /\ UNCHANGED <<want, result>>
         /\ \A outcome : Return(w, outcome) =>
              pc'[w] = "idle" /\ result'[w] = outcome /\ UNCHANGED want
BY DEF TypeOK, Goto, GotoWith, Return

(* What the only worker must show depends on the step that it has reached  *)
(* and on what its call has returned.                                      *)
LEMMA AloneMoves ==
  ASSUME NEW w \in Workers, \A v \in Workers : v = w,
         result'[w] = "ok" => pc'[w] = "idle" /\ want'[w] \in Listed',
         pc'[w] \in {"postRule", "storeCreated", "storeUpdated"} => SentAsWanted(w)',
         \/ cachedData' = Absent
         \/ pc'[w] = "storeUpdated"
         \/ cachedData' \in Listed'
  PROVE  EInv'
<1>1. ASSUME NEW v \in Workers PROVE v = w
  OBVIOUS
<1> QED BY <1>1 DEF EInv, CacheIsListed

(* A call that fails shows nothing, but that the cache is left as it was.  *)
LEMMA AloneFails ==
  ASSUME TypeOK, EInv, NEW w \in Workers, \A v \in Workers : v = w,
         Return(w, "error"), UNCHANGED <<filters, cachedData>>, pc[w] # "storeUpdated"
  PROVE  EInv'
<1>1. cachedData # Absent => cachedData \in Listed
  BY DEF EInv, CacheIsListed
<1> QED BY <1>1, SameListed, AloneMoves, WhereNext

(* The comparison with a list that a filter has.                           *)
LEMMA AloneCompares ==
  ASSUME TypeOK, EInv, NEW w \in Workers, \A v \in Workers : v = w, UNCHANGED filters,
         NEW ranges, ranges \in Listed, Compare(w, ranges),
         result[w] # "ok",
         cachedData' = Absent \/ cachedData' \in Listed
  PROVE  EInv'
<1>1. CASE ranges = want[w] /\ Return(w, "ok")
  BY <1>1, SameListed, AloneMoves, WhereNext
<1>2. CASE Goto(w, "find")
  BY <1>2, SameListed, AloneMoves, WhereNext
<1> QED BY <1>1, <1>2 DEF Compare

(* The steps of GetCurrentIPRanges.                                        *)
LEMMA ReadsListed ==
  ASSUME TypeOK, IInv, EInv, NEW w \in Workers, \A v \in Workers : v = w,
         ReadCache(w) \/ LockCache(w) \/ FindToFill(w) \/ GetFilterDetails(w)
  PROVE  EInv'
<1>1. /\ filters' = filters /\ result[w] # "ok"
      /\ pc[w] \in {"read", "lock", "fill", "details"}
  BY DEF ReadCache, LockCache, FindToFill, GetFilterDetails, zone, EInv
<1>2. cachedData # Absent => cachedData \in Listed
  BY <1>1 DEF EInv, CacheIsListed
<1>3. ASSUME UNCHANGED cachedData, NEW step \in {"lock", "fill", "details"}, NEW f,
             Goto(w, step) \/ GotoWith(w, step, f)
      PROVE  EInv'
  BY <1>1, <1>2, <1>3, SameListed, AloneMoves, WhereNext
<1>4. CASE ReadCache(w)
  BY <1>1, <1>2, <1>3, <1>4, AloneCompares DEF ReadCache, CacheIsValid, cache
<1>5. CASE LockCache(w)
  BY <1>1, <1>2, <1>3, <1>5, AloneCompares DEF LockCache, CacheIsValid
<1>6. CASE FindToFill(w)
  <2>1. CASE FillFails(w) /\ UNCHANGED <<cachedData, fresh>>
    BY <1>1, <2>1, AloneFails DEF FillFails
  <2>2. CASE Remember({}) /\ Compare(w, {})
    <3>1. {} \in Listed
      BY DEF Listed
    <3> QED BY <1>1, <2>2, <3>1, AloneCompares DEF Remember
  <2>3. ASSUME NEW f \in Found, GotoWith(w, "details", f), UNCHANGED cache
        PROVE  EInv'
    BY <1>3, <2>3 DEF cache
  <2> QED BY <1>6, <2>1, <2>2, <2>3 DEF FindToFill
<1>7. CASE GetFilterDetails(w)
  <2> DEFINE ranges == parseFilterExpression(filters[filterID[w]].expression)
  <2>1. filterID[w] \in DOMAIN filters /\ filterID[w] # 1
    BY <1>7 DEF GetFilterDetails, TypeOK, IInv, ForeignUntouched
  <2>2. ranges \in Listed
    BY <2>1, OwnIsListed
  <2> HIDE DEF ranges
  <2>3. CASE FillFails(w) /\ UNCHANGED <<cachedData, fresh>>
    BY <1>1, <2>3, AloneFails DEF FillFails
  <2>4. CASE Remember(ranges) /\ Compare(w, ranges)
    BY <1>1, <2>2, <2>4, AloneCompares DEF Remember
  <2> QED BY <1>7, <2>3, <2>4 DEF GetFilterDetails, ranges
<1> QED BY <1>4, <1>5, <1>6, <1>7

(* A filter that is added takes nothing away from what is listed.          *)
LEMMA ListedAfterPost ==
  ASSUME TypeOK, 1 \in DOMAIN filters, NEW e \in Filter, filters' = Append(filters, e)
  PROVE  /\ Listed \subseteq Listed'
         /\ Len(filters') \in DOMAIN filters' \ {1} /\ filters'[Len(filters')] = e
<1>1. /\ Len(filters) \in Nat /\ Len(filters') = Len(filters) + 1
      /\ DOMAIN filters' = 1 .. Len(filters) + 1 /\ DOMAIN filters = 1 .. Len(filters)
      /\ \A k \in 1 .. Len(filters) : filters'[k] = filters[k]
      /\ filters'[Len(filters) + 1] = e
  BY AppendProperties DEF TypeOK
<1>2. \A k \in DOMAIN filters : k \in DOMAIN filters' /\ filters'[k] = filters[k]
  BY <1>1
<1>3. Listed \subseteq Listed'
  BY <1>2 DEF Listed
<1>4. Len(filters) + 1 \in (1 .. Len(filters) + 1) \ {1}
  BY <1>1
<1> QED BY <1>1, <1>3, <1>4

(* The filter that is created lists what the call asks for.                *)
LEMMA PostListed ==
  ASSUME TypeOK, IInv, EInv, NEW w \in Workers, \A v \in Workers : v = w, PostFilter(w)
  PROVE  EInv'
<1> DEFINE e == [description |-> ruleName,
                 expression |-> buildFilterExpression(want[w])]
<1>1. pc[w] = "postFilter" /\ result[w] # "ok" /\ cachedData' = cachedData
  BY DEF PostFilter, EInv, cache
<1>2. cachedData # Absent => cachedData \in Listed
  BY <1>1 DEF EInv, CacheIsListed
<1>3. CASE Return(w, "error") /\ UNCHANGED zone
  BY <1>1, <1>3, AloneFails DEF zone
<1>4. CASE filters' = Append(filters, e) /\ (\/ GotoWith(w, "postRule", Len(filters'))
                                              \/ Unheard(w, "postFilter"))
  <2>1. e \in Filter /\ e.expression = buildFilterExpression(want[w])
    BY SentTyped
  <2> HIDE DEF e
  <2>2. /\ Listed \subseteq Listed'
        /\ Len(filters') \in DOMAIN filters' \ {1} /\ filters'[Len(filters')] = e
    BY <1>4, <2>1, ListedAfterPost DEF IInv, ZoneOK
  <2>3. cachedData' = Absent \/ cachedData' \in Listed'
    BY <1>1, <1>2, <2>2
  <2>4. CASE GotoWith(w, "postRule", Len(filters'))
    <3>1. filterID'[w] = Len(filters') /\ want'[w] = want[w]
      BY <2>4 DEF GotoWith, TypeOK
    <3>2. SentAsWanted(w)'
      BY <2>1, <2>2, <3>1 DEF SentAsWanted
    <3> QED BY <1>1, <2>3, <2>4, <3>2, AloneMoves, WhereNext
  <2>5. CASE Unheard(w, "postFilter")
    BY <2>3, <2>5, AloneMoves, WhereNext DEF Unheard
  <2> QED BY <1>4, <2>4, <2>5
<1> QED BY <1>3, <1>4 DEF PostFilter, Refused

(* So does the filter that is updated, whatever it listed before.          *)
LEMMA PutListed ==
  ASSUME TypeOK, IInv, EInv, NEW w \in Workers, \A v \in Workers : v = w,
         "putFilter" \notin Lost, PutFilter(w)
  PROVE  EInv'
<1> DEFINE e == [description |-> NoName,
                 expression |-> buildFilterExpression(want[w])]
<1>1. pc[w] = "putFilter" /\ result[w] # "ok" /\ cachedData' = cachedData
  BY DEF PutFilter, EInv, cache
<1>2. CASE Refused(w, "putFilter")
  BY <1>1, <1>2, AloneFails DEF Refused, zone
<1>3. CASE filters' = [filters EXCEPT ![filterID[w]] = e] /\ Goto(w, "storeUpdated")
  <2>1. filterID[w] \in DOMAIN filters \ {1}
    BY <1>1 DEF TypeOK, IInv, ForeignUntouched
  <2>2. e.expression = buildFilterExpression(want[w])
    OBVIOUS
  <2> HIDE DEF e
  <2>3. DOMAIN filters' = DOMAIN filters /\ filters'[filterID[w]] = e
    BY <1>3, <2>1 DEF TypeOK
  <2>4. SentAsWanted(w)'
    BY <1>3, <2>1, <2>2, <2>3 DEF SentAsWanted, Goto
  <2> QED BY <1>1, <1>3, <2>4, AloneMoves, WhereNext
<1> QED BY <1>2, <1>3 DEF PutFilter, Unheard

(* The steps that follow an update or creation, and the search before it.  *)
LEMMA FinishesListed ==
  ASSUME TypeOK, EInv, NEW w \in Workers, \A v \in Workers : v = w,
         FindToUpdate(w) \/ PostRule(w) \/ StoreCreated(w) \/ StoreUpdated(w)
  PROVE  EInv'
<1>1. filters' = filters /\ result[w] # "ok"
  BY DEF FindToUpdate, PostRule, StoreCreated, StoreUpdated, Refused, zone, EInv
<1>2. CASE FindToUpdate(w)
  <2>1. pc[w] = "find" /\ cachedData' = cachedData
    BY <1>2 DEF FindToUpdate, cache
  <2>2. cachedData # Absent => cachedData \in Listed
    BY <2>1 DEF EInv, CacheIsListed
  <2>3. CASE FindFails(w)
    BY <1>1, <2>1, <2>3, AloneFails DEF FindFails
  <2>4. ASSUME NEW step \in {"postFilter", "putFilter"}, NEW f,
               Goto(w, step) \/ GotoWith(w, step, f)
        PROVE  EInv'
    BY <1>1, <2>1, <2>2, <2>4, SameListed, AloneMoves, WhereNext
  <2> QED BY <1>2, <2>3, <2>4 DEF FindToUpdate
<1>3. CASE PostRule(w)
  <2>1. pc[w] = "postRule" /\ cachedData' = cachedData /\ SentAsWanted(w)
    BY <1>3 DEF PostRule, cache, EInv
  <2>2. cachedData # Absent => cachedData \in Listed
    BY <2>1 DEF EInv, CacheIsListed
  <2>3. CASE Return(w, "error")
    BY <1>1, <2>1, <2>3, AloneFails
  <2>4. CASE Goto(w, "storeCreated")
    <3>1. SentAsWanted(w)'
      BY <1>1, <2>1, <2>4 DEF SentAsWanted, Goto
    <3> QED BY <1>1, <2>1, <2>2, <2>4, <3>1, SameListed, AloneMoves, WhereNext
  <2> QED BY <1>3, <2>3, <2>4 DEF PostRule, Unheard, Refused
<1>4. ASSUME SentAsWanted(w), Return(w, "ok"), cachedData' \in Listed
      PROVE  EInv'
  BY <1>1, <1>4, SentIsListed, SameListed, AloneMoves, WhereNext
<1>5. CASE StoreCreated(w)
  <2>1. cachedData' \in Listed
    BY <1>5 DEF StoreCreated, Remember, parseFilterExpression, Listed
  <2> QED BY <1>4, <1>5, <2>1 DEF StoreCreated, EInv
<1>6. CASE StoreUpdated(w)
  <2>1. cachedData' = want[w]
    BY <1>6, ParseBuild DEF StoreUpdated, Remember, TypeOK
  <2>2. SentAsWanted(w)
    BY <1>6 DEF StoreUpdated, EInv
  <2> QED BY <1>4, <1>6, <2>1, <2>2, SentIsListed DEF StoreUpdated
<1> QED BY <1>2, <1>3, <1>5, <1>6

(* One worker, and no update of a filter that loses its response: for all  *)
(* lists, whatever else fails and wherever the process ends, a call that   *)
(* succeeded left its list in a filter of the ingress.  All its ranges are *)
(* in force then, unless that filter is one that never got its rule.       *)
THEOREM Enforcement ==
  ASSUME \A v, w \in Workers : v = w, "putFilter" \notin Lost
  PROVE  Spec => []SuccessMeansEnforced
<1>1. Init => EInv
  <2> SUFFICES ASSUME Init PROVE EInv
    OBVIOUS
  <2> QED BY DEF Init, EInv, CacheIsListed
<1>2. TypeOK /\ IInv /\ EInv /\ [Next]_vars => EInv'
  <2> SUFFICES ASSUME TypeOK, IInv, EInv, [Next]_vars PROVE EInv'
    OBVIOUS
  <2>1. ASSUME NEW w \in Workers, Step(w) PROVE EInv'
    BY <2>1, ReadsListed, PostListed, PutListed, FinishesListed DEF Step
  <2>2. ASSUME NEW w \in Workers, NEW ranges \in Wanted, ApplyIPRanges(w, ranges)
        PROVE  EInv'
    <3>1. /\ filters' = filters /\ pc' = [pc EXCEPT ![w] = "read"]
          /\ result' = [result EXCEPT ![w] = "none"] /\ cachedData' = cachedData
      BY <2>2 DEF ApplyIPRanges, zone, cache
    <3>2. cachedData # Absent => cachedData \in Listed
      <4>1. pc[w] = "idle"
        BY <2>2 DEF ApplyIPRanges
      <4> QED BY <4>1 DEF EInv, CacheIsListed
    <3>3. pc'[w] = "read" /\ result'[w] = "none"
      BY <3>1 DEF TypeOK
    <3> QED BY <3>1, <3>2, <3>3, SameListed, AloneMoves
  <2>3. CASE Expire
    BY <2>3, SameListed
       DEF Expire, zone, calls, EInv, CacheIsListed, SentAsWanted
  <2>4. CASE Restart
    BY <2>4 DEF Restart, EInv, CacheIsListed
  <2>5. CASE UNCHANGED vars
    BY <2>5, SameListed
       DEF vars, zone, cache, calls, EInv, CacheIsListed, SentAsWanted
  <2> QED BY <2>1, <2>2, <2>3, <2>4, <2>5 DEF Next
<1>3. EInv => SuccessMeansEnforced
  <2> SUFFICES ASSUME EInv, NEW w \in Workers, result[w] = "ok", want[w] # {}
               PROVE  \/ want[w] \subseteq Enforced
                      \/ \E f \in DOMAIN filters \ rules :
                           parseFilterExpression(filters[f].expression) = want[w]
    BY DEF SuccessMeansEnforced
  <2>1. PICK f \in DOMAIN filters \ {1} :
               parseFilterExpression(filters[f].expression) = want[w]
    BY DEF EInv, Listed
  <2>2. CASE f \in rules
    BY <2>1, <2>2 DEF Enforced
  <2>3. CASE f \notin rules
    BY <2>1, <2>3
  <2> QED BY <2>2, <2>3
<1> QED BY <1>1, <1>2, <1>3, TypeCorrect, ZoneInvariant, PTL DEF Spec

=============================================================================
