-------------------------- MODULE CloudflareIngress --------------------------
(***************************************************************************)
(* One CloudflareIngress (pkg/ingress/cloudflare/cloudflare.go) and the    *)
(* zone it manages.  The zone has filters, which say what matches, and     *)
(* firewall rules, which act on what a filter matches.  The ingress finds  *)
(* its own filter by its description, the ruleName.                        *)
(*                                                                         *)
(* The Cloudflare API is not part of the repository.  It is modelled by    *)
(* what the code relies on: a list of filters, a PUT that replaces a       *)
(* filter, a POST that adds one; each request is one step.                 *)
(***************************************************************************)
EXTENDS Naturals, Sequences, FiniteSets

CONSTANTS
  Workers,      \* goroutines that call ApplyIPRanges
  CIDRs,        \* the CIDRs a list can have
  Wanted,       \* the lists the reconciler asks for
  ruleName,     \* the description of the filter this ingress looks for
  NoName,       \* the description of a filter that was sent without one
  OtherName,    \* the description of a filter that somebody else made
  EmptyRule,    \* the expression (ip.src eq 0.0.0.0/32)
  NoExpression, \* the empty string
  Nobody,       \* the owner of an unlocked cacheMutex
  Absent,       \* a cache that is nil
  Rejected,     \* the requests that may fail without effect
  Lost,         \* the writes whose response may be lost
  Expiry,       \* whether cacheTTL can go by
  Crashes,      \* whether the process may be restarted
  Quota         \* how many filters the zone may have

Writes == {"postFilter", "postRule", "putFilter"}

ASSUME ConstantsAssumption ==
  /\ IsFiniteSet(Workers)
  /\ Wanted \subseteq SUBSET CIDRs
  /\ \A ranges \in SUBSET CIDRs : ranges \notin {EmptyRule, NoExpression, Absent}
  /\ Nobody \notin Workers
  /\ ruleName # NoName /\ ruleName # OtherName /\ NoName # OtherName
  /\ Rejected \subseteq {"list", "details"} \cup Writes /\ Lost \subseteq Writes
  /\ Expiry \in BOOLEAN /\ Crashes \in BOOLEAN
  /\ Quota \in Nat \ {0}

VARIABLES
  filters,     \* the filters of the zone, in the order of their creation
  rules,       \* the indices of the filters on which a firewall rule acts
  cachedData,  \* the field of that name; Absent stands for nil
  fresh,       \* time.Since(lastFetch) < cacheTTL
  cacheMutex,  \* who holds the write lock
  pc,          \* pc[w]: the next step of worker w
  want,        \* want[w]: the argument of its last ApplyIPRanges
  filterID,    \* filterID[w]: the filter it has in hand, or 0
  result       \* result[w]: what that call has returned

zone == <<filters, rules>>
cache == <<cachedData, fresh, cacheMutex>>
calls == <<pc, want, filterID, result>>
vars == <<zone, cache, calls>>

Filter == [description : {ruleName, NoName, OtherName},
           expression : {EmptyRule} \cup SUBSET CIDRs]

(* A list of CIDRs in braces is represented by its set; an expression      *)
(* without braces cannot be parsed and counts as an empty list.            *)
buildFilterExpression(ranges) == IF ranges = {} THEN EmptyRule ELSE ranges

parseFilterExpression(expression) ==
  IF expression \in {EmptyRule, NoExpression} THEN {} ELSE expression

-----------------------------------------------------------------------------
Goto(w, step) ==
  /\ pc' = [pc EXCEPT ![w] = step]
  /\ UNCHANGED <<want, filterID, result>>

GotoWith(w, step, f) ==
  /\ pc' = [pc EXCEPT ![w] = step]
  /\ filterID' = [filterID EXCEPT ![w] = f]
  /\ UNCHANGED <<want, result>>

Return(w, outcome) ==
  /\ pc' = [pc EXCEPT ![w] = "idle"]
  /\ filterID' = [filterID EXCEPT ![w] = 0]
  /\ result' = [result EXCEPT ![w] = outcome]
  /\ UNCHANGED want

CompareRemovedOnly(w, current) ==
  IF current \subseteq want[w] THEN Return(w, "ok") ELSE Goto(w, "find")

(* The end of GetCurrentIPRanges: without a difference ApplyIPRanges has   *)
(* nothing to do; both update strategies replace the whole list.           *)
Compare(w, current) ==
  IF current = want[w] THEN Return(w, "ok") ELSE Goto(w, "find")

Remember(ranges) == cachedData' = ranges /\ fresh' = TRUE

ApplyIPRanges(w, ranges) ==
  /\ pc[w] = "idle"
  /\ pc' = [pc EXCEPT ![w] = "read"]
  /\ want' = [want EXCEPT ![w] = ranges]
  /\ result' = [result EXCEPT ![w] = "none"]
  /\ UNCHANGED <<zone, cache, filterID>>

CacheIsValid == cachedData # Absent /\ fresh

ReadCache(w) ==
  /\ pc[w] = "read"
  /\ cacheMutex = Nobody
  /\ IF CacheIsValid THEN Compare(w, cachedData) ELSE Goto(w, "lock")
  /\ UNCHANGED <<zone, cache>>

LockCache(w) ==
  /\ pc[w] = "lock"
  /\ cacheMutex = Nobody
  /\ IF CacheIsValid
       THEN Compare(w, cachedData) /\ UNCHANGED cacheMutex
       ELSE Goto(w, "fill") /\ cacheMutex' = w
  /\ UNCHANGED <<zone, cachedData, fresh>>

(* findFilterID returns the first match; the API promises no order.        *)
MatchesAnything(f) == TRUE

Matches(f) == filters[f].description = ruleName

Found == {f \in DOMAIN filters : Matches(f)}

FillFailsLocked(w) == Return(w, "error") /\ UNCHANGED cacheMutex

FillFails(w) == Return(w, "error") /\ cacheMutex' = Nobody

FindToFill(w) ==
  /\ pc[w] = "fill"
  /\ \/ /\ "list" \in Rejected
        /\ FillFails(w)
        /\ UNCHANGED <<cachedData, fresh>>
     \/ /\ Found = {}
        /\ Remember({})
        /\ Compare(w, {})
        /\ cacheMutex' = Nobody
     \/ /\ \E f \in Found : GotoWith(w, "details", f)
        /\ UNCHANGED cache
  /\ UNCHANGED zone

GetFilterDetails(w) ==
  LET ranges == parseFilterExpression(filters[filterID[w]].expression) IN
  /\ pc[w] = "details"
  /\ \/ /\ "details" \in Rejected
        /\ FillFails(w)
        /\ UNCHANGED <<cachedData, fresh>>
     \/ /\ Remember(ranges)
        /\ Compare(w, ranges)
        /\ cacheMutex' = Nobody
  /\ UNCHANGED zone

-----------------------------------------------------------------------------
(* createOrUpdateRule.                                                     *)

FindFailsCreating(w) == Goto(w, "postFilter")

FindFails(w) == Return(w, "error")

FindToUpdate(w) ==
  /\ pc[w] = "find"
  /\ \/ "list" \in Rejected /\ FindFails(w)
     \/ Found = {} /\ Goto(w, "postFilter")
     \/ \E f \in Found : GotoWith(w, "putFilter", f)
  /\ UNCHANGED <<zone, cache>>

(* Every write can also fail without effect, or have its effect and fail.  *)
Refused(w, request) == request \in Rejected /\ Return(w, "error") /\ UNCHANGED zone

Unheard(w, request) == request \in Lost /\ Return(w, "error")

PostFilter(w) ==
  /\ pc[w] = "postFilter"
  /\ \/ /\ Len(filters) < Quota
        /\ filters' = Append(filters, [description |-> ruleName,
                                       expression |-> buildFilterExpression(want[w])])
        /\ UNCHANGED rules
        /\ GotoWith(w, "postRule", Len(filters')) \/ Unheard(w, "postFilter")
     \/ Len(filters) >= Quota /\ Return(w, "error") /\ UNCHANGED zone
     \/ Refused(w, "postFilter")
  /\ UNCHANGED cache

PostRule(w) ==
  /\ pc[w] = "postRule"
  /\ \/ /\ rules' = rules \cup {filterID[w]}
        /\ UNCHANGED filters
        /\ Goto(w, "storeCreated") \/ Unheard(w, "postRule")
     \/ Refused(w, "postRule")
  /\ UNCHANGED cache

(* The filter sent by updateRule has no description, and PUT replaces.     *)
PutFilter(w) ==
  /\ pc[w] = "putFilter"
  /\ \/ /\ filters' = [filters EXCEPT ![filterID[w]] =
                         [description |-> NoName,
                          expression |-> buildFilterExpression(want[w])]]
        /\ UNCHANGED rules
        /\ Goto(w, "storeUpdated") \/ Unheard(w, "putFilter")
     \/ Refused(w, "putFilter")
  /\ UNCHANGED cache

(* createFirewallRule parses the expression of the rule it has sent, which *)
(* holds only the filter's ID.                                             *)
StoreCreated(w) ==
  /\ pc[w] = "storeCreated"
  /\ cacheMutex = Nobody
  /\ Remember(parseFilterExpression(NoExpression))
  /\ Return(w, "ok")
  /\ UNCHANGED <<zone, cacheMutex>>

StoreUpdated(w) ==
  /\ pc[w] = "storeUpdated"
  /\ cacheMutex = Nobody
  /\ Remember(parseFilterExpression(buildFilterExpression(want[w])))
  /\ Return(w, "ok")
  /\ UNCHANGED <<zone, cacheMutex>>

Step(w) ==
  \/ ReadCache(w) \/ LockCache(w) \/ FindToFill(w) \/ GetFilterDetails(w)
  \/ FindToUpdate(w) \/ PostFilter(w) \/ PostRule(w) \/ PutFilter(w)
  \/ StoreCreated(w) \/ StoreUpdated(w)

-----------------------------------------------------------------------------
Expire ==
  /\ Expiry
  /\ fresh
  /\ fresh' = FALSE
  /\ UNCHANGED <<zone, cachedData, cacheMutex, calls>>

Restart ==
  /\ Crashes
  /\ cachedData' = Absent /\ fresh' = FALSE /\ cacheMutex' = Nobody
  /\ pc' = [w \in Workers |-> "idle"]
  /\ filterID' = [w \in Workers |-> 0]
  /\ result' = [w \in Workers |-> "none"]
  /\ UNCHANGED <<zone, want>>

(* The zone starts with a filter and a rule that somebody else made.       *)
Foreign == [description |-> OtherName, expression |-> EmptyRule]

Init ==
  /\ filters = <<Foreign>> /\ rules = {1}
  /\ cachedData = Absent /\ fresh = FALSE /\ cacheMutex = Nobody
  /\ pc = [w \in Workers |-> "idle"]
  /\ want = [w \in Workers |-> {}]
  /\ filterID = [w \in Workers |-> 0]
  /\ result = [w \in Workers |-> "none"]

Next ==
  \/ \E w \in Workers : Step(w) \/ \E ranges \in Wanted : ApplyIPRanges(w, ranges)
  \/ Expire \/ Restart

Spec == Init /\ [][Next]_vars

(* The HTTP client gives up on a request after 30 seconds, and             *)
(* sync.RWMutex lets nobody wait for ever.                                 *)
FairSpec == Spec /\ \A w \in Workers : SF_vars(Step(w))

-----------------------------------------------------------------------------
(* Properties.                                                             *)

(* Types; cacheMutex is held for the two requests of GetCurrentIPRanges    *)
(* only; a request that names a filter names one of the zone's.            *)
TypeOK ==
  /\ filters \in Seq(Filter) /\ Len(filters) <= Quota
  /\ rules \subseteq DOMAIN filters
  /\ cachedData \in {Absent} \cup SUBSET CIDRs
  /\ fresh \in BOOLEAN
  /\ cacheMutex \in Workers \cup {Nobody}
  /\ \A w \in Workers : cacheMutex = w <=> pc[w] \in {"fill", "details"}
  /\ pc \in [Workers -> {"idle", "read", "lock", "fill", "details", "find",
                         "storeCreated", "storeUpdated"} \cup Writes]
  /\ want \in [Workers -> SUBSET CIDRs]
  /\ filterID \in [Workers -> {0} \cup DOMAIN filters]
  /\ \A w \in Workers :
       pc[w] \in {"details", "postRule", "putFilter"} => filterID[w] # 0
  /\ result \in [Workers -> {"none", "ok", "error"}]

(* Whatever fails, races or restarts, the ingress never touches a filter   *)
(* that somebody else made, nor puts a rule of its own on it.              *)
ForeignUntouched ==
  /\ filters[1] = Foreign
  /\ \A w \in Workers : filterID[w] # 1

(* Whatever requests fail or lose their response, and wherever the process *)
(* ends, there are never more filters with the ruleName than workers: a    *)
(* filter is only created when the search for it has succeeded and found   *)
(* none, so that one worker at a time keeps the name unique, and workers   *)
(* that race can each add one and no more.                                 *)
NamedFiltersBounded == Cardinality(Found) <= Cardinality(Workers)

(* What traffic the rules of this ingress match.                           *)
Enforced == UNION {parseFilterExpression(filters[f].expression) : f \in rules \ {1}}

(* With one worker at a time, whatever is refused, whichever creations     *)
(* lose their response and wherever the process ends, as long as no update *)
(* of a filter loses its response: a call that returns nil, also when the  *)
(* diff said there was nothing to do, leaves all the ranges of its list in *)
(* force, with one exception: a filter has that list and no rule acts on   *)
(* it, because the request for its rule failed or was never made.  Such a  *)
(* filter keeps the name, and the calls after it find it, update it and    *)
(* return nil.                                                             *)
SuccessMeansEnforced ==
  \A w \in Workers : result[w] = "ok" =>
    \/ want[w] \subseteq Enforced
    \/ \E f \in DOMAIN filters \ rules :
         parseFilterExpression(filters[f].expression) = want[w]

(* Every call of ApplyIPRanges returns, whoever holds the cache's lock.    *)
ApplyReturns == \A w \in Workers : pc[w] # "idle" ~> pc[w] = "idle"

-----------------------------------------------------------------------------
(* What the documentation says and the code does not do.                   *)

(* "Cloudflare: Updates firewall rules with latest IP ranges": the ranges  *)
(* in force are those of the list, and no others, after each call that     *)
(* returns nil.  (False after an update, which clears the description.)    *)
OnlyLatestEnforced ==
  \A w \in Workers : result[w] = "ok" => Enforced = want[w]

=============================================================================
