--------------------------- MODULE GitHubProvider ---------------------------
(***************************************************************************)
(* One GitHubProvider (pkg/providers/github/github.go) as the reconciler's *)
(* workers share it: a list of ranges that is cached for cacheTTL, and the *)
(* HTTP request, made with the cache locked, that replaces it.             *)
(*                                                                         *)
(* Time is discrete.  What matters of a list is its age: how long ago the  *)
(* server put it together.  Ages stop counting where nothing depends on    *)
(* them any more.                                                          *)
(***************************************************************************)
EXTENDS Naturals

CONSTANTS
  Workers,   \* goroutines that call FetchIPRanges
  Nobody,    \* the owner of an unlocked cacheMutex
  Absent,    \* a cache that is nil; what a call that fails returns
  cacheTTL,  \* the field of that name
  Timeout    \* httpClient.Timeout

ASSUME ConstantsAssumption ==
  /\ Nobody \notin Workers
  /\ Absent \notin Nat
  /\ cacheTTL \in Nat
  /\ Timeout \in Nat \ {0}

(* The bound of the ages: no list may be as old as this.                   *)
TooOld == cacheTTL + Timeout + 1

VARIABLES
  cachedData,  \* the age of the list in the cache, up to TooOld, or Absent
  lastFetch,   \* time.Since(lastFetch), up to cacheTTL
  cacheMutex,  \* who holds the write lock
  pc,          \* pc[w]: the next step of worker w
  elapsed,     \* elapsed[w]: the time since it sent its request
  response,    \* response[w]: the age of the list it is receiving
  result       \* result[w]: the age, on return, of the list its last call
               \*   returned, or Absent

cache == <<cachedData, lastFetch, cacheMutex>>
request == <<elapsed, response>>
vars == <<cache, pc, request, result>>

-----------------------------------------------------------------------------
Goto(w, step) == pc' = [pc EXCEPT ![w] = step]

Return(w, age) ==
  /\ Goto(w, "idle")
  /\ result' = [result EXCEPT ![w] = age]

FetchIPRanges(w) ==
  /\ pc[w] = "idle"
  /\ Goto(w, "read")
  /\ result' = [result EXCEPT ![w] = Absent]
  /\ UNCHANGED <<cache, request>>

CacheIsValid == cachedData # Absent /\ lastFetch < cacheTTL

HitRefreshing(w) == Return(w, cachedData) /\ lastFetch' = 0

Hit(w) == Return(w, cachedData) /\ UNCHANGED lastFetch

ReadCache(w) ==
  /\ pc[w] = "read"
  /\ cacheMutex = Nobody
  /\ \/ CacheIsValid /\ Hit(w)
     \/ ~CacheIsValid /\ Goto(w, "lock") /\ UNCHANGED <<lastFetch, result>>
  /\ UNCHANGED <<cachedData, cacheMutex, request>>

LockWithoutCheck(w) ==
  /\ pc[w] = "lock"
  /\ cacheMutex = Nobody
  /\ Goto(w, "send") /\ cacheMutex' = w /\ UNCHANGED result
  /\ UNCHANGED <<cachedData, lastFetch, request>>

(* The write lock is taken and the cache is looked at again.               *)
LockCache(w) ==
  /\ pc[w] = "lock"
  /\ cacheMutex = Nobody
  /\ \/ CacheIsValid /\ Hit(w) /\ UNCHANGED cacheMutex
     \/ ~CacheIsValid /\ Goto(w, "send") /\ cacheMutex' = w /\ UNCHANGED <<lastFetch, result>>
  /\ UNCHANGED <<cachedData, request>>

SendUnlocked(w) ==
  /\ pc[w] = "send"
  /\ Goto(w, "wait")
  /\ cacheMutex' = Nobody
  /\ elapsed' = [elapsed EXCEPT ![w] = 0]
  /\ UNCHANGED <<cachedData, lastFetch, response, result>>

SendRequest(w) ==
  /\ pc[w] = "send"
  /\ Goto(w, "wait")
  /\ elapsed' = [elapsed EXCEPT ![w] = 0]
  /\ UNCHANGED <<cache, response, result>>

(* The server puts the list together; the response is then on its way.     *)
ServerResponds(w) ==
  /\ pc[w] = "wait"
  /\ Goto(w, "receive")
  /\ response' = [response EXCEPT ![w] = 0]
  /\ UNCHANGED <<cache, elapsed, result>>

ReceiveList(w) ==
  /\ pc[w] = "receive"
  /\ cachedData' = response[w] /\ lastFetch' = 0
  /\ Return(w, response[w])
  /\ cacheMutex' = Nobody
  /\ UNCHANGED request

(* No connection, a status other than 200, a body that is no JSON; the     *)
(* cache, expired as it is, stays.  It is not what the call returns.       *)
FailLocked(w) == Return(w, Absent) /\ UNCHANGED cacheMutex

Fail(w) == Return(w, Absent) /\ cacheMutex' = Nobody

RequestFails(w) ==
  /\ pc[w] \in {"send", "wait", "receive"}
  /\ Fail(w)
  /\ UNCHANGED <<cachedData, lastFetch, request>>

(* The client's timeout covers the whole exchange.                         *)
InFlight(w) == pc[w] \in {"wait", "receive"}

TimesOut(w) == InFlight(w) /\ elapsed[w] = Timeout /\ RequestFails(w)

Older(age, bound) == IF age = Absent \/ age = bound THEN age ELSE age + 1

Tick ==
  /\ \A w \in Workers : InFlight(w) => elapsed[w] < Timeout
  /\ cachedData' = Older(cachedData, TooOld)
  /\ lastFetch' = Older(lastFetch, cacheTTL)
  /\ elapsed' = [w \in Workers |-> IF InFlight(w) THEN elapsed[w] + 1 ELSE elapsed[w]]
  /\ response' = [w \in Workers |-> IF pc[w] = "receive" THEN response[w] + 1
                                                         ELSE response[w]]
  /\ UNCHANGED <<cacheMutex, pc, result>>

Init ==
  /\ cachedData = Absent /\ lastFetch = cacheTTL /\ cacheMutex = Nobody
  /\ pc = [w \in Workers |-> "idle"]
  /\ elapsed = [w \in Workers |-> 0]
  /\ response = [w \in Workers |-> 0]
  /\ result = [w \in Workers |-> Absent]

Proceed(w) == ReadCache(w) \/ LockCache(w) \/ SendRequest(w)

Next ==
  \/ \E w \in Workers :
       \/ FetchIPRanges(w) \/ Proceed(w)
       \/ ServerResponds(w) \/ ReceiveList(w) \/ RequestFails(w)
  \/ Tick

Spec == Init /\ [][Next]_vars

(* The server need not answer; time passes, the client's timer fires, and  *)
(* sync.RWMutex lets nobody wait for ever.                                 *)
FairSpec ==
  /\ Spec
  /\ WF_vars(Tick)
  /\ \A w \in Workers : SF_vars(Proceed(w)) /\ WF_vars(TimesOut(w))

-----------------------------------------------------------------------------
(* Properties.                                                             *)

Ages == 0 .. TooOld

(* Types; the write lock is held exactly from the decision to make a       *)
(* request to the return.                                                  *)
TypeOK ==
  /\ cachedData \in {Absent} \cup Ages
  /\ lastFetch \in 0 .. cacheTTL
  /\ cacheMutex \in {Nobody} \cup Workers
  /\ \A w \in Workers : cacheMutex = w <=> pc[w] \in {"send", "wait", "receive"}
  /\ pc \in [Workers -> {"idle", "read", "lock", "send", "wait", "receive"}]
  /\ elapsed \in [Workers -> 0 .. Timeout]
  /\ response \in [Workers -> 0 .. Timeout]
  /\ result \in [Workers -> {Absent} \cup Ages]

(* A list that a call returns, from the cache or from the response, was    *)
(* put together by the server at most cacheTTL and one request ago: the    *)
(* age of the cache counts from the end of the request, the age of the     *)
(* list from its middle.                                                   *)
BoundedStaleness ==
  \A w \in Workers : result[w] # Absent => result[w] <= cacheTTL + Timeout

(* However many workers need the list, there is one request at a time, and *)
(* none while a list fetched less than cacheTTL ago is in the cache: the   *)
(* second look at the cache, with the write lock held.                     *)
OneFetchPerTTL ==
  /\ \A w \in Workers : InFlight(w) => ~CacheIsValid
  /\ \A v, w \in Workers : InFlight(v) /\ InFlight(w) => v = w

(* To its callers FetchIPRanges is one step (CachedList): for all that the *)
(* lock, the request and the second look at the cache take time, no call   *)
(* gets a list that was not in the cache at the moment of its return, and  *)
(* none fails or makes others wait for a request while the list is valid.  *)
Promise == INSTANCE CachedList WITH
             age <- cachedData, sinceFetch <- lastFetch,
             calling <- {w \in Workers : pc[w] # "idle"}

Implements == Promise!Spec

(* Every call of FetchIPRanges returns, even if the server never answers.  *)
CallsReturn == \A w \in Workers : pc[w] # "idle" ~> pc[w] = "idle"

=============================================================================
