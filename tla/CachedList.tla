----------------------------- MODULE CachedList -----------------------------
(***************************************************************************)
(* What a provider promises its callers: a list that is kept for cacheTTL  *)
(* and then replaced, as if every call were a single step.  A call returns *)
(* the list that is kept while it is valid.  Only when it is not, the call *)
(* replaces it by one that is at most Timeout old, or fails and keeps it.  *)
(***************************************************************************)
EXTENDS Naturals

CONSTANTS Workers, Absent, cacheTTL, Timeout

VARIABLES
  age,        \* of the list that is kept, or Absent
  sinceFetch, \* the time since it was replaced, up to cacheTTL
  calling,    \* the workers with a call in progress
  result      \* result[w]: the age, on return, of the list last returned to w

vars == <<age, sinceFetch, calling, result>>

Valid == age # Absent /\ sinceFetch < cacheTTL

Call(w) ==
  /\ w \notin calling
  /\ calling' = calling \cup {w}
  /\ result' = [result EXCEPT ![w] = Absent]
  /\ UNCHANGED <<age, sinceFetch>>

Return(w, list) ==
  /\ w \in calling
  /\ calling' = calling \ {w}
  /\ result' = [result EXCEPT ![w] = list]

Hit(w) == Valid /\ Return(w, age) /\ UNCHANGED <<age, sinceFetch>>

Replace(w) ==
  /\ ~Valid
  /\ \E list \in 0 .. Timeout :
       /\ age' = list /\ sinceFetch' = 0
       /\ Return(w, list)

Fail(w) == ~Valid /\ Return(w, Absent) /\ UNCHANGED <<age, sinceFetch>>

(* Time passes; a list that is too old to be used need not be told apart   *)
(* from an older one.                                                      *)
Tick ==
  /\ age' = IF age = Absent \/ age = cacheTTL + Timeout + 1 THEN age ELSE age + 1
  /\ sinceFetch' = IF sinceFetch = cacheTTL THEN sinceFetch ELSE sinceFetch + 1
  /\ UNCHANGED <<calling, result>>

Init ==
  /\ age = Absent /\ sinceFetch = cacheTTL
  /\ calling = {}
  /\ result = [w \in Workers |-> Absent]

Next ==
  \/ \E w \in Workers : Call(w) \/ Hit(w) \/ Replace(w) \/ Fail(w)
  \/ Tick

Spec == Init /\ [][Next]_vars

=============================================================================
