------------------------------ MODULE IPRange ------------------------------
(***************************************************************************)
(* IPRangeSet of pkg/model/iprange.go: despite its name a sequence of      *)
(* ranges, in which a CIDR can occur several times under different labels. *)
(***************************************************************************)
EXTENDS Naturals, Sequences, FiniteSets

CONSTANTS
  CIDRs,       \* the strings that stand where a CIDR is expected
  WellFormed,  \* those that net.ParseCIDR accepts
  Labels

ASSUME CIDRsAssumption == WellFormed \subseteq CIDRs

LabelledCIDR == [cidr : WellFormed, labels : SUBSET Labels]

NewIPRangeSet == <<>>

(* The CIDRs of a set, as GetCIDRs lists them.                             *)
GetCIDRs(s) == {s[k].cidr : k \in DOMAIN s}

Count(s) == Len(s)

(* The loop that appends to its result those elements of s that are in S.  *)
Kept(s, S) ==
  LET upTo[n \in 0 .. Len(s)] ==
        IF n = 0 THEN <<>>
        ELSE IF s[n] \in S THEN Append(upTo[n - 1], s[n]) ELSE upTo[n - 1]
  IN upTo[Len(s)]

(* Add for each of a list of CIDRs; the callers log the error and go on.   *)
AddAll(s, cidrs, labels) ==
  LET valid == Kept(cidrs, WellFormed)
  IN s \o [k \in 1 .. Len(valid) |-> [cidr |-> valid[k], labels |-> labels]]

Included(range, includeLabels) ==
  includeLabels = {} \/ range.labels \cap includeLabels # {}

Excluded(range, excludeLabels) == range.labels \cap excludeLabels # {}

FilterIncludeWins(s, includeLabels, excludeLabels) ==
  Kept(s, {r \in LabelledCIDR :
             \/ Included(r, includeLabels) /\ includeLabels # {}
             \/ includeLabels = {} /\ ~Excluded(r, excludeLabels)})

Filter(s, includeLabels, excludeLabels) ==
  Kept(s, {r \in LabelledCIDR :
             Included(r, includeLabels) /\ ~Excluded(r, excludeLabels)})

Merge(s, t) == s \o t

(* The map that Diff builds of a set: of ranges with the same CIDR the     *)
(* last one stays.                                                         *)
ByCIDR(s) ==
  [c \in GetCIDRs(s) |->
     LET k == CHOOSE k \in DOMAIN s :
                s[k].cidr = c /\ \A j \in DOMAIN s : s[j].cidr = c => j <= k
     IN s[k]]

(* The ranges of t whose CIDR is not in s.  Diff collects them in the      *)
(* order in which Go walks a map, that is in none.                         *)
MissingByRange(s, t) ==
  {t[k] : k \in {k \in DOMAIN t : \A j \in DOMAIN s : s[j] # t[k]}}

Missing(s, t) ==
  {ByCIDR(t)[c] : c \in DOMAIN ByCIDR(t) \ DOMAIN ByCIDR(s)}

Diff(s, t) == [added |-> Missing(s, t), removed |-> Missing(t, s)]

(* What ApplyIPRanges asks of a difference: added.Count() and              *)
(* removed.Count() are 0.                                                  *)
NoChanges(diff) == diff.added = {} /\ diff.removed = {}

=============================================================================
