--------------------------- MODULE RangePipeline ---------------------------
(***************************************************************************)
(* What becomes of the published lists in one reconciliation: the GitHub   *)
(* provider converts its response category by category, the reconciler     *)
(* filters and merges (collectProviderIPRanges), the ingress compares the  *)
(* result with the ranges it has (ApplyIPRanges).                          *)
(***************************************************************************)
EXTENDS IPRange

CONSTANTS
  Categories,  \* the categories of the response, in the order of conversion
  Responses,   \* the responses a provider may get: [category -> Seq(CIDRs)]
  References,  \* the provider references of a SyncConfig, with their filters:
               \*   a set of sequences of records [include, exclude]
  Current      \* the sets of ranges that the ingress may have

ASSUME PipelineAssumption ==
  LET names == {Categories[k] : k \in DOMAIN Categories} IN
  /\ Categories \in Seq(Labels)
  /\ Responses \subseteq [names -> Seq(CIDRs)]
  /\ References \subseteq Seq([include : SUBSET Labels, exclude : SUBSET Labels])
  /\ Current \subseteq Seq(LabelledCIDR)

VARIABLES
  providers,    \* the references of the SyncConfig
  metadata,     \* metadata[k]: the response that the k-th provider got
  pos,          \* the provider at work
  category,     \* the category it converts next
  ipRangeSet,   \* what it has converted so far
  allRanges,    \* what the reconciler has collected so far
  current,      \* what the ingress has
  diff          \* the result of the comparison

vars == <<providers, metadata, pos, category, ipRangeSet, allRanges, current, diff>>
fixed == <<providers, metadata, current>>

NoDiff == [added |-> {}, removed |-> {}]

ConvertCategory ==
  /\ pos <= Len(providers)
  /\ category <= Len(Categories)
  /\ LET name == Categories[category]
     IN ipRangeSet' = AddAll(ipRangeSet, metadata[pos][name], {name})
  /\ category' = category + 1
  /\ UNCHANGED <<fixed, pos, allRanges, diff>>

(* Filter is called only when there is something to filter by.             *)
filteredRanges ==
  LET ref == providers[pos] IN
  IF ref.include # {} \/ ref.exclude # {}
    THEN Filter(ipRangeSet, ref.include, ref.exclude)
    ELSE ipRangeSet

FilterAndMerge ==
  /\ pos <= Len(providers)
  /\ category > Len(Categories)
  /\ allRanges' = Merge(allRanges, filteredRanges)
  /\ pos' = pos + 1
  /\ category' = 1
  /\ ipRangeSet' = NewIPRangeSet
  /\ UNCHANGED <<fixed, diff>>

Collected == pos = Len(providers) + 1

Compared == pos = Len(providers) + 2

CompareWithCurrent ==
  /\ Collected
  /\ diff' = Diff(current, allRanges)
  /\ pos' = pos + 1
  /\ UNCHANGED <<fixed, category, ipRangeSet, allRanges>>

Init ==
  /\ providers \in References
  /\ metadata \in [DOMAIN providers -> Responses]
  /\ pos = 1
  /\ category = 1
  /\ ipRangeSet = NewIPRangeSet
  /\ allRanges = NewIPRangeSet
  /\ current \in Current
  /\ diff = NoDiff

Next == ConvertCategory \/ FilterAndMerge \/ CompareWithCurrent

Spec == Init /\ [][Next]_vars

-----------------------------------------------------------------------------
(* Properties.                                                             *)

(* The ranges collected are the well-formed CIDRs of the categories that   *)
(* each reference selects: those it includes, or all if it names none,     *)
(* without those it excludes.  Neither a malformed CIDR nor a CIDR that is *)
(* listed twice or by two providers makes another one go missing.          *)
Selected(ref) ==
  {c \in {Categories[k] : k \in DOMAIN Categories} :
     (ref.include = {} \/ c \in ref.include) /\ c \notin ref.exclude}

Published(k, name) == {metadata[k][name][j] : j \in DOMAIN metadata[k][name]}

CollectedIsSelected ==
  Collected =>
    GetCIDRs(allRanges) =
      WellFormed \cap
        UNION {UNION {Published(k, name) : name \in Selected(providers[k])} :
                 k \in DOMAIN providers}

(* The difference is the exact change from the ranges of the ingress to    *)
(* those collected, though CIDRs repeat and the labels of the two sides    *)
(* never agree (an ingress labels its ranges with its own type): adding    *)
(* and removing it gives the new CIDRs, it is empty exactly when the CIDRs *)
(* are the same, and it does not add what it removes.                      *)
DiffIsTheChange ==
  Compared =>
    LET old == GetCIDRs(current)
        new == GetCIDRs(allRanges)
        added == {r.cidr : r \in diff.added}
        removed == {r.cidr : r \in diff.removed}
    IN /\ (old \ removed) \cup added = new
       /\ added \cap removed = {}
       /\ NoChanges(diff) <=> old = new

=============================================================================
