---------------------------- MODULE IPRangeProofs ----------------------------
(***************************************************************************)
(* Diff compares two sets by their CIDRs and by nothing else, although it  *)
(* collects ranges: the reason why the modules of the ingresses represent  *)
(* a list of ranges by the set of its CIDRs.  And the pipeline passes on   *)
(* what the references select, for any responses, filters and categories.  *)
(***************************************************************************)
EXTENDS RangePipeline, SequenceTheorems, WellFoundedInduction, TLAPS

(* The map of a set has its CIDRs as keys.                                 *)
LEMMA KeysAreCIDRs ==
  ASSUME NEW s \in Seq(LabelledCIDR)
  PROVE  DOMAIN ByCIDR(s) = GetCIDRs(s)
BY DEF ByCIDR

(* Nothing is missing exactly when every CIDR of t is in s.                *)
LEMMA MissingEmpty ==
  ASSUME NEW s \in Seq(LabelledCIDR), NEW t \in Seq(LabelledCIDR)
  PROVE  Missing(s, t) = {} <=> GetCIDRs(t) \subseteq GetCIDRs(s)
BY KeysAreCIDRs DEF Missing

(* For all sets, with any CIDRs and labels and in any order, an ingress    *)
(* sees no difference exactly when the CIDRs are the same: a change of     *)
(* labels, of order or of multiplicity is never applied, and no change of  *)
(* a CIDR is missed.                                                       *)
THEOREM DiffComparesCIDRs ==
  ASSUME NEW s \in Seq(LabelledCIDR), NEW t \in Seq(LabelledCIDR)
  PROVE  NoChanges(Diff(s, t)) <=> GetCIDRs(s) = GetCIDRs(t)
<1>1. Missing(s, t) = {} <=> GetCIDRs(t) \subseteq GetCIDRs(s)
  BY MissingEmpty
<1>2. Missing(t, s) = {} <=> GetCIDRs(s) \subseteq GetCIDRs(t)
  BY MissingEmpty
<1> QED BY <1>1, <1>2 DEF NoChanges, Diff

(* A set of positions that is not empty has a last one.                    *)
LEMMA LastPosition ==
  ASSUME NEW n \in Nat, NEW P, P \subseteq 1 .. n, P # {}
  PROVE  \E k \in P : \A j \in P : j <= k
<1> DEFINE T == {n - k : k \in P}
<1>1. T \subseteq Nat /\ T # {}
  <2>1. ASSUME NEW k \in P PROVE n - k \in Nat
    <3>1. k \in 1 .. n
      OBVIOUS
    <3> QED BY <3>1
  <2> QED BY <2>1
<1>2. PICK m \in T : \A i \in T : ~ (<<i, m>> \in OpToRel(<, Nat))
  <2> HIDE DEF T
  <2> QED BY <1>1, NatLessThanWellFounded, WFMin
<1>3. \A i \in T : ~ (i < m)
  BY <1>1, <1>2 DEF OpToRel
<1>4. PICK k \in P : m = n - k
  OBVIOUS
<1>5. ASSUME NEW j \in P PROVE j <= k
  <2>1. n - j \in T
    OBVIOUS
  <2>2. ~ (n - j < n - k)
    BY <1>3, <1>4, <2>1
  <2> QED BY <2>2
<1> QED BY <1>5

(* Of several ranges with one CIDR the map has one, and it is of the set.  *)
LEMMA ByCIDRType ==
  ASSUME NEW s \in Seq(LabelledCIDR), NEW c \in GetCIDRs(s)
  PROVE  ByCIDR(s)[c].cidr = c /\ \E k \in DOMAIN s : ByCIDR(s)[c] = s[k]
<1> DEFINE P == {k \in DOMAIN s : s[k].cidr = c}
           Last(k) == s[k].cidr = c /\ \A j \in DOMAIN s : s[j].cidr = c => j <= k
<1>1. P \subseteq 1 .. Len(s) /\ P # {} /\ Len(s) \in Nat
  BY DEF GetCIDRs
<1>2. PICK k \in P : \A j \in P : j <= k
  <2> HIDE DEF P
  <2> QED BY <1>1, LastPosition
<1>3. \E i \in DOMAIN s : Last(i)
  BY <1>2
<1>4. ByCIDR(s)[c] = s[CHOOSE i \in DOMAIN s : Last(i)]
  BY DEF ByCIDR
<1> QED BY <1>3, <1>4

(* What is missing of t in s has the CIDRs of t that s does not have.      *)
LEMMA MissingIsTheRest ==
  ASSUME NEW s \in Seq(LabelledCIDR), NEW t \in Seq(LabelledCIDR)
  PROVE  {r.cidr : r \in Missing(s, t)} = GetCIDRs(t) \ GetCIDRs(s)
<1>1. Missing(s, t) = {ByCIDR(t)[c] : c \in GetCIDRs(t) \ GetCIDRs(s)}
  BY KeysAreCIDRs DEF Missing
<1>2. \A c \in GetCIDRs(t) : ByCIDR(t)[c].cidr = c
  BY ByCIDRType
<1> QED BY <1>1, <1>2

(* For all sets the difference is the exact change: removing and adding    *)
(* what it says turns the CIDRs of s into those of t, and it says nothing  *)
(* of those that both have.                                                *)
THEOREM DiffIsExact ==
  ASSUME NEW s \in Seq(LabelledCIDR), NEW t \in Seq(LabelledCIDR)
  PROVE  LET added == {r.cidr : r \in Diff(s, t).added}
             removed == {r.cidr : r \in Diff(s, t).removed}
         IN /\ (GetCIDRs(s) \ removed) \cup added = GetCIDRs(t)
            /\ added \cap GetCIDRs(s) = {} /\ removed \cap GetCIDRs(t) = {}
<1>1. {r.cidr : r \in Diff(s, t).added} = GetCIDRs(t) \ GetCIDRs(s)
  BY MissingIsTheRest DEF Diff
<1>2. {r.cidr : r \in Diff(s, t).removed} = GetCIDRs(s) \ GetCIDRs(t)
  BY MissingIsTheRest DEF Diff
<1> QED BY <1>1, <1>2

-----------------------------------------------------------------------------
(* The loops over lists.                                                   *)

(* A set that holds 0 and with each number the next one holds all numbers. *)
LEMMA Induction ==
  ASSUME NEW A, 0 \in A, \A n \in Nat : n \in A => n + 1 \in A
  PROVE  Nat \subseteq A
<1>1. SUFFICES ASSUME Nat \ A # {} PROVE FALSE
  OBVIOUS
<1>2. PICK m \in Nat \ A : \A i \in Nat \ A : ~ (<<i, m>> \in OpToRel(<, Nat))
  BY <1>1, NatLessThanWellFounded, WFMin
<1>3. m # 0 /\ m - 1 \in Nat /\ m - 1 < m
  <2>1. m # 0
    OBVIOUS
  <2> QED BY <2>1
<1>4. m - 1 \in A
  BY <1>2, <1>3 DEF OpToRel
<1>5. (m - 1) + 1 \in A
  BY <1>3, <1>4
<1> QED BY <1>3, <1>5

(* What the loop has kept after n elements, as a function of n.            *)
LEMMA KeptSteps ==
  ASSUME NEW T, NEW s \in Seq(T), NEW S
  PROVE  \E f : /\ Kept(s, S) = f[Len(s)]
                /\ f[0] = <<>>
                /\ \A n \in 1 .. Len(s) :
                     f[n] = IF s[n] \in S THEN Append(f[n - 1], s[n]) ELSE f[n - 1]
<1> DEFINE Turn(g, n) == IF n = 0 THEN <<>>
                         ELSE IF s[n] \in S THEN Append(g[n - 1], s[n]) ELSE g[n - 1]
           IsUpTo(g, m) == g = [n \in 0 .. m |-> Turn(g, n)]
           A == {m \in Nat : \E g : IsUpTo(g, m)}
<1>1. 0 \in A
  <2> DEFINE g == [n \in 0 .. 0 |-> <<>>]
  <2>1. IsUpTo(g, 0)
    OBVIOUS
  <2> QED BY <2>1
<1>2. ASSUME NEW m \in Nat, m \in A PROVE m + 1 \in A
  <2>1. PICK g : IsUpTo(g, m)
    BY <1>2
  <2> DEFINE h == [n \in 0 .. m + 1 |-> IF n = m + 1 THEN Turn(g, n) ELSE g[n]]
  <2>2. ASSUME NEW n \in 0 .. m + 1 PROVE h[n] = Turn(h, n)
    <3>1. CASE n = 0
      BY <2>1, <3>1
    <3>2. CASE n # 0
      <4>1. n - 1 \in 0 .. m
        BY <3>2
      <4>2. h[n - 1] = g[n - 1]
        BY <4>1
      <4>3. h[n] = Turn(g, n)
        <5>1. CASE n = m + 1
          <6> HIDE DEF Turn
          <6> QED BY <5>1
        <5>2. CASE n # m + 1
          <6>1. n \in 0 .. m /\ h[n] = g[n]
            BY <5>2
          <6> HIDE DEF Turn, h
          <6> QED BY <2>1, <6>1
        <5> QED BY <5>1, <5>2
      <4> HIDE DEF h
      <4>4. Turn(g, n) = Turn(h, n)
        BY <4>2, <3>2
      <4> QED BY <4>3, <4>4
    <3> QED BY <3>1, <3>2
  <2>3. IsUpTo(h, m + 1)
    <3>1. h = [n \in 0 .. m + 1 |-> h[n]]
      OBVIOUS
    <3> HIDE DEF h
    <3> QED BY <2>2, <3>1
  <2> HIDE DEF IsUpTo
  <2> QED BY <2>3
<1>3. Len(s) \in A
  <2> HIDE DEF A
  <2> QED BY <1>1, <1>2, Induction
<1> DEFINE f == CHOOSE g : IsUpTo(g, Len(s))
<1>4. IsUpTo(f, Len(s))
  <2> HIDE DEF IsUpTo
  <2> QED BY <1>3
<1>5. Kept(s, S) = f[Len(s)]
  BY DEF Kept
<1> HIDE DEF f
<1>6. f[0] = <<>>
  BY <1>4
<1>7. \A n \in 1 .. Len(s) :
        f[n] = IF s[n] \in S THEN Append(f[n - 1], s[n]) ELSE f[n - 1]
  <2> TAKE n \in 1 .. Len(s)
  <2>1. n \in 0 .. Len(s) /\ n # 0
    OBVIOUS
  <2>2. f[n] = Turn(f, n)
    <3> HIDE DEF Turn
    <3> QED BY <1>4, <2>1
  <2> QED BY <2>1, <2>2
<1> QED BY <1>5, <1>6, <1>7

Elements(s) == {s[k] : k \in DOMAIN s}

(* The loop keeps exactly the elements that are in S.                      *)
LEMMA KeptElements ==
  ASSUME NEW T, NEW s \in Seq(T), NEW S
  PROVE  /\ Kept(s, S) \in Seq(T)
         /\ Elements(Kept(s, S)) = Elements(s) \cap S
<1>1. PICK f : /\ Kept(s, S) = f[Len(s)]
               /\ f[0] = <<>>
               /\ \A n \in 1 .. Len(s) :
                    f[n] = IF s[n] \in S THEN Append(f[n - 1], s[n]) ELSE f[n - 1]
  BY KeptSteps
<1> DEFINE P(n) == /\ f[n] \in Seq(T)
                   /\ \A e : (\E k \in 1 .. Len(f[n]) : f[n][k] = e)
                              <=> (e \in S /\ \E k \in 1 .. n : s[k] = e)
           A == {n \in Nat : n <= Len(s) => P(n)}
<1>2. 0 \in A
  <2>1. P(0)
    BY <1>1
  <2> QED BY <2>1
<1>3. ASSUME NEW n \in Nat, n \in A PROVE n + 1 \in A
  <2>1. SUFFICES ASSUME n + 1 <= Len(s) PROVE P(n + 1)
    OBVIOUS
  <2>2. P(n) /\ n + 1 \in 1 .. Len(s) /\ (n + 1) - 1 = n /\ s[n + 1] \in T
    <3>1. P(n)
      <4> HIDE DEF P
      <4> QED BY <1>3, <2>1
    <3>2. n + 1 \in 1 .. Len(s) /\ (n + 1) - 1 = n
      BY <2>1
    <3>3. s[n + 1] \in T
      BY <3>2
    <3> QED BY <3>1, <3>2, <3>3
  <2>3. CASE s[n + 1] \in S
    <3>1. f[n + 1] = Append(f[n], s[n + 1])
      BY <1>1, <2>2, <2>3
    <3>2. /\ f[n + 1] \in Seq(T)
          /\ Len(f[n + 1]) = Len(f[n]) + 1
          /\ \A k \in 1 .. Len(f[n]) : f[n + 1][k] = f[n][k]
          /\ f[n + 1][Len(f[n]) + 1] = s[n + 1]
      BY <2>2, <3>1, AppendProperties
    <3>3. ASSUME NEW e
          PROVE  (\E k \in 1 .. Len(f[n + 1]) : f[n + 1][k] = e)
                   <=> (e = s[n + 1] \/ \E k \in 1 .. Len(f[n]) : f[n][k] = e)
      <4>1. Len(f[n]) \in Nat
        BY <2>2
      <4> DEFINE l == Len(f[n])
                 u == f[n + 1]
                 v == f[n]
      <4>2. /\ l \in Nat /\ Len(u) = l + 1
            /\ \A k \in 1 .. l : u[k] = v[k]
            /\ u[l + 1] = s[n + 1]
        BY <3>2, <4>1
      <4>3. \A k \in 1 .. l + 1 : k = l + 1 \/ k \in 1 .. l
        BY <4>1
      <4>4. \A k \in 1 .. l : k \in 1 .. l + 1
        BY <4>1
      <4>5. l + 1 \in 1 .. l + 1
        BY <4>1
      <4> HIDE DEF l, u, v
      <4>6. (\E k \in 1 .. l + 1 : u[k] = e)
              <=> (e = s[n + 1] \/ \E k \in 1 .. l : v[k] = e)
        BY <4>2, <4>3, <4>4, <4>5, ZenonT(30)
      <4> QED BY <4>2, <4>6 DEF l, u, v
    <3>4. ASSUME NEW e
          PROVE  (\E k \in 1 .. n + 1 : s[k] = e)
                   <=> (e = s[n + 1] \/ \E k \in 1 .. n : s[k] = e)
      OBVIOUS
    <3> QED BY <2>2, <2>3, <3>2, <3>3, <3>4
  <2>4. CASE s[n + 1] \notin S
    <3>1. f[n + 1] = f[n]
      BY <1>1, <2>2, <2>4
    <3>2. ASSUME NEW e \in S
          PROVE  (\E k \in 1 .. n + 1 : s[k] = e) <=> \E k \in 1 .. n : s[k] = e
      BY <2>4
    <3> QED BY <2>2, <3>1, <3>2
  <2> QED BY <2>3, <2>4
<1>4. P(Len(s))
  <2>1. Len(s) \in A
    <3> HIDE DEF A
    <3> QED BY <1>2, <1>3, Induction
  <2> QED BY <2>1
<1>5. Kept(s, S) \in Seq(T)
  BY <1>1, <1>4
<1>6. \A e : (\E k \in 1 .. Len(Kept(s, S)) : Kept(s, S)[k] = e)
              <=> (e \in S /\ \E k \in 1 .. Len(s) : s[k] = e)
  BY <1>1, <1>4
<1>7. DOMAIN Kept(s, S) = 1 .. Len(Kept(s, S)) /\ DOMAIN s = 1 .. Len(s)
  BY <1>5
<1> QED BY <1>5, <1>6, <1>7 DEF Elements

-----------------------------------------------------------------------------
(* The operations on sets, by the ranges that they leave in the set.       *)

(* Merging keeps the ranges of both.                                       *)
LEMMA MergeElements ==
  ASSUME NEW s \in Seq(LabelledCIDR), NEW t \in Seq(LabelledCIDR)
  PROVE  /\ Merge(s, t) \in Seq(LabelledCIDR)
         /\ Elements(Merge(s, t)) = Elements(s) \cup Elements(t)
<1>1. /\ s \o t \in Seq(LabelledCIDR)
      /\ Len(s \o t) = Len(s) + Len(t)
      /\ \A k \in 1 .. Len(s) + Len(t) :
           (s \o t)[k] = IF k <= Len(s) THEN s[k] ELSE t[k - Len(s)]
  BY ConcatProperties
<1>2. Elements(s \o t) \subseteq Elements(s) \cup Elements(t)
  <2>1. ASSUME NEW k \in 1 .. Len(s) + Len(t)
        PROVE  (s \o t)[k] \in Elements(s) \cup Elements(t)
    BY <1>1, <2>1 DEF Elements
  <2> QED BY <1>1, <2>1 DEF Elements
<1>3. Elements(s) \subseteq Elements(s \o t)
  <2>1. ASSUME NEW k \in 1 .. Len(s) PROVE s[k] \in Elements(s \o t)
    <3>1. k \in 1 .. Len(s) + Len(t) /\ (s \o t)[k] = s[k]
      BY <1>1
    <3> QED BY <1>1, <3>1 DEF Elements
  <2> QED BY <2>1 DEF Elements
<1>4. Elements(t) \subseteq Elements(s \o t)
  <2>1. ASSUME NEW k \in 1 .. Len(t) PROVE t[k] \in Elements(s \o t)
    <3> DEFINE m == Len(s) + k
    <3>1. m \in 1 .. Len(s) + Len(t) /\ (s \o t)[m] = t[k]
      BY <1>1
    <3> HIDE DEF m
    <3>2. m \in DOMAIN (s \o t)
      BY <1>1, <3>1
    <3> QED BY <3>1, <3>2 DEF Elements
  <2> QED BY <2>1 DEF Elements
<1> QED BY <1>1, <1>2, <1>3, <1>4 DEF Merge

(* Adding a list of CIDRs adds one range for each that is well formed, and *)
(* a malformed one leaves the others alone.                                *)
LEMMA AddAllElements ==
  ASSUME NEW s \in Seq(LabelledCIDR), NEW cidrs \in Seq(CIDRs),
         NEW labels \in SUBSET Labels
  PROVE  /\ AddAll(s, cidrs, labels) \in Seq(LabelledCIDR)
         /\ Elements(AddAll(s, cidrs, labels)) =
              Elements(s) \cup {[cidr |-> c, labels |-> labels] :
                                  c \in Elements(cidrs) \cap WellFormed}
<1> DEFINE valid == Kept(cidrs, WellFormed)
           new == [k \in 1 .. Len(valid) |-> [cidr |-> valid[k], labels |-> labels]]
<1>1. valid \in Seq(CIDRs) /\ Elements(valid) = Elements(cidrs) \cap WellFormed
  BY KeptElements
<1>2. AddAll(s, cidrs, labels) = s \o new
  BY DEF AddAll
<1> HIDE DEF valid
<1>3. Len(valid) \in Nat /\ DOMAIN valid = 1 .. Len(valid)
  BY <1>1
<1>4. \A k \in 1 .. Len(valid) : valid[k] \in WellFormed
  BY <1>1, <1>3 DEF Elements
<1>5. /\ new \in Seq(LabelledCIDR)
      /\ Elements(new) = {[cidr |-> c, labels |-> labels] : c \in Elements(valid)}
  BY <1>3, <1>4 DEF Elements, LabelledCIDR
<1> HIDE DEF new
<1> QED BY <1>1, <1>2, <1>5, MergeElements DEF Merge

(* Filtering keeps the ranges with an included and no excluded label.      *)
LEMMA FilterElements ==
  ASSUME NEW s \in Seq(LabelledCIDR), NEW include, NEW exclude
  PROVE  /\ Filter(s, include, exclude) \in Seq(LabelledCIDR)
         /\ Elements(Filter(s, include, exclude)) =
              {r \in Elements(s) : Included(r, include) /\ ~Excluded(r, exclude)}
<1> DEFINE S == {r \in LabelledCIDR : Included(r, include) /\ ~Excluded(r, exclude)}
<1>1. Filter(s, include, exclude) = Kept(s, S)
  BY DEF Filter
<1>2. Elements(s) \subseteq LabelledCIDR
  BY DEF Elements
<1>3. Elements(s) \cap S =
        {r \in Elements(s) : Included(r, include) /\ ~Excluded(r, exclude)}
  BY <1>2
<1> HIDE DEF S
<1>4. Kept(s, S) \in Seq(LabelledCIDR) /\ Elements(Kept(s, S)) = Elements(s) \cap S
  BY KeptElements
<1> QED BY <1>1, <1>3, <1>4

-----------------------------------------------------------------------------
(* The pipeline.                                                           *)

Names == {Categories[k] : k \in DOMAIN Categories}

Filters == [include : SUBSET Labels, exclude : SUBSET Labels]

TypeOK ==
  /\ providers \in Seq(Filters)
  /\ metadata \in [DOMAIN providers -> [Names -> Seq(CIDRs)]]
  /\ pos \in 1 .. Len(providers) + 2
  /\ category \in 1 .. Len(Categories) + 1
  /\ ipRangeSet \in Seq(LabelledCIDR)
  /\ allRanges \in Seq(LabelledCIDR)
  /\ current \in Seq(LabelledCIDR)

(* The ranges of the first n categories of the k-th response.              *)
Converted(k, n) ==
  UNION {{[cidr |-> c, labels |-> {Categories[j]}] :
            c \in Published(k, Categories[j]) \cap WellFormed} : j \in 1 .. n}

(* The CIDRs that the k-th reference selects, and those of the first n.    *)
Chosen(k) == UNION {Published(k, name) : name \in Selected(providers[k])}

ChosenUpTo(n) == WellFormed \cap UNION {Chosen(k) : k \in 1 .. n}

(* The provider at work has converted the categories before the next one,  *)
(* the providers before it are collected.                                  *)
IInv ==
  /\ TypeOK
  /\ pos <= Len(providers) => Elements(ipRangeSet) = Converted(pos, category - 1)
  /\ pos <= Len(providers) => GetCIDRs(allRanges) = ChosenUpTo(pos - 1)
  /\ pos > Len(providers) => GetCIDRs(allRanges) = ChosenUpTo(Len(providers))
  /\ Compared => diff = Diff(current, allRanges)

(* One more reference.                                                     *)
LEMMA ChosenNext ==
  ASSUME NEW n \in Nat
  PROVE  ChosenUpTo(n + 1) = ChosenUpTo(n) \cup (Chosen(n + 1) \cap WellFormed)
<1>1. ASSUME NEW c
      PROVE  (\E k \in 1 .. n + 1 : c \in Chosen(k))
               <=> (c \in Chosen(n + 1) \/ \E k \in 1 .. n : c \in Chosen(k))
  OBVIOUS
<1>2. ASSUME NEW c, NEW m
      PROVE  c \in ChosenUpTo(m)
               <=> (c \in WellFormed /\ \E k \in 1 .. m : c \in Chosen(k))
  BY DEF ChosenUpTo
<1> QED BY <1>1, <1>2

(* What the references choose does not change once they have responses.    *)
LEMMA ChosenStays ==
  ASSUME providers' = providers, metadata' = metadata
  PROVE  /\ \A k : Chosen(k)' = Chosen(k)
         /\ ChosenUpTo(Len(providers))' = ChosenUpTo(Len(providers))
<1>1. ASSUME NEW k PROVE Chosen(k)' = Chosen(k)
  BY DEF Chosen, Selected, Published
<1> QED BY <1>1 DEF ChosenUpTo

(* The lists of the k-th response.                                         *)
LEMMA MetadataType ==
  ASSUME TypeOK, NEW k \in 1 .. Len(providers), NEW j \in 1 .. Len(Categories)
  PROVE  /\ metadata[k][Categories[j]] \in Seq(CIDRs)
         /\ Categories[j] \in Labels
         /\ Elements(metadata[k][Categories[j]]) = Published(k, Categories[j])
<1>1. Categories \in Seq(Labels)
  BY PipelineAssumption
<1>2. k \in DOMAIN providers /\ j \in DOMAIN Categories
  BY <1>1 DEF TypeOK
<1>3. Categories[j] \in Names
  BY <1>2 DEF Names
<1> QED BY <1>1, <1>2, <1>3 DEF TypeOK, Elements, Published

(* A reconciliation starts with nothing.                                   *)
LEMMA InitOK == Init => IInv
<1> SUFFICES ASSUME Init PROVE IInv
  OBVIOUS
<1>1. /\ Categories \in Seq(Labels)
      /\ Responses \subseteq [Names -> Seq(CIDRs)]
      /\ References \subseteq Seq(Filters)
      /\ Current \subseteq Seq(LabelledCIDR)
  BY PipelineAssumption DEF Names, Filters
<1>2. TypeOK
  <2>1. metadata \in [DOMAIN providers -> [Names -> Seq(CIDRs)]]
    BY <1>1 DEF Init
  <2>2. Len(providers) \in Nat /\ Len(Categories) \in Nat
    BY <1>1 DEF Init
  <2> QED BY <1>1, <2>1, <2>2 DEF Init, TypeOK, NewIPRangeSet
<1>3. Elements(ipRangeSet) = {} /\ GetCIDRs(allRanges) = {}
  BY DEF Init, NewIPRangeSet, Elements, GetCIDRs
<1>4. Converted(pos, category - 1) = {} /\ ChosenUpTo(pos - 1) = {}
  BY DEF Init, Converted, ChosenUpTo
<1>5. ~Compared
  BY <1>2 DEF Init, Compared, TypeOK
<1>6. pos > Len(providers) => Len(providers) = pos - 1
  BY <1>2 DEF Init, TypeOK
<1> QED BY <1>2, <1>3, <1>4, <1>5, <1>6 DEF IInv

(* One more category.                                                      *)
LEMMA ConvertCategoryKeeps ==
  ASSUME IInv, ConvertCategory
  PROVE  IInv'
<1> DEFINE name == Categories[category]
<1>1. /\ pos \in 1 .. Len(providers) /\ category \in 1 .. Len(Categories)
      /\ Len(Categories) \in Nat
  BY PipelineAssumption DEF ConvertCategory, IInv, TypeOK
<1>2. /\ metadata[pos][name] \in Seq(CIDRs) /\ {name} \in SUBSET Labels
      /\ Elements(metadata[pos][name]) = Published(pos, name)
  BY <1>1, MetadataType DEF IInv
<1>3. ipRangeSet' = AddAll(ipRangeSet, metadata[pos][name], {name})
  BY DEF ConvertCategory
<1>4. /\ ipRangeSet' \in Seq(LabelledCIDR)
      /\ Elements(ipRangeSet') =
           Elements(ipRangeSet)
             \cup {[cidr |-> c, labels |-> {name}] :
                     c \in Published(pos, name) \cap WellFormed}
  <2> DEFINE cidrs == metadata[pos][name]
             labels == {name}
  <2>1. ipRangeSet \in Seq(LabelledCIDR) /\ cidrs \in Seq(CIDRs)
        /\ labels \in SUBSET Labels
    BY <1>2 DEF IInv, TypeOK
  <2>2. ipRangeSet' = AddAll(ipRangeSet, cidrs, labels)
    BY <1>3
  <2> HIDE DEF cidrs, labels
  <2>3. /\ ipRangeSet' \in Seq(LabelledCIDR)
        /\ Elements(ipRangeSet') =
             Elements(ipRangeSet) \cup {[cidr |-> c, labels |-> labels] :
                                         c \in Elements(cidrs) \cap WellFormed}
    BY <2>1, <2>2, AddAllElements
  <2> QED BY <1>2, <2>3 DEF cidrs, labels
<1>5. TypeOK'
  BY <1>1, <1>4 DEF ConvertCategory, IInv, TypeOK, fixed
<1>6. Elements(ipRangeSet') = Converted(pos, category)
  <2>1. Elements(ipRangeSet) = Converted(pos, category - 1)
    BY <1>1 DEF IInv, TypeOK
  <2>2. 1 .. category = (1 .. category - 1) \cup {category}
    BY <1>1
  <2> QED BY <1>4, <2>1, <2>2 DEF Converted
<1>7. category' = category + 1 /\ pos' = pos /\ allRanges' = allRanges
  BY DEF ConvertCategory
<1>8. Converted(pos, category - 1)' = Converted(pos, category)
  <2>1. category' - 1 = category /\ metadata' = metadata
    BY <1>1 DEF ConvertCategory, fixed
  <2>2. \A name_ : Published(pos, name_)' = Published(pos, name_)
    BY <1>7, <2>1 DEF Published
  <2>3. Converted(pos, category - 1)' =
          UNION {{[cidr |-> c, labels |-> {Categories[j]}] :
                    c \in Published(pos, Categories[j])' \cap WellFormed} :
                   j \in 1 .. category}
    BY <1>7, <2>1 DEF Converted
  <2> QED BY <2>2, <2>3 DEF Converted
<1>9. ChosenUpTo(pos - 1)' = ChosenUpTo(pos - 1)
  BY <1>7 DEF ConvertCategory, fixed, ChosenUpTo, Chosen, Selected, Published
<1>10. GetCIDRs(allRanges)' = ChosenUpTo(pos - 1)'
  BY <1>1, <1>7, <1>9 DEF IInv, GetCIDRs
<1>11. ~ (pos > Len(providers))' /\ ~ Compared'
  BY <1>1, <1>7 DEF ConvertCategory, fixed, Compared
<1>12. Elements(ipRangeSet)' = Converted(pos, category - 1)'
  BY <1>6, <1>8 DEF Elements
<1> QED BY <1>5, <1>10, <1>11, <1>12 DEF IInv

(* A range of a converted category carries the name of the category, and   *)
(* passes the filter of the reference exactly if it selects the category.  *)
LEMMA FilteredIsChosen ==
  ASSUME IInv, pos \in 1 .. Len(providers), category - 1 = Len(Categories)
  PROVE  /\ filteredRanges \in Seq(LabelledCIDR)
         /\ GetCIDRs(filteredRanges) = Chosen(pos) \cap WellFormed
<1> DEFINE ref == providers[pos]
           Passes(r) == Included(r, ref.include) /\ ~Excluded(r, ref.exclude)
<1>1. Categories \in Seq(Labels) /\ Len(Categories) \in Nat
      /\ DOMAIN Categories = 1 .. Len(Categories)
  BY PipelineAssumption
<1>2. Elements(ipRangeSet) = Converted(pos, Len(Categories))
  BY DEF IInv, TypeOK
<1>3. /\ filteredRanges \in Seq(LabelledCIDR)
      /\ Elements(filteredRanges) = {r \in Elements(ipRangeSet) : Passes(r)}
  <2>1. ipRangeSet \in Seq(LabelledCIDR)
    BY DEF IInv, TypeOK
  <2>2. CASE ref.include # {} \/ ref.exclude # {}
    <3>1. filteredRanges = Filter(ipRangeSet, ref.include, ref.exclude)
      BY <2>2 DEF filteredRanges
    <3> HIDE DEF ref
    <3> QED BY <2>1, <3>1, FilterElements
  <2>3. CASE ~ (ref.include # {} \/ ref.exclude # {})
    <3>1. filteredRanges = ipRangeSet
      BY <2>3 DEF filteredRanges
    <3>2. \A r : Passes(r)
      BY <2>3 DEF Included, Excluded
    <3> HIDE DEF Passes
    <3> QED BY <2>1, <3>1, <3>2
  <2> QED BY <2>2, <2>3
<1>4. ASSUME NEW c, NEW j \in 1 .. Len(Categories)
      PROVE  Passes([cidr |-> c, labels |-> {Categories[j]}])
               <=> Categories[j] \in Selected(ref)
  <2>1. j \in DOMAIN Categories
    BY <1>1
  <2> DEFINE r == [cidr |-> c, labels |-> {Categories[j]}]
  <2>2. r.labels = {Categories[j]}
    OBVIOUS
  <2> HIDE DEF r, ref
  <2> QED BY <2>1, <2>2 DEF Included, Excluded, Selected, r
<1>5. ASSUME NEW c
      PROVE  c \in GetCIDRs(filteredRanges) <=> c \in Chosen(pos) \cap WellFormed
  <2>1. c \in GetCIDRs(filteredRanges)
          <=> \E r \in Elements(filteredRanges) : r.cidr = c
    BY <1>3 DEF GetCIDRs, Elements
  <2>2. (\E r \in Elements(filteredRanges) : r.cidr = c)
          <=> \E r \in Converted(pos, Len(Categories)) : Passes(r) /\ r.cidr = c
    <3> HIDE DEF Passes
    <3> QED BY <1>2, <1>3
  <2>3. (\E r \in Converted(pos, Len(Categories)) : Passes(r) /\ r.cidr = c)
          <=> \E j \in 1 .. Len(Categories) :
                /\ Passes([cidr |-> c, labels |-> {Categories[j]}])
                /\ c \in Published(pos, Categories[j]) \cap WellFormed
    <3>1. ASSUME NEW r \in Converted(pos, Len(Categories)), Passes(r), r.cidr = c
          PROVE  \E j \in 1 .. Len(Categories) :
                   /\ Passes([cidr |-> c, labels |-> {Categories[j]}])
                   /\ c \in Published(pos, Categories[j]) \cap WellFormed
      <4> HIDE DEF Passes
      <4>1. PICK j \in 1 .. Len(Categories) :
              \E d \in Published(pos, Categories[j]) \cap WellFormed :
                r = [cidr |-> d, labels |-> {Categories[j]}]
        BY <3>1 DEF Converted
      <4>2. r = [cidr |-> c, labels |-> {Categories[j]}]
        BY <3>1, <4>1
      <4>3. c \in Published(pos, Categories[j]) \cap WellFormed
        BY <3>1, <4>1
      <4> QED BY <3>1, <4>2, <4>3
    <3>2. ASSUME NEW j \in 1 .. Len(Categories),
                 Passes([cidr |-> c, labels |-> {Categories[j]}]),
                 c \in Published(pos, Categories[j]) \cap WellFormed
          PROVE  \E r \in Converted(pos, Len(Categories)) : Passes(r) /\ r.cidr = c
      <4> DEFINE r == [cidr |-> c, labels |-> {Categories[j]}]
      <4>1. r \in Converted(pos, Len(Categories))
        <5> DEFINE B(i) == {[cidr |-> d, labels |-> {Categories[i]}] :
                              d \in Published(pos, Categories[i]) \cap WellFormed}
        <5>1. r \in B(j)
          BY <3>2
        <5>2. Converted(pos, Len(Categories)) = UNION {B(i) : i \in 1 .. Len(Categories)}
          BY DEF Converted
        <5> HIDE DEF B, r
        <5> QED BY <5>1, <5>2
      <4>2. r.cidr = c /\ Passes(r)
        BY <3>2
      <4> HIDE DEF r, Passes
      <4> QED BY <4>1, <4>2
    <3> HIDE DEF Passes
    <3> QED BY <3>1, <3>2
  <2>4. (\E j \in 1 .. Len(Categories) :
           /\ Passes([cidr |-> c, labels |-> {Categories[j]}])
           /\ c \in Published(pos, Categories[j]) \cap WellFormed)
          <=> \E j \in 1 .. Len(Categories) :
                /\ Categories[j] \in Selected(ref)
                /\ c \in Published(pos, Categories[j]) \cap WellFormed
    <3> HIDE DEF Passes, ref
    <3> QED BY <1>4
  <2>5. c \in Chosen(pos)
          <=> \E j \in 1 .. Len(Categories) :
                Categories[j] \in Selected(ref) /\ c \in Published(pos, Categories[j])
    BY <1>1 DEF Chosen, Selected
  <2> HIDE DEF Passes, ref
  <2> QED BY <2>1, <2>2, <2>3, <2>4, <2>5
<1> QED BY <1>3, <1>5

(* The CIDRs of one more provider, and nothing converted of the next one.  *)
LEMMA FilterAndMergeKeeps ==
  ASSUME IInv, FilterAndMerge
  PROVE  IInv'
<1>1. /\ pos \in 1 .. Len(providers) /\ category - 1 = Len(Categories)
      /\ Len(Categories) \in Nat /\ Len(providers) \in Nat
  BY PipelineAssumption DEF FilterAndMerge, IInv, TypeOK
<1>2. /\ pos' = pos + 1 /\ category' = 1 /\ ipRangeSet' = <<>>
      /\ allRanges' = Merge(allRanges, filteredRanges)
      /\ providers' = providers /\ metadata' = metadata /\ current' = current
  BY DEF FilterAndMerge, fixed, NewIPRangeSet
<1>3. /\ filteredRanges \in Seq(LabelledCIDR)
      /\ GetCIDRs(filteredRanges) = Chosen(pos) \cap WellFormed
  BY <1>1, FilteredIsChosen
<1>4. /\ allRanges' \in Seq(LabelledCIDR)
      /\ Elements(allRanges') = Elements(allRanges) \cup Elements(filteredRanges)
  <2>1. allRanges \in Seq(LabelledCIDR)
    BY DEF IInv, TypeOK
  <2> QED BY <1>2, <1>3, <2>1, MergeElements
<1>5. TypeOK'
  BY <1>1, <1>2, <1>4 DEF IInv, TypeOK
<1>6. GetCIDRs(allRanges') = ChosenUpTo(pos)
  <2>1. GetCIDRs(allRanges) = ChosenUpTo(pos - 1)
    BY <1>1 DEF IInv, TypeOK
  <2>2. \A s : GetCIDRs(s) = {r.cidr : r \in Elements(s)}
    BY DEF GetCIDRs, Elements
  <2>3. GetCIDRs(allRanges') = GetCIDRs(allRanges) \cup GetCIDRs(filteredRanges)
    BY <1>4, <2>2
  <2>4. pos - 1 \in Nat /\ (pos - 1) + 1 = pos
    BY <1>1
  <2>5. ChosenUpTo(pos) = ChosenUpTo(pos - 1) \cup (Chosen(pos) \cap WellFormed)
    BY <2>4, ChosenNext
  <2> QED BY <1>3, <2>1, <2>3, <2>5
<1>8. /\ ChosenUpTo(pos - 1)' = ChosenUpTo(pos)
      /\ pos = Len(providers) => ChosenUpTo(Len(providers))' = ChosenUpTo(pos)
  <2>1. pos' - 1 = pos
    BY <1>1, <1>2
  <2>2. ChosenUpTo(pos - 1)' = ChosenUpTo(pos)
    BY <1>2, <2>1, ChosenStays DEF ChosenUpTo
  <2> QED BY <1>2, <2>2, ChosenStays
<1>9. (pos > Len(providers))' => pos = Len(providers)
  BY <1>1, <1>2
<1>10. Converted(pos, category - 1)' = {} /\ Elements(ipRangeSet)' = {}
  BY <1>2 DEF Converted, Elements
<1>11. ~ Compared'
  BY <1>1, <1>2 DEF Compared
<1>12. GetCIDRs(allRanges)' = ChosenUpTo(pos)
  BY <1>6 DEF GetCIDRs
<1> QED BY <1>5, <1>8, <1>9, <1>10, <1>11, <1>12 DEF IInv

(* The comparison is the last step.                                        *)
LEMMA CompareWithCurrentKeeps ==
  ASSUME IInv, CompareWithCurrent
  PROVE  IInv'
<1>1. /\ pos = Len(providers) + 1 /\ pos' = Len(providers) + 2
      /\ diff' = Diff(current, allRanges) /\ Len(providers) \in Nat
      /\ UNCHANGED <<providers, metadata, current, category, ipRangeSet, allRanges>>
  BY DEF CompareWithCurrent, Collected, fixed, IInv, TypeOK
<1>2. TypeOK'
  BY <1>1 DEF IInv, TypeOK
<1>3. GetCIDRs(allRanges)' = ChosenUpTo(Len(providers))'
  <2>1. GetCIDRs(allRanges) = ChosenUpTo(Len(providers))
    BY <1>1 DEF IInv
  <2>2. ChosenUpTo(Len(providers))' = ChosenUpTo(Len(providers))
    BY <1>1, ChosenStays
  <2> QED BY <1>1, <2>1, <2>2 DEF GetCIDRs
<1>4. ~ (pos <= Len(providers))'
  BY <1>1
<1>5. diff' = Diff(current, allRanges)'
  BY <1>1 DEF Diff, Missing, ByCIDR, GetCIDRs
<1> QED BY <1>2, <1>3, <1>4, <1>5 DEF IInv

(* Nothing happens.                                                        *)
LEMMA StutterKeeps ==
  ASSUME IInv, UNCHANGED vars
  PROVE  IInv'
<1>1. TypeOK'
  BY DEF vars, IInv, TypeOK
<1>2. ChosenUpTo(pos - 1)' = ChosenUpTo(pos - 1)
  BY ChosenStays DEF ChosenUpTo, vars
<1>3. ChosenUpTo(Len(providers))' = ChosenUpTo(Len(providers))
  BY ChosenStays DEF vars
<1>4. Converted(pos, category - 1)' = Converted(pos, category - 1)
  BY DEF vars, Converted, Published
<1>5. Elements(ipRangeSet)' = Elements(ipRangeSet)
      /\ GetCIDRs(allRanges)' = GetCIDRs(allRanges)
      /\ Diff(current, allRanges)' = Diff(current, allRanges)
  BY DEF vars, Elements, GetCIDRs, Diff, Missing, ByCIDR
<1>6. pos' = pos /\ providers' = providers /\ diff' = diff /\ (Compared' <=> Compared)
  BY DEF vars, Compared
<1> QED BY <1>1, <1>2, <1>3, <1>4, <1>5, <1>6 DEF IInv

(* Every step keeps the invariant.                                         *)
LEMMA StepOK == IInv /\ [Next]_vars => IInv'
<1> SUFFICES ASSUME IInv, [Next]_vars PROVE IInv'
  OBVIOUS
<1>1. CASE ConvertCategory
  BY <1>1, ConvertCategoryKeeps
<1>2. CASE FilterAndMerge
  BY <1>2, FilterAndMergeKeeps
<1>3. CASE CompareWithCurrent
  BY <1>3, CompareWithCurrentKeeps
<1>4. CASE UNCHANGED vars
  BY <1>4, StutterKeeps
<1> QED BY <1>1, <1>2, <1>3, <1>4 DEF Next

(* In every state the provider at work has converted exactly the           *)
(* well-formed CIDRs of the categories before the next one.                *)
LEMMA Invariant == Spec => []IInv
<1>1. Init => IInv
  BY InitOK
<1>2. IInv /\ [Next]_vars => IInv'
  BY StepOK
<1> QED BY <1>1, <1>2, PTL DEF Spec

(* For all responses, all references with all filters and all lists of     *)
(* categories, the reconciler passes on to the ingresses exactly the       *)
(* well-formed CIDRs of the categories that each reference selects.        *)
THEOREM Collection == Spec => []CollectedIsSelected
<1>1. IInv => CollectedIsSelected
  <2> SUFFICES ASSUME IInv, Collected PROVE CollectedIsSelected
    BY DEF CollectedIsSelected
  <2>1. Len(providers) \in Nat /\ DOMAIN providers = 1 .. Len(providers)
    BY DEF IInv, TypeOK
  <2>2. GetCIDRs(allRanges) = ChosenUpTo(Len(providers))
    BY <2>1 DEF IInv, Collected
  <2> QED BY <2>1, <2>2 DEF CollectedIsSelected, ChosenUpTo, Chosen
<1> QED BY <1>1, Invariant, PTL

(* For all of them and for all ranges that the ingress has, what it is     *)
(* told to add and to remove is the exact change.                          *)
THEOREM Comparison == Spec => []DiffIsTheChange
<1>1. IInv => DiffIsTheChange
  <2> SUFFICES ASSUME IInv, Compared PROVE DiffIsTheChange
    BY DEF DiffIsTheChange
  <2>1. /\ current \in Seq(LabelledCIDR) /\ allRanges \in Seq(LabelledCIDR)
        /\ diff = Diff(current, allRanges)
    BY DEF IInv, TypeOK
  <2> DEFINE old == GetCIDRs(current)
             new == GetCIDRs(allRanges)
  <2>2. /\ {r.cidr : r \in diff.added} = new \ old
        /\ {r.cidr : r \in diff.removed} = old \ new
    BY <2>1, MissingIsTheRest DEF Diff
  <2>3. NoChanges(diff) <=> old = new
    BY <2>1, DiffComparesCIDRs
  <2> HIDE DEF old, new
  <2>4. /\ (old \ (old \ new)) \cup (new \ old) = new
        /\ (new \ old) \cap (old \ new) = {}
    OBVIOUS
  <2> QED BY <2>2, <2>3, <2>4 DEF DiffIsTheChange, old, new
<1> QED BY <1>1, Invariant, PTL

=============================================================================
