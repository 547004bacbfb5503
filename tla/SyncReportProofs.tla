--------------------------- MODULE SyncReportProofs ---------------------------
(***************************************************************************)
(* What the reconciler reports and applies is complete: for any specs,     *)
(* number of SyncConfigs and workers, failures and restarts.               *)
(***************************************************************************)
EXTENDS SyncControllerProofs

(* The first n entries of a list of statuses account for n references.     *)
UpTo(entries, refs, mode, n) ==
  /\ Len(entries) = n
  /\ \A k \in 1 .. n : /\ entries[k].name = refs[k]
                       /\ mode = "fail" => entries[k].status = "Success"

(* What is collected after n providers.                                    *)
CollectedUpTo(ranges, s, n) ==
  LET seen == {ProviderRefs[s][k] : k \in 1 .. n} IN
  ranges \subseteq seen /\ (FailureMode[s] = "fail" => ranges = seen)

(* A status that may be stored, or be found by the next reconciliation.    *)
StatusOK(st, s) ==
  /\ Whole(st.providers, ProviderRefs[s], FailureMode[s])
  /\ Whole(st.ingress, IngressRefs[s], FailureMode[s])
  /\ st.reason = "IngressError" => Accounts(st.providers, ProviderRefs[s], FailureMode[s])
  /\ st.ready = "True" => /\ Accounts(st.providers, ProviderRefs[s], FailureMode[s])
                          /\ Accounts(st.ingress, IngressRefs[s], FailureMode[s])

(* The locals when n references have been settled.  The entries of the     *)
(* providers are in the report while there are providers left, and when    *)
(* the last one has just been settled (n is their number).                 *)
ProvidersSettled(j, n) ==
  /\ UpTo(j.report, ProviderRefs[j.key], FailureMode[j.key], n)
  /\ CollectedUpTo(j.ranges, j.key, n)

IngressesSettled(j, n) ==
  /\ UpTo(j.report, IngressRefs[j.key], FailureMode[j.key], n)
  /\ Accounts(j.status.providers, ProviderRefs[j.key], FailureMode[j.key])
  /\ CollectedUpTo(j.ranges, j.key, Len(ProviderRefs[j.key]))

AtPosition(j) ==
  LET n == Len(ProviderRefs[j.key]) IN
  IF j.pos <= n THEN ProvidersSettled(j, j.pos - 1) ELSE IngressesSettled(j, j.pos - 1 - n)

(* The invariant of a worker's job.                                        *)
Honest(step, j) ==
  step # "idle" =>
    /\ StatusOK(j.status, j.key)
    /\ step # "update" => AtPosition(j)
    /\ step = "get" => j.pos = 1

IInvReport ==
  /\ AppliedAsAWhole
  /\ \A s \in Syncs : StatusOK(status[s], s)
  /\ \A w \in Workers : Honest(pc[w], job[w])

-----------------------------------------------------------------------------
(* Positions.                                                              *)

(* The references of a SyncConfig, one by one.                             *)
LEMMA RefsParts ==
  ASSUME NEW s \in Syncs
  PROVE  /\ ProviderRefs[s] \in Seq(Providers) /\ IngressRefs[s] \in Seq(Ingresses)
         /\ Len(ProviderRefs[s]) \in Nat /\ Len(ProviderRefs[s]) # 0
         /\ Len(IngressRefs[s]) \in Nat /\ Len(IngressRefs[s]) # 0
         /\ DOMAIN ProviderRefs[s] = 1 .. Len(ProviderRefs[s])
         /\ DOMAIN IngressRefs[s] = 1 .. Len(IngressRefs[s])
         /\ Len(Refs(s)) = Len(ProviderRefs[s]) + Len(IngressRefs[s])
         /\ \A k \in 1 .. Len(Refs(s)) :
              Refs(s)[k] = IF k <= Len(ProviderRefs[s])
                             THEN ProviderRefs[s][k]
                             ELSE IngressRefs[s][k - Len(ProviderRefs[s])]
<1>1. /\ ProviderRefs[s] \in Seq(Providers) /\ ProviderRefs[s] # <<>>
      /\ IngressRefs[s] \in Seq(Ingresses) /\ IngressRefs[s] # <<>>
  BY SpecAssumption
<1>2. PICK p \in Seq(Configs) : p = ProviderRefs[s] /\ p # <<>>
  <2>1. Seq(Providers) \subseteq Seq(Configs)
    BY SeqMonotonic DEF Configs
  <2> QED BY <1>1, <2>1
<1>3. PICK i \in Seq(Configs) : i = IngressRefs[s] /\ i # <<>>
  <2>1. Seq(Ingresses) \subseteq Seq(Configs)
    BY SeqMonotonic DEF Configs
  <2> QED BY <1>1, <2>1
<1>4. Len(p) \in Nat /\ Len(p) # 0 /\ Len(i) \in Nat /\ Len(i) # 0
  BY EmptySeq, LenProperties, <1>2, <1>3
<1>5. /\ Len(Refs(s)) = Len(p) + Len(i)
      /\ \A k \in 1 .. Len(p) + Len(i) :
           Refs(s)[k] = IF k <= Len(p) THEN p[k] ELSE i[k - Len(p)]
  BY <1>2, <1>3, ConcatProperties DEF Refs
<1>6. DOMAIN p = 1 .. Len(p) /\ DOMAIN i = 1 .. Len(i)
  BY LenProperties
<1> QED BY <1>1, <1>2, <1>3, <1>4, <1>5, <1>6

(* Arithmetic of the position of a worker in the list of references.       *)
LEMMA RefPositions ==
  ASSUME NEW s \in Syncs, NEW pos \in Nat
  PROVE  LET m == Len(ProviderRefs[s])
             n == Len(IngressRefs[s])
         IN /\ pos = m + 1 => pos # Len(Refs(s)) + 1 /\ pos <= m + 1 /\ ~(pos <= m)
                              /\ pos - 1 = m /\ pos - 1 - m = 0
            /\ pos = Len(Refs(s)) + 1 => /\ pos # m + 1 /\ ~(pos <= m + 1)
                                         /\ pos - 1 - m = n
            /\ pos # m + 1 => (pos <= m + 1 <=> pos <= m)
            /\ pos # 0 => pos - 1 \in Nat /\ (pos - 1) + 1 = pos /\ (pos + 1) - 1 = pos
            /\ ~(pos <= m) => /\ pos - 1 - m \in Nat /\ (pos - 1 - m) + 1 = pos - m
                              /\ (pos + 1) - 1 - m = (pos - 1 - m) + 1
                              /\ ~(pos + 1 <= m + 1)
            /\ pos <= m => pos + 1 <= m + 1
<1> DEFINE m == Len(ProviderRefs[s])
           n == Len(IngressRefs[s])
<1>1. m \in Nat /\ n \in Nat /\ m # 0 /\ n # 0 /\ Len(Refs(s)) = m + n
  BY RefsParts
<1> HIDE DEF m, n
<1>2. /\ pos = m + 1 => pos # m + n + 1 /\ pos <= m + 1 /\ ~(pos <= m)
                        /\ pos - 1 = m /\ pos - 1 - m = 0
      /\ pos = m + n + 1 => pos # m + 1 /\ ~(pos <= m + 1) /\ pos - 1 - m = n
  BY <1>1
<1>3. /\ pos # m + 1 => (pos <= m + 1 <=> pos <= m)
      /\ pos # 0 => pos - 1 \in Nat /\ (pos - 1) + 1 = pos /\ (pos + 1) - 1 = pos
  BY <1>1
<1>4. ~(pos <= m) => /\ pos - 1 - m \in Nat /\ (pos - 1 - m) + 1 = pos - m
                     /\ (pos + 1) - 1 - m = (pos - 1 - m) + 1
                     /\ ~(pos + 1 <= m + 1)
  BY <1>1
<1>5. pos <= m => pos + 1 <= m + 1
  BY <1>1
<1> QED BY <1>1, <1>2, <1>3, <1>4, <1>5 DEF m, n

(* A complete list accounts for all references.                            *)
LEMMA UpToTheEnd ==
  ASSUME NEW entries, NEW refs, NEW mode, DOMAIN refs = 1 .. Len(refs)
  PROVE  UpTo(entries, refs, mode, Len(refs)) <=> Accounts(entries, refs, mode)
BY DEF UpTo, Accounts

(* One more entry accounts for one more reference.                         *)
LEMMA UpToNext ==
  ASSUME NEW entries \in Seq(Entry), NEW refs, NEW mode, NEW n \in Nat,
         UpTo(entries, refs, mode, n),
         NEW e \in Entry, e.name = refs[n + 1], mode = "fail" => e.status = "Success"
  PROVE  UpTo(Append(entries, e), refs, mode, n + 1)
<1>1. /\ Len(Append(entries, e)) = n + 1
      /\ \A k \in 1 .. n : Append(entries, e)[k] = entries[k]
      /\ Append(entries, e)[n + 1] = e
  BY AppendProperties DEF UpTo
<1>2. \A k \in 1 .. n + 1 : k \in 1 .. n \/ k = n + 1
  OBVIOUS
<1> QED BY <1>1, <1>2 DEF UpTo

(* One more provider, whose ranges are merged or, in mode continue, not.   *)
LEMMA CollectedNext ==
  ASSUME NEW s \in Syncs, NEW n \in Nat, NEW ranges, CollectedUpTo(ranges, s, n)
  PROVE  /\ CollectedUpTo(ranges \cup {ProviderRefs[s][n + 1]}, s, n + 1)
         /\ FailureMode[s] # "fail" => CollectedUpTo(ranges, s, n + 1)
<1>1. 1 .. n + 1 = 1 .. n \cup {n + 1}
  OBVIOUS
<1>2. {ProviderRefs[s][k] : k \in 1 .. n + 1}
        = {ProviderRefs[s][k] : k \in 1 .. n} \cup {ProviderRefs[s][n + 1]}
  BY <1>1
<1> QED BY <1>2 DEF CollectedUpTo

(* At the first reference nothing is settled.                              *)
LEMMA NothingSettled ==
  ASSUME NEW j, j.key \in Syncs, j.pos = 1, j.report = <<>>, j.ranges = {}
  PROVE  AtPosition(j)
<1>1. 1 <= Len(ProviderRefs[j.key])
  <2>1. PICK n \in Nat : n = Len(ProviderRefs[j.key]) /\ n # 0
    BY RefsParts
  <2> QED BY <2>1
<1>2. ProvidersSettled(j, 0)
  BY DEF ProvidersSettled, UpTo, CollectedUpTo
<1> QED BY <1>1, <1>2 DEF AtPosition

-----------------------------------------------------------------------------
(* The steps of a job.                                                     *)

(* One worker moves.                                                       *)
LEMMA HonestMoves ==
  ASSUME TypeOK, IInvReport, NEW w \in Workers, NEW step, NEW j, Honest(step, j),
         pc' = [pc EXCEPT ![w] = step], job' = [job EXCEPT ![w] = j]
  PROVE  \A v \in Workers : Honest(pc'[v], job'[v])
<1> SUFFICES ASSUME NEW v \in Workers PROVE Honest(pc'[v], job'[v])
  OBVIOUS
<1>1. pc'[v] = (IF v = w THEN step ELSE pc[v]) /\ job'[v] = (IF v = w THEN j ELSE job[v])
  BY DEF TypeOK
<1> QED BY <1>1 DEF IInvReport

(* A status whose verdict is an error.                                     *)
LEMMA ErrorVerdict ==
  ASSUME NEW s \in Syncs, NEW st \in Status, StatusOK(st, s),
         NEW reason \in {"ProviderError", "IngressError"},
         reason = "IngressError" => Accounts(st.providers, ProviderRefs[s], FailureMode[s])
  PROVE  StatusOK(SetReady(st, "False", reason), s)
BY DEF StatusOK, SetReady, Status

(* What the job of a settled reference accounts for, before Proceed.       *)
JustSettled(j) ==
  LET n == Len(ProviderRefs[j.key]) IN
  IF j.pos <= n + 1 THEN ProvidersSettled(j, j.pos - 1) ELSE IngressesSettled(j, j.pos - 1 - n)

(* Proceed stores a complete report or goes on with a partial one.         *)
LEMMA ProceedHonest ==
  ASSUME TypeOK, IInvReport, NEW w \in Workers, NEW j \in Job, j.key \in Syncs,
         j.pos \in 1 .. Len(Refs(j.key)) + 1,
         StatusOK(j.status, j.key), JustSettled(j), Proceed(w, j)
  PROVE  \A v \in Workers : Honest(pc'[v], job'[v])
<1> DEFINE n == Len(ProviderRefs[j.key])
           verdict == SetReady([j.status EXCEPT !.ingress = j.report],
                               "True", "SyncSuccessful")
           providersDone == j.pos = n + 1
           allDone == j.pos = Len(Refs(j.key)) + 1
<1>1. /\ n \in Nat /\ n # 0 /\ Len(IngressRefs[j.key]) \in Nat
      /\ Len(IngressRefs[j.key]) # 0
      /\ Len(Refs(j.key)) = n + Len(IngressRefs[j.key])
      /\ DOMAIN ProviderRefs[j.key] = 1 .. n
      /\ DOMAIN IngressRefs[j.key] = 1 .. Len(IngressRefs[j.key])
  BY RefsParts
<1>2. j.status \in Status /\ j.pos \in Nat
  BY JobFields
<1>0. /\ providersDone => ~allDone /\ j.pos <= n + 1 /\ ~(j.pos <= n)
                          /\ j.pos - 1 = n /\ j.pos - 1 - n = 0
      /\ allDone => /\ ~providersDone /\ ~(j.pos <= n + 1)
                    /\ j.pos - 1 - n = Len(IngressRefs[j.key])
      /\ ~providersDone => (j.pos <= n + 1 <=> j.pos <= n)
  BY <1>2, RefPositions
<1>3. CASE providersDone
  <2> DEFINE k == [j EXCEPT !.status.providers = j.report, !.report = <<>>]
  <2>1. job' = [job EXCEPT ![w] = k] /\ pc' = [pc EXCEPT ![w] = "config"]
    BY <1>0, <1>3 DEF Proceed
  <2>2. ProvidersSettled(j, n)
    BY <1>0, <1>3 DEF JustSettled
  <2>3. Accounts(j.report, ProviderRefs[j.key], FailureMode[j.key])
    BY <1>1, <2>2, UpToTheEnd DEF ProvidersSettled
  <2>4. /\ k.key = j.key /\ k.pos = n + 1 /\ k.report = <<>> /\ k.ranges = j.ranges
        /\ k.status.providers = j.report /\ k.status.ingress = j.status.ingress
        /\ k.status.ready = j.status.ready /\ k.status.reason = j.status.reason
    BY <1>2, <1>3 DEF Job, Status
  <2> HIDE DEF k
  <2>5. StatusOK(k.status, k.key)
    BY <2>3, <2>4 DEF StatusOK, Whole
  <2>6. IngressesSettled(k, 0)
    BY <2>2, <2>3, <2>4 DEF IngressesSettled, ProvidersSettled, UpTo
  <2>7. AtPosition(k)
    BY <1>0, <1>3, <2>4, <2>6 DEF AtPosition
  <2>8. Honest("config", k)
    BY <2>5, <2>7 DEF Honest
  <2> QED BY <2>1, <2>8, HonestMoves
<1>4. CASE allDone
  <2> DEFINE k == [j EXCEPT !.status = verdict]
  <2>1. job' = [job EXCEPT ![w] = k] /\ pc' = [pc EXCEPT ![w] = "update"]
    BY <1>0, <1>4 DEF Proceed
  <2>2. IngressesSettled(j, Len(IngressRefs[j.key]))
    BY <1>0, <1>4 DEF JustSettled
  <2>3. /\ Accounts(j.report, IngressRefs[j.key], FailureMode[j.key])
        /\ Accounts(j.status.providers, ProviderRefs[j.key], FailureMode[j.key])
    BY <1>1, <2>2, UpToTheEnd DEF IngressesSettled
  <2>4. /\ verdict.providers = j.status.providers /\ verdict.ingress = j.report
        /\ verdict.reason = "SyncSuccessful"
    BY <1>2 DEF SetReady, Status
  <2>5. k.key = j.key /\ k.status = verdict
    BY DEF Job
  <2> HIDE DEF verdict, k
  <2>6. StatusOK(k.status, k.key)
    BY <2>3, <2>4, <2>5 DEF StatusOK, Whole
  <2>7. Honest("update", k)
    BY <2>6 DEF Honest
  <2> QED BY <2>1, <2>7, HonestMoves
<1>5. CASE ~providersDone /\ ~allDone
  <2>1. job' = [job EXCEPT ![w] = j] /\ pc' = [pc EXCEPT ![w] = "config"]
    BY <1>5 DEF Proceed
  <2>2. AtPosition(j)
    BY <1>0, <1>5 DEF AtPosition, JustSettled
  <2>3. Honest("config", j)
    BY <2>2 DEF Honest
  <2> QED BY <2>1, <2>3, HonestMoves
<1> QED BY <1>3, <1>4, <1>5

-----------------------------------------------------------------------------
(* A reference is settled.                                                 *)

(* The reference in hand.                                                  *)
LEMMA CurrentIs ==
  ASSUME NEW w \in Workers, AtReference(job[w])
  PROVE  LET s == job[w].key
             n == Len(ProviderRefs[s])
         IN /\ OnProvider(w) <=> job[w].pos <= n
            /\ OnIngress(w) <=> ~(job[w].pos <= n)
            /\ Current(w) = IF job[w].pos <= n THEN ProviderRefs[s][job[w].pos]
                                               ELSE IngressRefs[s][job[w].pos - n]
            /\ job[w].pos \in Nat /\ job[w].pos # 0
<1>1. job[w].pos \in Nat /\ job[w].pos # 0 /\ job[w].key # Absent
  BY NamesAssumption DEF AtReference
<1> QED BY <1>1, RefsParts DEF AtReference, OnProvider, OnIngress, Current

(* A job with one more entry, and with the ranges of a provider if its     *)
(* FetchIPRanges succeeded, has settled that reference.                    *)
LEMMA SettledHonest ==
  ASSUME NEW w \in Workers, AtReference(job[w]), AtPosition(job[w]),
         NEW outcome \in {"Success", "Error"},
         FailureMode[job[w].key] = "fail" => outcome = "Success",
         NEW j \in Job, j.key = job[w].key, j.pos = job[w].pos + 1,
         j.report = Append(job[w].report, [name |-> Current(w), status |-> outcome]),
         j.status = job[w].status,
         \/ j.ranges = job[w].ranges /\ (OnProvider(w) => FailureMode[j.key] # "fail")
         \/ j.ranges = job[w].ranges \cup {Current(w)} /\ OnProvider(w)
  PROVE  JustSettled(j)
<1> DEFINE s == job[w].key
           n == Len(ProviderRefs[s])
           pos == job[w].pos
           e == [name |-> Current(w), status |-> outcome]
<1>1. s \in Syncs /\ job[w] \in Job
  BY DEF AtReference
<1>2. job[w].report \in Seq(Entry)
  BY <1>1, JobFields
<1>3. e \in Entry
  BY CurrentType DEF Entry
<1>4. e.name = Current(w) /\ (FailureMode[s] = "fail" => e.status = "Success")
  OBVIOUS
<1> HIDE DEF e
<1>5. j.report = Append(job[w].report, e)
  BY DEF e
<1>6. CASE pos <= n
  <2>1. /\ pos - 1 \in Nat /\ (pos - 1) + 1 = pos /\ j.pos - 1 = pos
        /\ j.pos <= n + 1
    BY <1>1, <1>6, CurrentIs, RefPositions
  <2>2. ProvidersSettled(job[w], pos - 1)
    BY <1>6 DEF AtPosition
  <2>3. Current(w) = ProviderRefs[s][pos] /\ OnProvider(w)
    BY <1>6, CurrentIs
  <2>4. UpTo(j.report, ProviderRefs[s], FailureMode[s], pos)
    <3>1. UpTo(job[w].report, ProviderRefs[s], FailureMode[s], pos - 1)
      BY <2>2 DEF ProvidersSettled
    <3>2. e.name = ProviderRefs[s][(pos - 1) + 1]
      BY <1>4, <2>1, <2>3
    <3> HIDE DEF n, pos, s
    <3>3. UpTo(Append(job[w].report, e), ProviderRefs[s], FailureMode[s], (pos - 1) + 1)
      BY <1>2, <1>3, <1>4, <2>1, <3>1, <3>2, UpToNext
    <3> QED BY <1>5, <2>1, <3>3
  <2>5. CollectedUpTo(j.ranges, s, pos)
    <3>1. CollectedUpTo(job[w].ranges, s, pos - 1)
      BY <2>2 DEF ProvidersSettled
    <3>2. /\ CollectedUpTo(job[w].ranges \cup {ProviderRefs[s][(pos - 1) + 1]},
                           s, (pos - 1) + 1)
          /\ FailureMode[s] # "fail" => CollectedUpTo(job[w].ranges, s, (pos - 1) + 1)
      BY <1>1, <2>1, <3>1, CollectedNext
    <3> QED BY <2>1, <2>3, <3>2
  <2>6. ProvidersSettled(j, j.pos - 1)
    BY <2>1, <2>4, <2>5 DEF ProvidersSettled
  <2> QED BY <2>1, <2>6 DEF JustSettled
<1>7. CASE ~(pos <= n)
  <2>1. /\ pos - 1 - n \in Nat /\ (pos - 1 - n) + 1 = pos - n
        /\ j.pos - 1 - n = (pos - 1 - n) + 1
        /\ ~(j.pos <= n + 1)
    <3>1. pos \in Nat
      BY CurrentIs
    <3>2. /\ pos - 1 - n \in Nat /\ (pos - 1 - n) + 1 = pos - n
          /\ (pos + 1) - 1 - n = (pos - 1 - n) + 1
          /\ ~(pos + 1 <= n + 1)
      BY <1>1, <1>7, <3>1, RefPositions
    <3>3. j.pos = pos + 1
      OBVIOUS
    <3> HIDE DEF pos, n
    <3> QED BY <3>2, <3>3
  <2>2. IngressesSettled(job[w], pos - 1 - n)
    BY <1>7 DEF AtPosition
  <2>3. Current(w) = IngressRefs[s][pos - n] /\ ~OnProvider(w)
    BY <1>7, CurrentIs
  <2>4. UpTo(j.report, IngressRefs[s], FailureMode[s], j.pos - 1 - n)
    <3>1. UpTo(job[w].report, IngressRefs[s], FailureMode[s], pos - 1 - n)
      BY <2>2 DEF IngressesSettled
    <3>2. e.name = IngressRefs[s][(pos - 1 - n) + 1]
      BY <1>4, <2>1, <2>3
    <3> HIDE DEF n, pos, s
    <3>3. UpTo(Append(job[w].report, e), IngressRefs[s], FailureMode[s], (pos - 1 - n) + 1)
      BY <1>2, <1>3, <1>4, <2>1, <3>1, <3>2, UpToNext
    <3> QED BY <1>5, <2>1, <3>3
  <2>5. /\ Accounts(j.status.providers, ProviderRefs[s], FailureMode[s])
        /\ CollectedUpTo(j.ranges, s, n)
    BY <2>2, <2>3 DEF IngressesSettled
  <2>6. IngressesSettled(j, j.pos - 1 - n)
    BY <2>4, <2>5 DEF IngressesSettled
  <2> QED BY <2>1, <2>6 DEF JustSettled
<1> QED BY <1>6, <1>7

(* A failed reference: a verdict in mode fail, an Error entry otherwise.   *)
LEMMA RefFailsHonest ==
  ASSUME TypeOK, IInvReport, NEW w \in Workers, AtReference(job[w]),
         Honest("use", job[w]), RefFails(w)
  PROVE  \A v \in Workers : Honest(pc'[v], job'[v])
<1>1. /\ StatusOK(job[w].status, job[w].key) /\ AtPosition(job[w])
      /\ job[w] \in Job /\ job[w].key \in Syncs
  BY DEF Honest, AtReference
<1>2. CASE GivesUp(job[w].key)
  <2> DEFINE reason == IF OnProvider(w) THEN "ProviderError" ELSE "IngressError"
             st == SetReady(job[w].status, "False", reason)
             k == [job[w] EXCEPT !.status = st]
  <2>1. job' = [job EXCEPT ![w] = k] /\ pc' = [pc EXCEPT ![w] = "update"]
    BY <1>2 DEF RefFails, TypeOK
  <2>2. reason = "IngressError" =>
          Accounts(job[w].status.providers, ProviderRefs[job[w].key], FailureMode[job[w].key])
    BY <1>1, CurrentIs DEF AtPosition, IngressesSettled
  <2>3. reason \in {"ProviderError", "IngressError"} /\ job[w].status \in Status
    BY <1>1, JobFields
  <2> HIDE DEF reason
  <2>4. StatusOK(st, job[w].key)
    BY <1>1, <2>2, <2>3, ErrorVerdict
  <2>5. k.status = st /\ k.key = job[w].key
    BY <1>1 DEF Job
  <2> HIDE DEF k, st
  <2>6. Honest("update", k)
    BY <2>4, <2>5 DEF Honest
  <2> QED BY <2>1, <2>6, HonestMoves
<1>3. CASE ~GivesUp(job[w].key)
  <2> DEFINE j == Settled(w, "Error")
  <2>1. Proceed(w, j) /\ FailureMode[job[w].key] # "fail"
    BY <1>3 DEF RefFails, GivesUp
  <2>2. j \in Job /\ j.key = job[w].key /\ j.pos = job[w].pos + 1
    BY SettledOK
  <2>3. /\ j.report = Append(job[w].report, [name |-> Current(w), status |-> "Error"])
        /\ j.status = job[w].status /\ j.ranges = job[w].ranges
    BY <1>1 DEF Settled, Job
  <2> HIDE DEF j
  <2>4. j.key \in Syncs /\ j.pos \in 1 .. Len(Refs(j.key)) + 1
    BY <2>2, RefsType DEF AtReference
  <2>5. JustSettled(j)
    BY <1>1, <2>1, <2>2, <2>3, SettledHonest
  <2> QED BY <1>1, <2>1, <2>2, <2>3, <2>4, <2>5, ProceedHonest
<1> QED BY <1>2, <1>3

-----------------------------------------------------------------------------
(* The steps of a worker.                                                  *)

(* A worker that stops is honest.                                          *)
LEMMA FinishHonest ==
  ASSUME TypeOK, IInvReport, NEW w \in Workers, Finish(w)
  PROVE  \A v \in Workers : Honest(pc'[v], job'[v])
BY HonestMoves DEF Honest, Finish

(* A worker that changes nothing but the config or plugin in its hands.    *)
LEMMA InHand ==
  ASSUME TypeOK, IInvReport, NEW w \in Workers, pc[w] \in {"config", "lookup", "create"},
         NEW step \in {"lookup", "create", "use"}, pc' = [pc EXCEPT ![w] = step],
         NEW x,
         \/ job' = [job EXCEPT ![w].spec = x]
         \/ job' = [job EXCEPT ![w].plugin = x]
         \/ UNCHANGED job
  PROVE  \A v \in Workers : Honest(pc'[v], job'[v])
<1>1. job[w] \in Job /\ Honest(pc[w], job[w]) /\ job \in [Workers -> Job]
  BY WorkersJob DEF IInvReport, TypeOK
<1>2. PICK j : /\ job' = [job EXCEPT ![w] = j]
               /\ j.key = job[w].key /\ j.pos = job[w].pos /\ j.report = job[w].report
               /\ j.ranges = job[w].ranges /\ j.status = job[w].status
  <2>1. CASE job' = [job EXCEPT ![w].spec = x]
    <3> DEFINE j == [job[w] EXCEPT !.spec = x]
    <3>1. job' = [job EXCEPT ![w] = j]
      BY <1>1, <2>1
    <3>2. /\ j.key = job[w].key /\ j.pos = job[w].pos /\ j.report = job[w].report
          /\ j.ranges = job[w].ranges /\ j.status = job[w].status
      BY <1>1 DEF Job
    <3> HIDE DEF j
    <3> QED BY <3>1, <3>2
  <2>2. CASE job' = [job EXCEPT ![w].plugin = x]
    <3> DEFINE j == [job[w] EXCEPT !.plugin = x]
    <3>1. job' = [job EXCEPT ![w] = j]
      BY <1>1, <2>2
    <3>2. /\ j.key = job[w].key /\ j.pos = job[w].pos /\ j.report = job[w].report
          /\ j.ranges = job[w].ranges /\ j.status = job[w].status
      BY <1>1 DEF Job
    <3> HIDE DEF j
    <3> QED BY <3>1, <3>2
  <2>3. CASE UNCHANGED job
    <3>1. job' = [job EXCEPT ![w] = job[w]]
      BY <1>1, <2>3
    <3> QED BY <3>1
  <2> QED BY <2>1, <2>2, <2>3
<1>3. AtPosition(j) <=> AtPosition(job[w])
  BY <1>2 DEF AtPosition, ProvidersSettled, IngressesSettled
<1>4. Honest(step, j)
  BY <1>1, <1>2, <1>3 DEF Honest
<1> QED BY <1>2, <1>4, HonestMoves

(* The status read is one that was stored.                                 *)
LEMMA GetSyncConfigHonest ==
  ASSUME TypeOK, IInvReport, NEW w \in Workers, GetSyncConfig(w)
  PROVE  \A v \in Workers : Honest(pc'[v], job'[v])
<1> DEFINE s == job[w].key
           k == [job[w] EXCEPT !.status = status[s], !.stale = behind[s]]
<1>1. s \in Syncs /\ job[w] \in Job /\ Honest("get", job[w])
  BY WorkersJob DEF GetSyncConfig, IInvReport
<1>2. CASE Finish(w)
  BY <1>2, FinishHonest
<1>3. CASE /\ job' = [job EXCEPT ![w].status = status[s], ![w].stale = behind[s]]
           /\ pc' = [pc EXCEPT ![w] = "config"]
  <2>1. job' = [job EXCEPT ![w] = k]
    BY <1>3 DEF TypeOK
  <2>2. /\ k.key = s /\ k.pos = job[w].pos /\ k.status = status[s]
        /\ k.report = job[w].report /\ k.ranges = job[w].ranges
    BY <1>1 DEF Job
  <2> HIDE DEF k
  <2>3. AtPosition(job[w]) /\ job[w].pos = 1
    BY <1>1 DEF Honest
  <2>4. 1 <= Len(ProviderRefs[s])
    <3>1. PICK n \in Nat : n = Len(ProviderRefs[s]) /\ n # 0
      BY <1>1, RefsParts
    <3> QED BY <3>1
  <2>5. AtPosition(k)
    BY <2>2, <2>3, <2>4 DEF AtPosition, ProvidersSettled
  <2>6. StatusOK(k.status, k.key)
    BY <1>1, <2>2 DEF IInvReport
  <2>7. Honest("config", k)
    BY <2>5, <2>6 DEF Honest
  <2> QED BY <1>3, <2>1, <2>7, HonestMoves
<1> QED BY <1>2, <1>3 DEF GetSyncConfig

(* A worker that works on a reference.                                     *)
LEMMA AtWork ==
  ASSUME TypeOK, IInvReport, NEW w \in Workers, pc[w] \notin {"idle", "update"}
  PROVE  AtReference(job[w]) /\ Honest("use", job[w])
BY WorkersJob DEF IInvReport, Honest

(* The steps that look up and create a plugin.                             *)
LEMMA PluginStepsHonest ==
  ASSUME TypeOK, IInvReport, NEW w \in Workers, GetConfig(w) \/ Lookup(w) \/ Create(w)
  PROVE  \A v \in Workers : Honest(pc'[v], job'[v])
<1>1. CASE RefFails(w)
  <2>1. pc[w] \notin {"idle", "update"}
    BY DEF GetConfig, Lookup, Create
  <2> QED BY <1>1, <2>1, AtWork, RefFailsHonest
<1>2. CASE ~RefFails(w)
  <2>1. CASE GetConfig(w)
    <3>1. /\ pc[w] = "config" /\ pc' = [pc EXCEPT ![w] = "lookup"]
          /\ job' = [job EXCEPT ![w].spec = config[Current(w)]]
      BY <1>2, <2>1 DEF GetConfig
    <3> QED BY <3>1, InHand
  <2>2. CASE Lookup(w)
    <3>1. CASE plugins[Current(w)] # Absent
      <4>1. /\ pc[w] = "lookup" /\ pc' = [pc EXCEPT ![w] = "use"]
            /\ job' = [job EXCEPT ![w].plugin = plugins[Current(w)]]
        BY <2>2, <3>1 DEF Lookup
      <4> QED BY <4>1, InHand
    <3>2. CASE plugins[Current(w)] = Absent
      <4>1. pc[w] = "lookup" /\ pc' = [pc EXCEPT ![w] = "create"] /\ UNCHANGED job
        BY <2>2, <3>2 DEF Lookup
      <4> QED BY <4>1, InHand
    <3> QED BY <3>1, <3>2
  <2>3. CASE Create(w)
    <3>1. /\ pc[w] = "create" /\ pc' = [pc EXCEPT ![w] = "use"]
          /\ job' = [job EXCEPT ![w].plugin = job[w].spec]
      BY <1>2, <2>3 DEF Create
    <3> QED BY <3>1, InHand
  <2> QED BY <2>1, <2>2, <2>3
<1> QED BY <1>1, <1>2

(* A fetched list is counted for its provider.                             *)
LEMMA FetchHonest ==
  ASSUME TypeOK, IInvReport, NEW w \in Workers, FetchIPRanges(w)
  PROVE  \A v \in Workers : Honest(pc'[v], job'[v])
<1>1. /\ AtReference(job[w]) /\ Honest("use", job[w]) /\ AtPosition(job[w])
      /\ StatusOK(job[w].status, job[w].key) /\ job[w] \in Job /\ job[w].key \in Syncs
  BY AtWork DEF FetchIPRanges, Honest, AtReference
<1>2. CASE RefFails(w)
  BY <1>1, <1>2, RefFailsHonest
<1>3. CASE Proceed(w, [Settled(w, "Success") EXCEPT !.ranges = @ \cup {Current(w)}])
  <2> DEFINE k == Settled(w, "Success")
             j == [k EXCEPT !.ranges = @ \cup {Current(w)}]
  <2>1. k \in Job /\ k.key = job[w].key /\ k.pos = job[w].pos + 1
    BY <1>1, SettledOK
  <2>2. /\ k.report = Append(job[w].report, [name |-> Current(w), status |-> "Success"])
        /\ k.status = job[w].status /\ k.ranges = job[w].ranges
    BY <1>1 DEF Settled, Job
  <2>3. Current(w) \in Providers /\ OnProvider(w)
    BY <1>1, CurrentType DEF FetchIPRanges
  <2>4. Proceed(w, j)
    BY <1>3
  <2> HIDE DEF k
  <2>5. /\ j \in Job /\ j.key = job[w].key /\ j.pos = job[w].pos + 1
        /\ j.report = k.report /\ j.status = k.status
        /\ j.ranges = job[w].ranges \cup {Current(w)}
    BY <2>1, <2>2, <2>3 DEF Job
  <2> HIDE DEF j
  <2>6. j.key \in Syncs /\ j.pos \in 1 .. Len(Refs(j.key)) + 1
    BY <1>1, <2>5, RefsType DEF AtReference
  <2>7. JustSettled(j)
    BY <1>1, <2>2, <2>3, <2>5, SettledHonest
  <2> QED BY <1>1, <2>2, <2>4, <2>5, <2>6, <2>7, ProceedHonest
<1> QED BY <1>2, <1>3 DEF FetchIPRanges

(* So is an applied one for its ingress.                                   *)
LEMMA ApplyHonest ==
  ASSUME TypeOK, IInvReport, NEW w \in Workers, ApplyIPRanges(w)
  PROVE  \A v \in Workers : Honest(pc'[v], job'[v])
<1>1. /\ AtReference(job[w]) /\ Honest("use", job[w]) /\ AtPosition(job[w])
      /\ StatusOK(job[w].status, job[w].key) /\ job[w] \in Job /\ job[w].key \in Syncs
  BY AtWork DEF ApplyIPRanges, Honest, AtReference
<1>2. CASE RefFails(w)
  BY <1>1, <1>2, RefFailsHonest
<1>3. CASE Proceed(w, Settled(w, "Success"))
  <2> DEFINE j == Settled(w, "Success")
  <2>1. j \in Job /\ j.key = job[w].key /\ j.pos = job[w].pos + 1
    BY <1>1, SettledOK
  <2>2. /\ j.report = Append(job[w].report, [name |-> Current(w), status |-> "Success"])
        /\ j.status = job[w].status /\ j.ranges = job[w].ranges
    BY <1>1 DEF Settled, Job
  <2>3. Proceed(w, j) /\ ~OnProvider(w)
    BY <1>3 DEF ApplyIPRanges, OnIngress
  <2> HIDE DEF j
  <2>4. j.key \in Syncs /\ j.pos \in 1 .. Len(Refs(j.key)) + 1
    BY <1>1, <2>1, RefsType DEF AtReference
  <2>5. JustSettled(j)
    BY <1>1, <2>1, <2>2, <2>3, SettledHonest
  <2> QED BY <1>1, <2>1, <2>2, <2>3, <2>4, <2>5, ProceedHonest
<1> QED BY <1>2, <1>3 DEF ApplyIPRanges

(* A list that was collected for one of the SyncConfigs that refer to      *)
(* ingress i, from all its providers in mode fail.                         *)
WholeFor(i, ranges) ==
  \E s \in Syncs :
    /\ \E k \in DOMAIN IngressRefs[s] : IngressRefs[s][k] = i
    /\ LET all == {ProviderRefs[s][k] : k \in DOMAIN ProviderRefs[s]} IN
       /\ ranges \subseteq all
       /\ FailureMode[s] = "fail" => ranges = all

(* What an ingress is called with is all that its SyncConfig asks for.     *)
LEMMA CallWhole ==
  ASSUME TypeOK, IInvReport, NEW w \in Workers, pc[w] = "use", OnIngress(w)
  PROVE  WholeFor(Current(w), job[w].ranges)
<1> DEFINE s == job[w].key
           n == Len(ProviderRefs[s])
           all == {ProviderRefs[s][k] : k \in DOMAIN ProviderRefs[s]}
<1>1. AtReference(job[w]) /\ AtPosition(job[w]) /\ s \in Syncs
  BY AtWork DEF Honest, AtReference
<1>2. CollectedUpTo(job[w].ranges, s, n)
  BY <1>1, CurrentIs DEF AtPosition, IngressesSettled
<1>3. job[w].ranges \subseteq all /\ (FailureMode[s] = "fail" => job[w].ranges = all)
  BY <1>1, <1>2, RefsParts DEF CollectedUpTo
<1>4. \E k \in DOMAIN IngressRefs[s] : IngressRefs[s][k] = Current(w)
  <2>1. PICK m \in Nat : m = n
    BY <1>1, RefsParts
  <2>2. PICK i \in Nat : i = Len(IngressRefs[s])
    BY <1>1, RefsParts
  <2>3. /\ job[w].pos \in 1 .. m + i /\ ~(job[w].pos <= m)
        /\ Current(w) = IngressRefs[s][job[w].pos - m]
        /\ DOMAIN IngressRefs[s] = 1 .. i
    BY <1>1, <2>1, <2>2, CurrentIs, RefsParts DEF AtReference
  <2> QED BY <2>3, SecondPart
<1> QED BY <1>1, <1>3, <1>4 DEF WholeFor

(* A step after which the last calls are those of before, or calls that    *)
(* workers were about to make.                                             *)
LEMMA CallsWhole ==
  ASSUME TypeOK, IInvReport,
         \A i \in Ingresses :
           \/ lastCall'[i] = lastCall[i]
           \/ \E w \in Workers : /\ pc[w] = "use" /\ OnIngress(w) /\ Current(w) = i
                                 /\ lastCall'[i].ranges = job[w].ranges
  PROVE  AppliedAsAWhole'
<1>1. ASSUME NEW i \in Ingresses, lastCall'[i] # Absent
      PROVE  WholeFor(i, lastCall'[i].ranges)
  <2>1. CASE lastCall'[i] = lastCall[i]
    BY <1>1, <2>1 DEF IInvReport, AppliedAsAWhole, WholeFor
  <2>2. CASE lastCall'[i] # lastCall[i]
    BY <1>1, <2>2, CallWhole
  <2> QED BY <2>1, <2>2
<1> QED BY <1>1 DEF AppliedAsAWhole, WholeFor

(* The call of ApplyIPRanges is such a step.                               *)
LEMMA ApplyWhole ==
  ASSUME TypeOK, IInvReport, NEW w \in Workers, ApplyIPRanges(w)
  PROVE  AppliedAsAWhole'
<1>1. pc[w] = "use" /\ OnIngress(w)
  BY DEF ApplyIPRanges
<1>2. \A i \in Ingresses : \/ lastCall'[i] = lastCall[i]
                           \/ i = Current(w) /\ lastCall'[i].ranges = job[w].ranges
  BY DEF ApplyIPRanges, Called, TypeOK
<1> QED BY <1>1, <1>2, CallsWhole

(* The status that is stored is the worker's.                              *)
LEMMA UpdateStatusHonest ==
  ASSUME TypeOK, IInvReport, NEW w \in Workers, UpdateStatus(w)
  PROVE  /\ \A v \in Workers : Honest(pc'[v], job'[v])
         /\ \A s \in Syncs : StatusOK(status'[s], s)
<1>1. \A v \in Workers : Honest(pc'[v], job'[v])
  BY FinishHonest DEF UpdateStatus
<1>2. Honest("update", job[w]) /\ job[w].key \in Syncs
  BY WorkersJob DEF UpdateStatus, IInvReport
<1>3. status' = status \/ status' = [status EXCEPT ![job[w].key] = job[w].status]
  BY DEF UpdateStatus, WriteStatus, cluster
<1>4. \A s \in Syncs : StatusOK(status'[s], s)
  BY <1>2, <1>3 DEF IInvReport, Honest, TypeOK
<1> QED BY <1>1, <1>4

-----------------------------------------------------------------------------
(* The other steps, and the theorems.                                      *)

(* A new job has nothing in it.                                            *)
LEMMA DequeueHonest ==
  ASSUME TypeOK, IInvReport, NEW w \in Workers, NEW s \in Syncs, Dequeue(w, s)
  PROVE  \A v \in Workers : Honest(pc'[v], job'[v])
<1> DEFINE j == [NoJob EXCEPT !.key = s]
<1>1. /\ j.key = s /\ j.pos = 1 /\ j.report = <<>> /\ j.ranges = {}
      /\ j.status = NewStatus
  BY DEF NoJob
<1>2. job' = [job EXCEPT ![w] = j] /\ pc' = [pc EXCEPT ![w] = "get"]
  BY DEF Dequeue
<1> HIDE DEF j
<1>3. AtPosition(j)
  BY <1>1, NothingSettled
<1>4. StatusOK(NewStatus, s)
  BY DEF StatusOK, NewStatus, Whole
<1>5. Honest("get", j)
  BY <1>1, <1>3, <1>4 DEF Honest
<1> QED BY <1>2, <1>5, HonestMoves

(* A job that only becomes stale is as honest as before.                   *)
LEMMA SyncConfigEventHonest ==
  ASSUME TypeOK, IInvReport, NEW s \in Syncs, SyncConfigEvent(s)
  PROVE  IInvReport'
<1>1. ASSUME NEW v \in Workers PROVE Honest(pc'[v], job'[v])
  <2>1. job[v] \in Job /\ Honest(pc[v], job[v])
    BY WorkersJob DEF IInvReport
  <2> DEFINE j == [job[v] EXCEPT !.stale = TRUE]
  <2>2. /\ j.key = job[v].key /\ j.pos = job[v].pos /\ j.report = job[v].report
        /\ j.ranges = job[v].ranges /\ j.status = job[v].status
    BY <2>1 DEF Job
  <2>3. pc'[v] = pc[v] /\ (job'[v] = j \/ job'[v] = job[v])
    BY DEF SyncConfigEvent
  <2> HIDE DEF j
  <2>4. AtPosition(j) <=> AtPosition(job[v])
    BY <2>2 DEF AtPosition, ProvidersSettled, IngressesSettled
  <2>5. Honest(pc[v], j)
    BY <2>1, <2>2, <2>4 DEF Honest
  <2> QED BY <2>1, <2>3, <2>5
<1>2. \A r \in Syncs : StatusOK(status'[r], r)
  <2>1. StatusOK(NewStatus, s)
    BY DEF StatusOK, NewStatus, Whole
  <2>2. status' = status \/ status' = [status EXCEPT ![s] = NewStatus]
    BY DEF SyncConfigEvent
  <2> QED BY <2>1, <2>2 DEF IInvReport, TypeOK
<1>3. AppliedAsAWhole'
  BY DEF IInvReport, SyncConfigEvent, AppliedAsAWhole
<1> QED BY <1>1, <1>2, <1>3 DEF IInvReport

(* Nothing is reported or applied at the start.                            *)
LEMMA ReportInit ==
  ASSUME Init
  PROVE  IInvReport
<1>1. \A s \in Syncs : StatusOK(status[s], s)
  BY DEF Init, StatusOK, NewStatus, Whole
<1>2. \A w \in Workers : Honest(pc[w], job[w])
  BY DEF Init, Honest
<1>3. AppliedAsAWhole
  BY DEF Init, AppliedAsAWhole
<1> QED BY <1>1, <1>2, <1>3 DEF IInvReport

(* A step that leaves the statuses and the ingresses alone.                *)
LEMMA OnlyJobs ==
  ASSUME IInvReport, UNCHANGED <<status, lastCall>>,
         \A v \in Workers : Honest(pc'[v], job'[v])
  PROVE  IInvReport'
BY DEF IInvReport, AppliedAsAWhole

(* A step that leaves the workers alone as well.                           *)
LEMMA NothingReported ==
  ASSUME IInvReport, UNCHANGED <<status, lastCall, pc, job>>
  PROVE  IInvReport'
BY DEF IInvReport, AppliedAsAWhole

(* Any step of a worker.                                                   *)
LEMMA ReportStep ==
  ASSUME TypeOK, IInvReport, NEW w \in Workers, Step(w)
  PROVE  IInvReport'
<1>1. CASE GetSyncConfig(w)
  BY <1>1, GetSyncConfigHonest, OnlyJobs DEF GetSyncConfig, cluster
<1>2. CASE GetConfig(w) \/ Lookup(w) \/ Create(w)
  <2>1. UNCHANGED <<status, lastCall>>
    BY <1>2 DEF GetConfig, Lookup, Create, cluster
  <2> QED BY <1>2, <2>1, PluginStepsHonest, OnlyJobs
<1>3. CASE FetchIPRanges(w)
  BY <1>3, FetchHonest, OnlyJobs DEF FetchIPRanges, cluster
<1>4. CASE ApplyIPRanges(w)
  <2>1. \A s \in Syncs : StatusOK(status'[s], s)
    BY <1>4 DEF IInvReport, ApplyIPRanges, cluster
  <2> QED BY <1>4, <2>1, ApplyHonest, ApplyWhole DEF IInvReport
<1>5. CASE UpdateStatus(w)
  <2>1. AppliedAsAWhole'
    BY <1>5 DEF UpdateStatus, IInvReport, AppliedAsAWhole
  <2> QED BY <1>5, <2>1, UpdateStatusHonest DEF IInvReport
<1> QED BY <1>1, <1>2, <1>3, <1>4, <1>5
        DEF Step, GetProviderConfig, LookupProvider, CreateProvider,
            GetIngressConfig, LookupIngress, CreateIngress

(* Any step of the system.                                                 *)
LEMMA ReportNext ==
  ASSUME TypeOK, IInvReport, [Next]_vars
  PROVE  IInvReport'
<1>1. ASSUME NEW w \in Workers, Step(w) PROVE IInvReport'
  BY <1>1, ReportStep
<1>2. ASSUME NEW w \in Workers, NEW s \in Syncs, Dequeue(w, s) PROVE IInvReport'
  BY <1>2, DequeueHonest, OnlyJobs DEF Dequeue, cluster
<1>3. ASSUME NEW s \in Syncs, TimerFires(s) PROVE IInvReport'
  BY <1>3, NothingReported DEF TimerFires, cluster
<1>4. ASSUME NEW s \in Syncs, DeliverSyncConfig(s) PROVE IInvReport'
  BY <1>4, NothingReported DEF DeliverSyncConfig
<1>5. ASSUME NEW s \in Syncs, SyncConfigEvent(s) PROVE IInvReport'
  BY <1>5, SyncConfigEventHonest
<1>6. ASSUME NEW c \in Configs, ConfigEvent(c) PROVE IInvReport'
  BY <1>6, NothingReported DEF ConfigEvent, cluster
<1>7. CASE Restart
  <2>1. \A v \in Workers : Honest(pc'[v], job'[v])
    BY <1>7 DEF Restart, Honest
  <2>2. \A i \in Ingresses :
          \/ lastCall'[i] = lastCall[i]
          \/ \E w \in Calling(i) : lastCall'[i] = [ranges |-> job[w].ranges, ok |-> FALSE]
    BY <1>7 DEF Restart
  <2>3. AppliedAsAWhole'
    <3>1. ASSUME NEW i \in Ingresses, NEW w \in Calling(i),
                 lastCall'[i] = [ranges |-> job[w].ranges, ok |-> FALSE]
          PROVE  /\ w \in Workers /\ pc[w] = "use" /\ OnIngress(w) /\ Current(w) = i
                 /\ lastCall'[i].ranges = job[w].ranges
      BY <3>1 DEF Calling
    <3> QED BY <2>2, <3>1, CallsWhole
  <2>4. \A s \in Syncs : StatusOK(status'[s], s)
    BY <1>7 DEF Restart, IInvReport
  <2> QED BY <2>1, <2>3, <2>4 DEF IInvReport
<1>8. CASE UNCHANGED vars
  BY <1>8, NothingReported DEF vars, cluster
<1> QED BY <1>1, <1>2, <1>3, <1>4, <1>5, <1>6, <1>7, <1>8 DEF Next

(* The invariant holds in every behaviour.                                 *)
LEMMA ReportInvariant == Spec => []IInvReport
BY TypeCorrect, ReportInit, ReportNext, PTL DEF Spec

(* However SyncConfigs share their ingresses, and however many workers     *)
(* there are: the list that an ingress is called with was collected for    *)
(* one of the SyncConfigs that refer to it, and in mode fail from all its  *)
(* providers.                                                              *)
THEOREM Applied == Spec => []AppliedAsAWhole
<1>1. IInvReport => AppliedAsAWhole
  BY DEF IInvReport
<1> QED BY <1>1, ReportInvariant, PTL

(* A stored list of statuses is complete or absent, for lists of any       *)
(* length, although each attempt starts from the status that the previous  *)
(* one left.                                                               *)
THEOREM Reports == Spec => []ReportsAreWhole
<1>1. IInvReport => ReportsAreWhole
  BY DEF IInvReport, StatusOK, ReportsAreWhole
<1> QED BY <1>1, ReportInvariant, PTL

(* Ready=True is only stored beside an entry for each reference.           *)
THEOREM Ready == Spec => []ReadyAccountsForSpec
<1>1. IInvReport => ReadyAccountsForSpec
  BY DEF IInvReport, StatusOK, ReadyAccountsForSpec
<1> QED BY <1>1, ReportInvariant, PTL

-----------------------------------------------------------------------------
(* A status that says Ready=True tells what was done, as long as one       *)
(* worker reconciles, or several that have no ingress in common.           *)

IngressesOf(s) == {IngressRefs[s][k] : k \in DOMAIN IngressRefs[s]}

Isolated ==
  \/ \A v, w \in Workers : v = w
  \/ \A r, s \in Syncs : r # s => IngressesOf(r) \cap IngressesOf(s) = {}

(* The ranges are those of the providers with a Success entry, and the     *)
(* last call on an ingress with one was for them.                          *)
TrueOfIngresses(calls, j, entries) ==
  Succeeded(j.status.providers) = j.ranges /\ WasApplied(calls, entries, j.ranges)

(* A job whose last settled reference is before position pos.              *)
TrueBefore(calls, j, pos) ==
  IF pos <= Len(ProviderRefs[j.key])
    THEN Succeeded(j.report) = j.ranges
    ELSE TrueOfIngresses(calls, j, j.report)

Truthful(calls, step, j) ==
  /\ step \notin {"idle", "update"} => TrueBefore(calls, j, j.pos)
  /\ step = "update" /\ j.status.ready = "True" =>
       TrueOfIngresses(calls, j, j.status.ingress)

(* The work queue hands no key to two workers.                             *)
OneWorkerPerKey ==
  \A v, w \in Workers :
    v # w /\ pc[v] # "idle" /\ pc[w] # "idle" => job[v].key # job[w].key

IInvTrue ==
  OneWorkerPerKey /\ \A w \in Workers : Truthful(lastCall, pc[w], job[w])

(* One more entry: its name succeeded, if the entry says so.               *)
LEMMA SucceededNext ==
  ASSUME NEW entries \in Seq(Entry), NEW e \in Entry
  PROVE  Succeeded(Append(entries, e)) =
           IF e.status = "Success" THEN Succeeded(entries) \cup {e.name}
                                   ELSE Succeeded(entries)
<1> DEFINE n == Len(entries)
<1>1. /\ n \in Nat /\ DOMAIN entries = 1 .. n
      /\ DOMAIN Append(entries, e) = 1 .. n + 1
      /\ \A k \in 1 .. n : Append(entries, e)[k] = entries[k]
      /\ Append(entries, e)[n + 1] = e
  BY AppendProperties
<1>2. e.name \in Configs /\ \A c : e = [name |-> c, status |-> "Success"] <=>
                                     c = e.name /\ e.status = "Success"
  BY DEF Entry
<1>3. \A k \in 1 .. n + 1 : k \in 1 .. n \/ k = n + 1
  BY <1>1
<1>4. n + 1 \in 1 .. n + 1 /\ \A k \in 1 .. n : k \in 1 .. n + 1
  BY <1>1
<1> HIDE DEF n
<1>5. ASSUME NEW c \in Configs
      PROVE  (\E k \in 1 .. n + 1 : Append(entries, e)[k] = [name |-> c, status |-> "Success"])
             <=> \/ \E k \in 1 .. n : entries[k] = [name |-> c, status |-> "Success"]
                 \/ c = e.name /\ e.status = "Success"
  BY <1>1, <1>2, <1>3, <1>4
<1> QED BY <1>1, <1>2, <1>5 DEF Succeeded

(* The same for the names that failed.                                     *)
LEMMA FailedNext ==
  ASSUME NEW entries \in Seq(Entry), NEW e \in Entry
  PROVE  /\ Failed(entries) \subseteq Failed(Append(entries, e))
         /\ e.status = "Error" => e.name \in Failed(Append(entries, e))
<1> DEFINE n == Len(entries)
<1>1. /\ n \in Nat /\ DOMAIN entries = 1 .. n
      /\ DOMAIN Append(entries, e) = 1 .. n + 1
      /\ \A k \in 1 .. n : Append(entries, e)[k] = entries[k]
      /\ Append(entries, e)[n + 1] = e
  BY AppendProperties
<1>2. e.name \in Configs /\ (e.status = "Error" => e = [name |-> e.name, status |-> "Error"])
  BY DEF Entry
<1>3. n + 1 \in 1 .. n + 1 /\ \A k \in 1 .. n : k \in 1 .. n + 1
  BY <1>1
<1> HIDE DEF n
<1> QED BY <1>1, <1>2, <1>3 DEF Failed

(* Names in a list that accounts for references are references.            *)
LEMMA SucceededAreRefs ==
  ASSUME NEW s \in Syncs, NEW entries \in Seq(Entry), NEW n \in Nat,
         n <= Len(IngressRefs[s]), UpTo(entries, IngressRefs[s], FailureMode[s], n)
  PROVE  Succeeded(entries) \subseteq IngressesOf(s)
<1>1. DOMAIN entries = 1 .. n /\ \A k \in 1 .. n : entries[k].name = IngressRefs[s][k]
  BY DEF UpTo
<1>2. \A k \in 1 .. n : k \in DOMAIN IngressRefs[s]
  <2>1. PICK m \in Nat : m = Len(IngressRefs[s]) /\ DOMAIN IngressRefs[s] = 1 .. m
    BY RefsParts
  <2> QED BY <2>1
<1> QED BY <1>1, <1>2 DEF Succeeded, IngressesOf

(* The ingresses a worker has reported on are those of its SyncConfig.     *)
LEMMA ReportedAreOwn ==
  ASSUME TypeOK, IInvReport, NEW v \in Workers, pc[v] # "idle"
  PROVE  LET j == job[v] IN
         /\ pc[v] # "update" /\ ~(j.pos <= Len(ProviderRefs[j.key])) =>
              Succeeded(j.report) \subseteq IngressesOf(j.key)
         /\ j.status.ready = "True" => Succeeded(j.status.ingress) \subseteq IngressesOf(j.key)
<1> DEFINE j == job[v]
           s == j.key
           m == Len(ProviderRefs[s])
           n == Len(IngressRefs[s])
<1>1. s \in Syncs /\ j \in Job /\ Honest(pc[v], j)
  BY WorkersJob DEF IInvReport
<1>2. /\ m \in Nat /\ n \in Nat /\ Len(Refs(s)) = m + n
      /\ DOMAIN IngressRefs[s] = 1 .. n
  BY <1>1, RefsParts
<1>3. j.report \in Seq(Entry) /\ j.status.ingress \in Seq(Entry)
  BY <1>1, JobFields DEF Status
<1>4. ASSUME pc[v] # "update", ~(j.pos <= m)
      PROVE  Succeeded(j.report) \subseteq IngressesOf(s)
  <2>1. UpTo(j.report, IngressRefs[s], FailureMode[s], j.pos - 1 - m)
    BY <1>1, <1>4 DEF Honest, AtPosition, IngressesSettled
  <2>2. j.pos \in 1 .. m + n
    BY <1>2, <1>4, WorkersJob DEF AtReference
  <2> HIDE DEF j, s, m, n
  <2>3. j.pos - 1 - m \in Nat /\ j.pos - 1 - m <= n
    BY <1>2, <1>4, <2>2
  <2>4. s \in Syncs /\ n = Len(IngressRefs[s])
    BY <1>1 DEF n
  <2> QED BY <1>3, <2>1, <2>3, <2>4, SucceededAreRefs
<1>5. ASSUME j.status.ready = "True"
      PROVE  Succeeded(j.status.ingress) \subseteq IngressesOf(s)
  <2>1. UpTo(j.status.ingress, IngressRefs[s], FailureMode[s], n)
    BY <1>1, <1>2, <1>5, UpToTheEnd DEF Honest, StatusOK
  <2> QED BY <1>1, <1>2, <1>3, <2>1, SucceededAreRefs
<1> QED BY <1>4, <1>5

(* A worker takes its job to another step, or ends it.                     *)
GoesTo(w, calls) ==
  \E step, j :
    /\ pc' = [pc EXCEPT ![w] = step]
    /\ job' = [job EXCEPT ![w] = j]
    /\ step = "idle" \/ j.key = job[w].key
    /\ Truthful(calls, step, j)

(* At most the ingresses of one SyncConfig change.                         *)
OnlyIngressesOf(s) ==
  \A i \in Ingresses \ IngressesOf(s) : lastCall'[i] = lastCall[i]

(* What a SyncConfig refers to as ingresses are ingresses.                 *)
LEMMA IngressesOfType ==
  ASSUME NEW s \in Syncs
  PROVE  IngressesOf(s) \subseteq Ingresses
<1>1. PICK i \in Seq(Ingresses) : i = IngressRefs[s]
  BY SpecAssumption
<1>2. \A k \in DOMAIN i : i[k] \in Ingresses
  BY ElementOfSeq, LenProperties
<1> QED BY <1>1, <1>2 DEF IngressesOf

(* What other workers have reported stays true.                            *)
LEMMA OthersStayTrue ==
  ASSUME TypeOK, IInvReport, IInvTrue, Isolated,
         NEW w \in Workers, pc[w] # "idle", OnlyIngressesOf(job[w].key),
         NEW v \in Workers, v # w
  PROVE  Truthful(lastCall', pc[v], job[v])
<1> DEFINE j == job[v]
           n == Len(ProviderRefs[j.key])
<1>1. CASE pc[v] = "idle"
  BY <1>1 DEF Truthful
<1>2. CASE pc[v] # "idle"
  <2>1. job[v].key # job[w].key /\ job[v].key \in Syncs /\ job[w].key \in Syncs
    BY <1>2, WorkersJob DEF IInvTrue, OneWorkerPerKey
  <2>2. \A i \in IngressesOf(j.key) : lastCall'[i] = lastCall[i]
    BY <2>1, IngressesOfType DEF Isolated, OnlyIngressesOf
  <2>3. ASSUME NEW entries, Succeeded(entries) \subseteq IngressesOf(j.key),
               TrueOfIngresses(lastCall, j, entries)
        PROVE  TrueOfIngresses(lastCall', j, entries)
    BY <2>2, <2>3 DEF TrueOfIngresses, WasApplied
  <2>4. Truthful(lastCall, pc[v], j)
    BY DEF IInvTrue
  <2> QED BY <1>2, <2>3, <2>4, ReportedAreOwn DEF Truthful, TrueBefore
<1> QED BY <1>1, <1>2

(* A move of one worker keeps the invariant.                               *)
LEMMA TrueMoves ==
  ASSUME TypeOK, IInvReport, IInvTrue, Isolated, NEW w \in Workers, pc[w] # "idle",
         OnlyIngressesOf(job[w].key), GoesTo(w, lastCall')
  PROVE  IInvTrue'
<1>1. PICK step, j : /\ pc' = [pc EXCEPT ![w] = step]
                     /\ job' = [job EXCEPT ![w] = j]
                     /\ step = "idle" \/ j.key = job[w].key
                     /\ Truthful(lastCall', step, j)
  BY DEF GoesTo
<1>2. /\ pc'[w] = step /\ job'[w] = j
      /\ \A v \in Workers : v # w => pc'[v] = pc[v] /\ job'[v] = job[v]
  BY <1>1 DEF TypeOK
<1>3. OneWorkerPerKey'
  BY <1>1, <1>2 DEF IInvTrue, OneWorkerPerKey
<1>4. ASSUME NEW v \in Workers PROVE Truthful(lastCall', pc'[v], job'[v])
  BY <1>1, <1>2, OthersStayTrue
<1> QED BY <1>3, <1>4 DEF IInvTrue

(* A worker that ends its job.                                             *)
LEMMA FinishTrue ==
  ASSUME NEW w \in Workers, Finish(w), NEW calls
  PROVE  GoesTo(w, calls)
<1>1. Truthful(calls, "idle", NoJob)
  BY DEF Truthful
<1> QED BY <1>1 DEF Finish, GoesTo

(* After the last provider the ranges are those of the providers in the    *)
(* status; after the last ingress the status says what the report says.    *)
LEMMA ProceedTrue ==
  ASSUME TypeOK, NEW w \in Workers, NEW calls, NEW j \in Job, j.key = job[w].key,
         j.key \in Syncs, j.pos \in 1 .. Len(Refs(j.key)) + 1,
         TrueBefore(calls, j, j.pos - 1), Proceed(w, j)
  PROVE  GoesTo(w, calls)
<1> DEFINE n == Len(ProviderRefs[j.key])
           verdict == SetReady([j.status EXCEPT !.ingress = j.report],
                               "True", "SyncSuccessful")
           providersDone == j.pos = n + 1
           allDone == j.pos = Len(Refs(j.key)) + 1
<1>1. j.status \in Status /\ j.pos \in Nat /\ n \in Nat /\ n # 0 /\ j.pos # 0
  <2>1. j.status \in Status /\ j.pos \in Nat
    BY JobFields
  <2>2. n \in Nat /\ n # 0 /\ Len(Refs(j.key)) \in Nat
    BY RefsType
  <2> HIDE DEF n
  <2> QED BY <2>1, <2>2
<1>2. /\ providersDone => ~allDone /\ ~(j.pos <= n) /\ j.pos - 1 <= n
      /\ allDone => ~providersDone /\ ~(j.pos - 1 <= n)
      /\ ~providersDone => (j.pos - 1 <= n <=> j.pos <= n)
  <2>1. PICK m \in Nat : m = Len(IngressRefs[j.key]) /\ m # 0 /\ Len(Refs(j.key)) = n + m
    BY RefsParts
  <2>2. PICK p \in Nat : p = j.pos
    BY <1>1
  <2> HIDE DEF n
  <2> QED BY <1>1, <2>1, <2>2
<1>3. CASE providersDone
  <2> DEFINE k == [j EXCEPT !.status.providers = j.report, !.report = <<>>]
  <2>1. job' = [job EXCEPT ![w] = k] /\ pc' = [pc EXCEPT ![w] = "config"]
    BY <1>2, <1>3 DEF Proceed
  <2>2. Succeeded(j.report) = j.ranges
    BY <1>2, <1>3 DEF TrueBefore
  <2>3. /\ k.key = j.key /\ k.pos = j.pos /\ k.report = <<>> /\ k.ranges = j.ranges
        /\ k.status.providers = j.report
    BY <1>1, <1>3 DEF Job, Status
  <2> HIDE DEF k
  <2>4. Succeeded(k.report) = {}
    BY <2>3 DEF Succeeded
  <2>5. TrueOfIngresses(calls, k, k.report)
    BY <2>2, <2>3, <2>4 DEF TrueOfIngresses, WasApplied
  <2>6. Truthful(calls, "config", k)
    BY <1>2, <1>3, <2>3, <2>5 DEF Truthful, TrueBefore
  <2> QED BY <2>1, <2>3, <2>6 DEF GoesTo
<1>4. CASE allDone
  <2> DEFINE k == [j EXCEPT !.status = verdict]
  <2>1. job' = [job EXCEPT ![w] = k] /\ pc' = [pc EXCEPT ![w] = "update"]
    BY <1>2, <1>4 DEF Proceed
  <2>2. TrueOfIngresses(calls, j, j.report)
    BY <1>2, <1>4 DEF TrueBefore
  <2>3. verdict.providers = j.status.providers /\ verdict.ingress = j.report
    BY <1>1 DEF SetReady, Status
  <2>4. k.key = j.key /\ k.status = verdict /\ k.ranges = j.ranges
    BY DEF Job
  <2> HIDE DEF verdict, k
  <2>5. Truthful(calls, "update", k)
    BY <2>2, <2>3, <2>4 DEF Truthful, TrueOfIngresses
  <2> QED BY <2>1, <2>4, <2>5 DEF GoesTo
<1>5. CASE ~providersDone /\ ~allDone
  <2>1. job' = [job EXCEPT ![w] = j] /\ pc' = [pc EXCEPT ![w] = "config"]
    BY <1>5 DEF Proceed
  <2>2. Truthful(calls, "config", j)
    BY <1>2, <1>5 DEF Truthful, TrueBefore
  <2> QED BY <2>1, <2>2 DEF GoesTo
<1> QED BY <1>3, <1>4, <1>5

(* What settling a reference with an outcome has done to the last calls:   *)
(* nothing, or its ingress was called with the ranges.                     *)
CalledOnce(w, before, calls, outcome) ==
  \/ calls = before /\ (outcome = "Error" \/ ~OnIngress(w))
  \/ /\ OnIngress(w)
     /\ calls[Current(w)] = [ranges |-> job[w].ranges, ok |-> outcome = "Success"]
     /\ \A i \in Succeeded(job[w].report) : i # Current(w) => calls[i] = before[i]

(* A settled reference: the job has one more entry, and the ranges of a    *)
(* provider that succeeded, or an ingress was called with its ranges.      *)
LEMMA SettledTrue ==
  ASSUME NEW w \in Workers, AtReference(job[w]), NEW before, NEW calls,
         TrueBefore(before, job[w], job[w].pos),
         NEW outcome \in {"Success", "Error"}, CalledOnce(w, before, calls, outcome),
         NEW j \in Job, j.key = job[w].key, j.pos = job[w].pos + 1,
         j.report = Append(job[w].report, [name |-> Current(w), status |-> outcome]),
         j.status = job[w].status,
         j.ranges = IF OnProvider(w) /\ outcome = "Success"
                      THEN job[w].ranges \cup {Current(w)} ELSE job[w].ranges
  PROVE  TrueBefore(calls, j, j.pos - 1)
<1> DEFINE e == [name |-> Current(w), status |-> outcome]
           n == Len(ProviderRefs[job[w].key])
<1>1. job[w] \in Job /\ job[w].report \in Seq(Entry) /\ j.pos - 1 = job[w].pos
  <2>1. job[w].pos \in Nat
    BY CurrentIs
  <2> QED BY <2>1, JobFields DEF AtReference
<1>2. e \in Entry
  BY CurrentType DEF Entry
<1>3. /\ Succeeded(j.report) = IF outcome = "Success"
                                 THEN Succeeded(job[w].report) \cup {Current(w)}
                                 ELSE Succeeded(job[w].report)
      /\ Failed(job[w].report) \subseteq Failed(j.report)
      /\ outcome = "Error" => Current(w) \in Failed(j.report)
  <2>1. j.report = Append(job[w].report, e) /\ e.name = Current(w) /\ e.status = outcome
    OBVIOUS
  <2> HIDE DEF e
  <2> QED BY <1>1, <1>2, <2>1, SucceededNext, FailedNext
<1>4. CASE job[w].pos <= n
  <2>1. OnProvider(w)
    BY <1>4, CurrentIs
  <2> QED BY <1>1, <1>3, <1>4, <2>1 DEF TrueBefore
<1>5. CASE ~(job[w].pos <= n)
  <2>1. OnIngress(w) /\ ~OnProvider(w)
    BY <1>5, CurrentIs
  <2>2. TrueOfIngresses(before, job[w], job[w].report)
    BY <1>5 DEF TrueBefore
  <2>3. /\ j.ranges = job[w].ranges
        /\ Succeeded(job[w].status.providers) = job[w].ranges
        /\ WasApplied(before, job[w].report, job[w].ranges)
    BY <2>1, <2>2 DEF TrueOfIngresses
  <2>4. WasApplied(calls, j.report, j.ranges)
    <3>1. CASE calls = before /\ outcome = "Error"
      BY <1>3, <2>3, <3>1 DEF WasApplied
    <3>2. CASE /\ calls[Current(w)] = [ranges |-> job[w].ranges, ok |-> outcome = "Success"]
               /\ \A i \in Succeeded(job[w].report) : i # Current(w) => calls[i] = before[i]
      <4> SUFFICES ASSUME NEW i \in Succeeded(j.report)
                   PROVE  \E ok \in BOOLEAN : /\ calls[i] = [ranges |-> j.ranges, ok |-> ok]
                                              /\ ok \/ i \in Failed(j.report)
        BY DEF WasApplied
      <4>1. CASE i = Current(w)
        <5>1. (outcome = "Success") \in BOOLEAN
          OBVIOUS
        <5> QED BY <1>3, <2>3, <3>2, <4>1, <5>1
      <4>2. CASE i # Current(w)
        <5>1. i \in Succeeded(job[w].report) /\ calls[i] = before[i]
          BY <1>3, <3>2, <4>2
        <5> QED BY <1>3, <2>3, <5>1 DEF WasApplied
      <4> QED BY <4>1, <4>2
    <3> QED BY <2>1, <3>1, <3>2 DEF CalledOnce
  <2>5. TrueOfIngresses(calls, j, j.report)
    BY <2>3, <2>4 DEF TrueOfIngresses
  <2> QED BY <1>1, <1>5, <2>5 DEF TrueBefore
<1> QED BY <1>4, <1>5

(* A failed reference: the verdict is not Ready, or the next one follows.  *)
LEMMA RefFailsTrue ==
  ASSUME TypeOK, NEW w \in Workers, AtReference(job[w]), NEW before, NEW calls,
         TrueBefore(before, job[w], job[w].pos), RefFails(w),
         CalledOnce(w, before, calls, "Error")
  PROVE  GoesTo(w, calls)
<1>1. job[w] \in Job /\ job[w].status \in Status /\ job[w].key \in Syncs
  BY JobFields DEF AtReference
<1>2. CASE GivesUp(job[w].key)
  <2> DEFINE reason == IF OnProvider(w) THEN "ProviderError" ELSE "IngressError"
             st == SetReady(job[w].status, "False", reason)
             k == [job[w] EXCEPT !.status = st]
  <2>1. job' = [job EXCEPT ![w] = k] /\ pc' = [pc EXCEPT ![w] = "update"]
    BY <1>2 DEF RefFails, TypeOK
  <2>2. st.ready = "False"
    BY <1>1 DEF SetReady, Status
  <2>3. k.status = st /\ k.key = job[w].key
    BY <1>1 DEF Job
  <2> HIDE DEF k, st
  <2>4. Truthful(calls, "update", k)
    BY <2>2, <2>3 DEF Truthful
  <2> QED BY <2>1, <2>3, <2>4 DEF GoesTo
<1>3. CASE ~GivesUp(job[w].key)
  <2> DEFINE j == Settled(w, "Error")
  <2>1. Proceed(w, j)
    BY <1>3 DEF RefFails
  <2>2. j \in Job /\ j.key = job[w].key /\ j.pos = job[w].pos + 1
    BY SettledOK
  <2>3. /\ j.report = Append(job[w].report, [name |-> Current(w), status |-> "Error"])
        /\ j.status = job[w].status /\ j.ranges = job[w].ranges
    BY <1>1 DEF Settled, Job
  <2> HIDE DEF j
  <2>4. j.key \in Syncs /\ j.pos \in 1 .. Len(Refs(j.key)) + 1
    BY <2>2, RefsType DEF AtReference
  <2>5. TrueBefore(calls, j, j.pos - 1)
    BY <2>2, <2>3, SettledTrue
  <2> QED BY <2>1, <2>2, <2>4, <2>5, ProceedTrue
<1> QED BY <1>2, <1>3

(* The steps of a worker that leave the ingresses alone.                   *)
LEMMA QuietStepsTrue ==
  ASSUME TypeOK, IInvReport, IInvTrue, NEW w \in Workers,
         GetSyncConfig(w) \/ GetConfig(w) \/ Lookup(w) \/ Create(w) \/ UpdateStatus(w)
  PROVE  GoesTo(w, lastCall)
<1>1. Truthful(lastCall, pc[w], job[w]) /\ job[w] \in Job
  BY WorkersJob DEF IInvTrue
<1>2. CASE Finish(w)
  BY <1>2, FinishTrue
<1>3. CASE RefFails(w) /\ pc[w] \in {"config", "create"}
  <2>1. AtReference(job[w]) /\ TrueBefore(lastCall, job[w], job[w].pos)
    BY <1>1, <1>3, WorkersJob DEF Truthful
  <2>2. CalledOnce(w, lastCall, lastCall, "Error")
    BY DEF CalledOnce
  <2> QED BY <1>3, <2>1, <2>2, RefFailsTrue
<1>4. CASE GetSyncConfig(w) /\ ~Finish(w)
  <2> DEFINE s == job[w].key
             k == [job[w] EXCEPT !.status = status[s], !.stale = behind[s]]
  <2>1. job' = [job EXCEPT ![w] = k] /\ pc' = [pc EXCEPT ![w] = "config"]
    BY <1>4 DEF GetSyncConfig, TypeOK
  <2>2. job[w].pos = 1 /\ s \in Syncs
    BY <1>4, WorkersJob DEF GetSyncConfig, IInvReport, Honest
  <2>3. k.key = s /\ k.pos = 1 /\ k.report = job[w].report /\ k.ranges = job[w].ranges
    BY <1>1, <2>2 DEF Job
  <2> HIDE DEF k
  <2>4. 1 <= Len(ProviderRefs[s])
    <3>1. PICK n \in Nat : n = Len(ProviderRefs[s]) /\ n # 0
      BY <2>2, RefsParts
    <3> QED BY <3>1
  <2>5. TrueBefore(lastCall, k, k.pos)
    BY <1>1, <1>4, <2>2, <2>3, <2>4 DEF GetSyncConfig, Truthful, TrueBefore
  <2>6. Truthful(lastCall, "config", k)
    BY <2>5 DEF Truthful
  <2> QED BY <2>1, <2>3, <2>6 DEF GoesTo
<1>5. ASSUME NEW step \in {"lookup", "create", "use"}, pc' = [pc EXCEPT ![w] = step],
             pc[w] \in {"config", "lookup", "create"}, NEW j,
             job' = [job EXCEPT ![w] = j], j.key = job[w].key, j.pos = job[w].pos,
             j.report = job[w].report, j.ranges = job[w].ranges, j.status = job[w].status
      PROVE  GoesTo(w, lastCall)
  <2>1. Truthful(lastCall, step, j)
    BY <1>1, <1>5 DEF Truthful, TrueBefore, TrueOfIngresses
  <2> QED BY <1>5, <2>1 DEF GoesTo
<1>6. CASE GetConfig(w) /\ ~RefFails(w)
  <2> DEFINE k == [job[w] EXCEPT !.spec = config[Current(w)]]
  <2>1. /\ pc[w] = "config" /\ pc' = [pc EXCEPT ![w] = "lookup"]
        /\ job' = [job EXCEPT ![w] = k]
    BY <1>6 DEF GetConfig, TypeOK
  <2>2. /\ k.key = job[w].key /\ k.pos = job[w].pos /\ k.report = job[w].report
        /\ k.ranges = job[w].ranges /\ k.status = job[w].status
    BY <1>1 DEF Job
  <2> HIDE DEF k
  <2> QED BY <1>5, <2>1, <2>2
<1>7. CASE Lookup(w)
  <2> DEFINE k == [job[w] EXCEPT !.plugin = plugins[Current(w)]]
  <2>1. /\ k.key = job[w].key /\ k.pos = job[w].pos /\ k.report = job[w].report
        /\ k.ranges = job[w].ranges /\ k.status = job[w].status
    BY <1>1 DEF Job
  <2>2. \/ pc' = [pc EXCEPT ![w] = "use"] /\ job' = [job EXCEPT ![w] = k]
        \/ pc' = [pc EXCEPT ![w] = "create"] /\ job' = [job EXCEPT ![w] = job[w]]
    BY <1>7 DEF Lookup, TypeOK
  <2>3. pc[w] = "lookup"
    BY <1>7 DEF Lookup
  <2> HIDE DEF k
  <2> QED BY <1>5, <2>1, <2>2, <2>3
<1>8. CASE Create(w) /\ ~RefFails(w)
  <2> DEFINE k == [job[w] EXCEPT !.plugin = job[w].spec]
  <2>1. /\ pc[w] = "create" /\ pc' = [pc EXCEPT ![w] = "use"]
        /\ job' = [job EXCEPT ![w] = k]
    BY <1>8 DEF Create, TypeOK
  <2>2. /\ k.key = job[w].key /\ k.pos = job[w].pos /\ k.report = job[w].report
        /\ k.ranges = job[w].ranges /\ k.status = job[w].status
    BY <1>1 DEF Job
  <2> HIDE DEF k
  <2> QED BY <1>5, <2>1, <2>2
<1>9. (GetConfig(w) => pc[w] = "config") /\ (Create(w) => pc[w] = "create")
      /\ (UpdateStatus(w) => Finish(w))
  BY DEF GetConfig, Create, UpdateStatus
<1> QED BY <1>2, <1>3, <1>4, <1>6, <1>7, <1>8, <1>9

(* The ranges of a provider come with its Success entry.                   *)
LEMMA FetchTrue ==
  ASSUME TypeOK, IInvTrue, NEW w \in Workers, FetchIPRanges(w)
  PROVE  GoesTo(w, lastCall)
<1>1. /\ AtReference(job[w]) /\ job[w] \in Job /\ job[w].key \in Syncs
      /\ TrueBefore(lastCall, job[w], job[w].pos) /\ OnProvider(w) /\ ~OnIngress(w)
  BY WorkersJob DEF FetchIPRanges, IInvTrue, Truthful, AtReference, OnIngress
<1>2. CASE RefFails(w)
  <2>1. CalledOnce(w, lastCall, lastCall, "Error")
    BY DEF CalledOnce
  <2> QED BY <1>1, <1>2, <2>1, RefFailsTrue
<1>3. CASE Proceed(w, [Settled(w, "Success") EXCEPT !.ranges = @ \cup {Current(w)}])
  <2> DEFINE k == Settled(w, "Success")
             j == [k EXCEPT !.ranges = @ \cup {Current(w)}]
  <2>1. k \in Job /\ k.key = job[w].key /\ k.pos = job[w].pos + 1
    BY <1>1, SettledOK
  <2>2. /\ k.report = Append(job[w].report, [name |-> Current(w), status |-> "Success"])
        /\ k.status = job[w].status /\ k.ranges = job[w].ranges
    BY <1>1 DEF Settled, Job
  <2>3. Current(w) \in Providers
    BY <1>1, CurrentType
  <2>4. Proceed(w, j)
    BY <1>3
  <2> HIDE DEF k
  <2>5. /\ j \in Job /\ j.key = job[w].key /\ j.pos = job[w].pos + 1
        /\ j.report = k.report /\ j.status = k.status
        /\ j.ranges = job[w].ranges \cup {Current(w)}
    BY <2>1, <2>2, <2>3 DEF Job
  <2> HIDE DEF j
  <2>6. j.key \in Syncs /\ j.pos \in 1 .. Len(Refs(j.key)) + 1
    BY <1>1, <2>5, RefsType DEF AtReference
  <2>7. CalledOnce(w, lastCall, lastCall, "Success")
    BY <1>1 DEF CalledOnce
  <2>8. TrueBefore(lastCall, j, j.pos - 1)
    BY <1>1, <2>2, <2>5, <2>7, SettledTrue
  <2> QED BY <2>4, <2>5, <2>6, <2>8, ProceedTrue
<1> QED BY <1>2, <1>3 DEF FetchIPRanges

(* The last call on an ingress is the one that its entry tells of.         *)
LEMMA ApplyTrue ==
  ASSUME TypeOK, IInvReport, IInvTrue, NEW w \in Workers, ApplyIPRanges(w)
  PROVE  GoesTo(w, lastCall')
<1>1. /\ AtReference(job[w]) /\ job[w] \in Job /\ job[w].key \in Syncs
      /\ TrueBefore(lastCall, job[w], job[w].pos)
      /\ OnIngress(w) /\ ~OnProvider(w) /\ Current(w) \in Ingresses
  BY WorkersJob, IngressCurrent
     DEF ApplyIPRanges, IInvTrue, Truthful, AtReference, OnIngress
<1>2. Succeeded(job[w].report) \subseteq Ingresses
  BY <1>1, CurrentIs, ReportedAreOwn, IngressesOfType DEF ApplyIPRanges
<1>3. ASSUME NEW ok \in BOOLEAN, Called(w, ok)
      PROVE  /\ lastCall'[Current(w)] = [ranges |-> job[w].ranges, ok |-> ok]
             /\ \A i \in Succeeded(job[w].report) : i # Current(w) => lastCall'[i] = lastCall[i]
  BY <1>1, <1>2, <1>3 DEF Called, TypeOK
<1>4. CASE RefFails(w) /\ Called(w, FALSE)
  <2>1. ("Error" = "Success") = FALSE
    OBVIOUS
  <2>2. CalledOnce(w, lastCall, lastCall', "Error")
    BY <1>1, <1>3, <1>4, <2>1 DEF CalledOnce
  <2> QED BY <1>1, <1>4, <2>2, RefFailsTrue
<1>5. CASE Proceed(w, Settled(w, "Success")) /\ Called(w, TRUE)
  <2> DEFINE j == Settled(w, "Success")
  <2>1. j \in Job /\ j.key = job[w].key /\ j.pos = job[w].pos + 1
    BY <1>1, SettledOK
  <2>2. /\ j.report = Append(job[w].report, [name |-> Current(w), status |-> "Success"])
        /\ j.status = job[w].status /\ j.ranges = job[w].ranges
    BY <1>1 DEF Settled, Job
  <2>3. Proceed(w, j)
    BY <1>5
  <2> HIDE DEF j
  <2>4. j.key \in Syncs /\ j.pos \in 1 .. Len(Refs(j.key)) + 1
    BY <1>1, <2>1, RefsType DEF AtReference
  <2>5. CalledOnce(w, lastCall, lastCall', "Success")
    BY <1>1, <1>3, <1>5 DEF CalledOnce
  <2>6. TrueBefore(lastCall', j, j.pos - 1)
    BY <1>1, <2>1, <2>2, <2>5, SettledTrue
  <2> QED BY <2>1, <2>3, <2>4, <2>6, ProceedTrue
<1> QED BY <1>4, <1>5 DEF ApplyIPRanges

(* Only the ingresses of its SyncConfig are in a worker's reach.           *)
LEMMA ApplyReach ==
  ASSUME TypeOK, NEW w \in Workers, ApplyIPRanges(w)
  PROVE  OnlyIngressesOf(job[w].key)
<1> DEFINE s == job[w].key
<1>1. AtReference(job[w]) /\ s \in Syncs /\ OnIngress(w)
  BY WorkersJob DEF ApplyIPRanges, AtReference
<1>2. Current(w) \in IngressesOf(s)
  <2>1. PICK m \in Nat : m = Len(ProviderRefs[s])
    BY <1>1, RefsParts
  <2>2. PICK i \in Nat : i = Len(IngressRefs[s])
    BY <1>1, RefsParts
  <2>3. /\ job[w].pos \in 1 .. m + i /\ ~(job[w].pos <= m)
        /\ Current(w) = IngressRefs[s][job[w].pos - m]
        /\ DOMAIN IngressRefs[s] = 1 .. i
    BY <1>1, <2>1, <2>2, CurrentIs, RefsParts DEF AtReference
  <2> QED BY <2>3, SecondPart DEF IngressesOf
<1>3. \A i \in Ingresses : i # Current(w) => lastCall'[i] = lastCall[i]
  BY DEF ApplyIPRanges, Called, TypeOK
<1> QED BY <1>2, <1>3 DEF OnlyIngressesOf

(* Any step of a worker.                                                   *)
LEMMA TrueStep ==
  ASSUME TypeOK, IInvReport, IInvTrue, Isolated, NEW w \in Workers, Step(w)
  PROVE  IInvTrue'
<1>1. pc[w] # "idle"
  BY DEF Step, GetSyncConfig, GetProviderConfig, LookupProvider, CreateProvider,
         FetchIPRanges, GetIngressConfig, LookupIngress, CreateIngress, ApplyIPRanges,
         UpdateStatus, GetConfig, Lookup, Create
<1>2. CASE ApplyIPRanges(w)
  BY <1>1, <1>2, ApplyTrue, ApplyReach, TrueMoves
<1>3. ASSUME GoesTo(w, lastCall), UNCHANGED lastCall PROVE IInvTrue'
  <2>1. OnlyIngressesOf(job[w].key) /\ GoesTo(w, lastCall')
    BY <1>3 DEF OnlyIngressesOf
  <2> QED BY <1>1, <2>1, TrueMoves
<1>4. CASE FetchIPRanges(w)
  BY <1>3, <1>4, FetchTrue DEF FetchIPRanges
<1>5. CASE GetSyncConfig(w) \/ GetConfig(w) \/ Lookup(w) \/ Create(w) \/ UpdateStatus(w)
  <2>1. UNCHANGED lastCall
    BY <1>5 DEF GetSyncConfig, GetConfig, Lookup, Create, UpdateStatus
  <2> QED BY <1>3, <1>5, <2>1, QuietStepsTrue
<1> QED BY <1>2, <1>4, <1>5
        DEF Step, GetProviderConfig, LookupProvider, CreateProvider,
            GetIngressConfig, LookupIngress, CreateIngress

(* A key that is handed out is in no other worker's hands.                 *)
LEMMA DequeueTrue ==
  ASSUME TypeOK, IInvTrue, NEW w \in Workers, NEW s \in Syncs, Dequeue(w, s)
  PROVE  IInvTrue'
<1> DEFINE j == [NoJob EXCEPT !.key = s]
<1>1. /\ j.key = s /\ j.pos = 1 /\ j.report = <<>> /\ j.ranges = {}
  BY DEF NoJob
<1>2. job' = [job EXCEPT ![w] = j] /\ pc' = [pc EXCEPT ![w] = "get"] /\ UNCHANGED lastCall
  BY DEF Dequeue
<1> HIDE DEF j
<1>3. /\ pc'[w] = "get" /\ job'[w] = j
      /\ \A v \in Workers : v # w => pc'[v] = pc[v] /\ job'[v] = job[v]
  BY <1>2 DEF TypeOK
<1>4. \A v \in Workers : pc[v] # "idle" => job[v].key # s
  BY DEF Dequeue, InProgress
<1>5. OneWorkerPerKey'
  BY <1>1, <1>3, <1>4 DEF IInvTrue, OneWorkerPerKey
<1>6. Truthful(lastCall, "get", j)
  <2>1. 1 <= Len(ProviderRefs[s])
    <3>1. PICK n \in Nat : n = Len(ProviderRefs[s]) /\ n # 0
      BY RefsParts
    <3> QED BY <3>1
  <2>2. Succeeded(j.report) = j.ranges
    BY <1>1 DEF Succeeded
  <2> QED BY <1>1, <2>1, <2>2 DEF Truthful, TrueBefore
<1>7. ASSUME NEW v \in Workers PROVE Truthful(lastCall', pc'[v], job'[v])
  BY <1>2, <1>3, <1>6 DEF IInvTrue
<1> QED BY <1>5, <1>7 DEF IInvTrue

(* A job that only becomes stale is as truthful as before.                 *)
LEMMA SyncConfigEventTrue ==
  ASSUME TypeOK, IInvTrue, NEW s \in Syncs, SyncConfigEvent(s)
  PROVE  IInvTrue'
<1>1. ASSUME NEW v \in Workers
      PROVE  pc'[v] = pc[v] /\ job'[v].key = job[v].key
             /\ Truthful(lastCall', pc'[v], job'[v])
  <2>1. job[v] \in Job /\ Truthful(lastCall, pc[v], job[v])
    BY WorkersJob DEF IInvTrue
  <2> DEFINE j == [job[v] EXCEPT !.stale = TRUE]
  <2>2. /\ j.key = job[v].key /\ j.pos = job[v].pos /\ j.report = job[v].report
        /\ j.ranges = job[v].ranges /\ j.status = job[v].status
    BY <2>1 DEF Job
  <2>3. pc'[v] = pc[v] /\ (job'[v] = j \/ job'[v] = job[v]) /\ lastCall' = lastCall
    BY DEF SyncConfigEvent
  <2> HIDE DEF j
  <2>4. Truthful(lastCall, pc[v], j)
    BY <2>1, <2>2 DEF Truthful, TrueBefore, TrueOfIngresses
  <2> QED BY <2>1, <2>2, <2>3, <2>4
<1>2. OneWorkerPerKey'
  BY <1>1 DEF IInvTrue, OneWorkerPerKey
<1> QED BY <1>1, <1>2 DEF IInvTrue

(* Any step of the system.                                                 *)
LEMMA TrueNext ==
  ASSUME TypeOK, IInvReport, IInvTrue, Isolated, [Next]_vars
  PROVE  IInvTrue'
<1>1. ASSUME NEW w \in Workers, Step(w) PROVE IInvTrue'
  BY <1>1, TrueStep
<1>2. ASSUME NEW w \in Workers, NEW s \in Syncs, Dequeue(w, s) PROVE IInvTrue'
  BY <1>2, DequeueTrue
<1>3. ASSUME NEW s \in Syncs, SyncConfigEvent(s) PROVE IInvTrue'
  BY <1>3, SyncConfigEventTrue
<1>4. ASSUME UNCHANGED <<lastCall, pc, job>> PROVE IInvTrue'
  BY <1>4 DEF IInvTrue, OneWorkerPerKey
<1>5. ASSUME NEW s \in Syncs, TimerFires(s) \/ DeliverSyncConfig(s) PROVE IInvTrue'
  BY <1>4, <1>5 DEF TimerFires, DeliverSyncConfig
<1>6. ASSUME NEW c \in Configs, ConfigEvent(c) PROVE IInvTrue'
  BY <1>4, <1>6 DEF ConfigEvent
<1>7. CASE Restart
  BY <1>7 DEF Restart, IInvTrue, OneWorkerPerKey, Truthful
<1>8. CASE UNCHANGED vars
  BY <1>4, <1>8 DEF vars
<1> QED BY <1>1, <1>2, <1>3, <1>5, <1>6, <1>7, <1>8 DEF Next

(* The status that a step writes is true of the ingresses.                 *)
LEMMA WritesTrue ==
  ASSUME TypeOK, IInvTrue, [Next]_vars,
         NEW s \in Syncs, status'[s] # status[s], status'[s].ready = "True"
  PROVE  WasApplied(lastCall, status'[s].ingress, Succeeded(status'[s].providers))
<1>1. PICK w \in Workers : UpdateStatus(w)
  <2>1. ASSUME NEW w \in Workers, Step(w) PROVE UpdateStatus(w)
    BY <2>1 DEF Step, GetSyncConfig, GetProviderConfig, LookupProvider, CreateProvider,
           FetchIPRanges, GetIngressConfig, LookupIngress, CreateIngress, ApplyIPRanges,
           GetConfig, Lookup, Create, cluster
  <2>2. ASSUME NEW r \in Syncs, SyncConfigEvent(r) PROVE FALSE
    <3>1. status' = status \/ status' = [status EXCEPT ![r] = NewStatus]
      BY <2>2 DEF SyncConfigEvent
    <3>2. status'[s] = NewStatus
      BY <3>1 DEF TypeOK
    <3> QED BY <3>2 DEF NewStatus
  <2>3. ~UNCHANGED status
    OBVIOUS
  <2> QED BY <2>1, <2>2, <2>3
          DEF Next, Dequeue, TimerFires, DeliverSyncConfig, ConfigEvent, Restart,
              vars, cluster
<1>2. status' = [status EXCEPT ![job[w].key] = job[w].status]
  BY <1>1 DEF UpdateStatus, WriteStatus, cluster
<1>3. status'[s] = job[w].status
  BY <1>2 DEF TypeOK
<1>4. TrueOfIngresses(lastCall, job[w], job[w].status.ingress)
  BY <1>1, <1>3 DEF UpdateStatus, IInvTrue, Truthful
<1> QED BY <1>3, <1>4 DEF TrueOfIngresses, WasApplied

(* One worker, or SyncConfigs that share no ingress: whatever fails, is    *)
(* created, deleted or restarted, and for specs of any length, when        *)
(* Ready=True is written, the last call on each ingress with a Success     *)
(* entry was for exactly what the providers with a Success entry returned, *)
(* and returned nil.                                                       *)
THEOREM ReadyCalls ==
  ASSUME Isolated
  PROVE  Spec => ReadyWasApplied
<1>1. Init => IInvTrue
  BY DEF Init, IInvTrue, OneWorkerPerKey, Truthful
<1>2. TypeOK /\ IInvReport /\ IInvTrue /\ [Next]_vars => IInvTrue'
  BY TrueNext
<1> DEFINE A == \A s \in Syncs : status'[s] # status[s] /\ status'[s].ready = "True" =>
                  WasApplied(lastCall, status'[s].ingress, Succeeded(status'[s].providers))
<1>3. TypeOK /\ IInvTrue /\ [Next]_vars => [A]_vars
  BY WritesTrue
<1> HIDE DEF A
<1>4. Spec => [][A]_vars
  BY <1>1, <1>2, <1>3, TypeCorrect, ReportInvariant, PTL DEF Spec
<1>5. [][A]_vars => ReadyWasApplied
  BY DEF A, ReadyWasApplied
<1> QED BY <1>4, <1>5

=============================================================================
