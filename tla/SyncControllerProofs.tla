------------------------ MODULE SyncControllerProofs ------------------------
(***************************************************************************)
(* Type correctness of the reconciler, that it forgets no SyncConfig and   *)
(* that its workers do not make plugins without bound.                     *)
(***************************************************************************)
EXTENDS SyncController, SequenceTheorems, FiniteSetTheorems, TLAPS

(* Arithmetic of positions in a concatenation.                             *)
LEMMA SumOfLengths ==
  ASSUME NEW m \in Nat, NEW n \in Nat, n # 0
  PROVE  m + n \in Nat /\ m < m + n /\ \A k \in 1 .. m : k \in 1 .. m + n /\ k <= m
OBVIOUS

(* The references of a SyncConfig: the providers, then the ingresses.      *)
LEMMA RefsType ==
  ASSUME NEW s \in Syncs
  PROVE  /\ Len(ProviderRefs[s]) \in Nat
         /\ Len(ProviderRefs[s]) # 0
         /\ Len(Refs(s)) \in Nat
         /\ Len(ProviderRefs[s]) < Len(Refs(s))
         /\ \A k \in 1 .. Len(Refs(s)) : Refs(s)[k] \in Configs
         /\ \A k \in 1 .. Len(ProviderRefs[s]) : Refs(s)[k] \in Providers
<1>1. PICK p \in Seq(Configs) : p = ProviderRefs[s] /\ p # <<>> /\ p \in Seq(Providers)
  <2>1. Seq(Providers) \subseteq Seq(Configs)
    BY SeqMonotonic DEF Configs
  <2> QED BY <2>1, SpecAssumption
<1>2. PICK i \in Seq(Configs) : i = IngressRefs[s] /\ i # <<>>
  <2>1. Seq(Ingresses) \subseteq Seq(Configs)
    BY SeqMonotonic DEF Configs
  <2> QED BY <2>1, SpecAssumption
<1>3. PICK m \in Nat : m = Len(p) /\ m # 0
  BY EmptySeq, <1>1
<1>4. PICK n \in Nat : n = Len(i) /\ n # 0
  BY EmptySeq, <1>2
<1>5. /\ Refs(s) \in Seq(Configs)
      /\ Len(Refs(s)) = m + n
      /\ \A k \in 1 .. m + n : Refs(s)[k] = IF k <= m THEN p[k] ELSE i[k - m]
  BY <1>1, <1>2, <1>3, <1>4, ConcatProperties DEF Refs
<1>6. \A k \in 1 .. Len(Refs(s)) : Refs(s)[k] \in Configs
  BY <1>5, ElementOfSeq
<1>7. /\ m + n \in Nat /\ m < m + n
      /\ \A k \in 1 .. m : k \in 1 .. m + n /\ k <= m
  BY SumOfLengths, <1>3, <1>4
<1>8. ASSUME NEW k \in 1 .. m PROVE Refs(s)[k] \in Providers
  <2>1. p[k] \in Providers
    BY <1>1, <1>3, ElementOfSeq
  <2> QED BY <1>5, <1>7, <2>1
<1> QED BY <1>1, <1>3, <1>5, <1>6, <1>7, <1>8

(* What TypeOK says of a worker survives when one worker moves to a step   *)
(* and a job that fit together.                                            *)
LEMMA WorkerMoves ==
  ASSUME TypeOK, NEW w \in Workers, NEW step \in Steps, NEW j, JobOK(step, j),
         pc' = [pc EXCEPT ![w] = step], job' = [job EXCEPT ![w] = j]
  PROVE  /\ pc' \in [Workers -> Steps]
         /\ job' \in [Workers -> Job]
         /\ \A v \in Workers : JobOK(pc'[v], job'[v])
<1>1. j \in Job
  BY DEF JobOK
<1>2. ASSUME NEW v \in Workers PROVE JobOK(pc'[v], job'[v])
  <2>1. CASE v = w
    BY <2>1 DEF TypeOK
  <2>2. CASE v # w
    BY <2>2 DEF TypeOK
  <2> QED BY <2>1, <2>2
<1> QED BY <1>1, <1>2 DEF TypeOK

(* The types of the local variables.                                       *)
LEMMA JobFields ==
  ASSUME NEW j \in Job
  PROVE  /\ j.key \in Syncs \cup {Absent} /\ j.pos \in Nat
         /\ j.ranges \in SUBSET Providers /\ j.report \in Seq(Entry)
         /\ j.status \in Status /\ j.stale \in BOOLEAN
         /\ j.spec \in Contents \cup {Absent} /\ j.plugin \in Contents \cup {Absent}
BY DEF Job

(* An idle worker has no job.                                              *)
LEMMA NoJobOK == JobOK("idle", NoJob) /\ NoJob \in Job
<1>1. <<>> \in Seq(Entry)
  OBVIOUS
<1> QED BY <1>1 DEF JobOK, NoJob, Job, NewStatus, Status

(* A worker that stops, by an error or not, has no job.                    *)
LEMMA FinishOK ==
  ASSUME TypeOK, NEW w \in Workers, Finish(w)
  PROVE  /\ pc' \in [Workers -> Steps]
         /\ job' \in [Workers -> Job]
         /\ \A v \in Workers : JobOK(pc'[v], job'[v])
<1>1. "idle" \in Steps
  BY DEF Steps
<1> QED BY <1>1, NoJobOK, WorkerMoves DEF Finish

(* SetReady keeps a status a status.                                       *)
LEMMA SetReadyType ==
  ASSUME NEW st \in Status, NEW ready \in {"None", "True", "False"},
         NEW reason \in {"None", "SyncSuccessful", "ProviderError", "IngressError"}
  PROVE  SetReady(st, ready, reason) \in Status
BY DEF SetReady, Status

(* A worker at a reference.                                                *)
AtReference(j) == j \in Job /\ j.key \in Syncs /\ j.pos \in 1 .. Len(Refs(j.key))

(* The reference a worker is at names a config.                            *)
LEMMA CurrentType ==
  ASSUME NEW w \in Workers, AtReference(job[w])
  PROVE  /\ Current(w) \in Configs
         /\ OnProvider(w) => Current(w) \in Providers
<1>1. job[w].pos \in Nat /\ job[w].pos >= 1
  BY DEF AtReference
<1>2. Current(w) \in Configs
  BY RefsType DEF AtReference, Current
<1>3. ASSUME OnProvider(w) PROVE Current(w) \in Providers
  <2>1. job[w].pos \in 1 .. Len(ProviderRefs[job[w].key])
    BY <1>1, <1>3, RefsType DEF OnProvider, AtReference
  <2> QED BY <2>1, RefsType DEF Current, AtReference
<1> QED BY <1>2, <1>3

(* Arithmetic of positions in the second part of a concatenation.          *)
LEMMA SecondPart ==
  ASSUME NEW m \in Nat, NEW n \in Nat, NEW k \in 1 .. m + n, ~(k <= m)
  PROVE  k - m \in 1 .. n
OBVIOUS

(* After the providers come the ingresses.                                 *)
LEMMA IngressRefsType ==
  ASSUME NEW s \in Syncs, NEW k \in 1 .. Len(Refs(s)), ~(k <= Len(ProviderRefs[s]))
  PROVE  Refs(s)[k] \in Ingresses
<1>1. PICK p \in Seq(Configs) : p = ProviderRefs[s]
  <2>1. Seq(Providers) \subseteq Seq(Configs)
    BY SeqMonotonic DEF Configs
  <2> QED BY <2>1, SpecAssumption
<1>2. PICK i \in Seq(Configs) : i = IngressRefs[s] /\ i \in Seq(Ingresses)
  <2>1. Seq(Ingresses) \subseteq Seq(Configs)
    BY SeqMonotonic DEF Configs
  <2> QED BY <2>1, SpecAssumption
<1>3. PICK m \in Nat : m = Len(p)
  BY LenProperties
<1>4. PICK n \in Nat : n = Len(i)
  BY LenProperties
<1>5. /\ Refs(s) \in Seq(Configs)
      /\ Len(Refs(s)) = m + n
      /\ \A q \in 1 .. m + n : Refs(s)[q] = IF q <= m THEN p[q] ELSE i[q - m]
  BY <1>1, <1>2, <1>3, <1>4, ConcatProperties DEF Refs
<1>6. k \in 1 .. m + n /\ ~(k <= m)
  BY <1>1, <1>3, <1>5
<1>7. k - m \in 1 .. n
  BY <1>6, SecondPart
<1>8. i[k - m] \in Ingresses
  BY <1>2, <1>4, <1>7, ElementOfSeq
<1> QED BY <1>5, <1>6, <1>8

(* The reference an ingress step is at names an ingress.                   *)
LEMMA IngressCurrent ==
  ASSUME NEW w \in Workers, AtReference(job[w]), OnIngress(w)
  PROVE  Current(w) \in Ingresses
BY IngressRefsType, RefsType DEF AtReference, OnIngress, OnProvider, Current

(* The job after a reference is settled, before Proceed looks at it.       *)
LEMMA SettledOK ==
  ASSUME NEW w \in Workers, AtReference(job[w]), NEW outcome \in {"Success", "Error"}
  PROVE  /\ Settled(w, outcome) \in Job
         /\ Settled(w, outcome).key = job[w].key
         /\ Settled(w, outcome).pos = job[w].pos + 1
<1> DEFINE e == [name |-> Current(w), status |-> outcome]
<1>1. e \in Entry
  BY CurrentType DEF Entry
<1>2. job[w].report \in Seq(Entry) /\ job[w].pos + 1 \in Nat
  BY JobFields DEF AtReference
<1>3. Append(job[w].report, e) \in Seq(Entry)
  BY <1>1, <1>2, AppendProperties
<1> QED BY <1>2, <1>3 DEF Settled, AtReference, Job

(* After a settled reference the worker is at the next one, or at the end  *)
(* of the list with a verdict to write.                                    *)
LEMMA ProceedOK ==
  ASSUME TypeOK, NEW w \in Workers, NEW j \in Job, j.key \in Syncs,
         j.pos \in 1 .. Len(Refs(j.key)) + 1, Proceed(w, j)
  PROVE  /\ pc' \in [Workers -> Steps]
         /\ job' \in [Workers -> Job]
         /\ \A v \in Workers : JobOK(pc'[v], job'[v])
<1> DEFINE verdict == SetReady([j.status EXCEPT !.ingress = j.report],
                               "True", "SyncSuccessful")
           providersDone == j.pos = Len(ProviderRefs[j.key]) + 1
           allDone == j.pos = Len(Refs(j.key)) + 1
<1>1. /\ Len(ProviderRefs[j.key]) \in Nat /\ Len(Refs(j.key)) \in Nat
      /\ Len(ProviderRefs[j.key]) < Len(Refs(j.key))
  BY RefsType
<1>2. /\ providersDone => ~allDone
      /\ ~allDone => j.pos \in 1 .. Len(Refs(j.key))
  BY <1>1
<1>3. verdict \in Status
  <2>1. [j.status EXCEPT !.ingress = j.report] \in Status
    BY JobFields DEF Status
  <2> QED BY <2>1, SetReadyType
<1>4. CASE providersDone
  <2> DEFINE k == [j EXCEPT !.status.providers = j.report, !.report = <<>>]
  <2>1. job' = [job EXCEPT ![w] = k] /\ pc' = [pc EXCEPT ![w] = "config"]
    BY <1>2, <1>4 DEF Proceed
  <2>2. k \in Job
    <3>1. <<>> \in Seq(Entry)
      OBVIOUS
    <3>2. [j.status EXCEPT !.providers = j.report] \in Status
      BY JobFields DEF Status
    <3> QED BY <3>1, <3>2 DEF Job
  <2>3. k.key = j.key /\ k.pos = j.pos
    BY DEF Job
  <2>4. JobOK("config", k)
    BY <1>2, <1>4, <2>2, <2>3 DEF JobOK
  <2> QED BY <2>1, <2>4, WorkerMoves DEF Steps
<1>5. CASE allDone
  <2> DEFINE k == [j EXCEPT !.status = verdict]
  <2>1. job' = [job EXCEPT ![w] = k] /\ pc' = [pc EXCEPT ![w] = "update"]
    BY <1>2, <1>5 DEF Proceed
  <2>2. k \in Job /\ k.key = j.key
    BY <1>3 DEF Job
  <2>3. JobOK("update", k)
    BY <2>2 DEF JobOK
  <2> QED BY <2>1, <2>3, WorkerMoves DEF Steps
<1>6. CASE ~providersDone /\ ~allDone
  <2>1. job' = [job EXCEPT ![w] = j] /\ pc' = [pc EXCEPT ![w] = "config"]
    BY <1>6 DEF Proceed
  <2>2. JobOK("config", j)
    BY <1>2, <1>6 DEF JobOK
  <2> QED BY <2>1, <2>2, WorkerMoves DEF Steps
<1> QED BY <1>4, <1>5, <1>6

(* The same for a reference that fails.                                    *)
LEMMA RefFailsOK ==
  ASSUME TypeOK, NEW w \in Workers, AtReference(job[w]), RefFails(w)
  PROVE  /\ pc' \in [Workers -> Steps]
         /\ job' \in [Workers -> Job]
         /\ \A v \in Workers : JobOK(pc'[v], job'[v])
<1>1. CASE GivesUp(job[w].key)
  <2>1. PICK reason \in {"ProviderError", "IngressError"} :
          /\ job' = [job EXCEPT ![w].status = SetReady(@, "False", reason)]
          /\ pc' = [pc EXCEPT ![w] = "update"]
    BY <1>1 DEF RefFails
  <2> DEFINE k == [job[w] EXCEPT !.status = SetReady(@, "False", reason)]
  <2>2. k \in Job /\ k.key = job[w].key
    BY SetReadyType, JobFields DEF Job, AtReference
  <2>3. job' = [job EXCEPT ![w] = k]
    BY <2>1 DEF TypeOK
  <2>4. JobOK("update", k)
    BY <2>2 DEF JobOK, AtReference
  <2> QED BY <2>1, <2>3, <2>4, WorkerMoves DEF Steps
<1>2. CASE ~GivesUp(job[w].key)
  <2> DEFINE j == Settled(w, "Error")
  <2>1. Proceed(w, j)
    BY <1>2 DEF RefFails
  <2>2. j \in Job /\ j.key = job[w].key /\ j.pos = job[w].pos + 1
    BY SettledOK
  <2>3. j.key \in Syncs /\ j.pos \in 1 .. Len(Refs(j.key)) + 1
    BY <2>2, RefsType DEF AtReference
  <2> QED BY <2>1, <2>2, <2>3, ProceedOK
<1> QED BY <1>1, <1>2

(* What TypeOK says of a worker.                                           *)
LEMMA WorkersJob ==
  ASSUME TypeOK, NEW w \in Workers
  PROVE  /\ JobOK(pc[w], job[w]) /\ job[w] \in Job
         /\ pc[w] # "idle" => job[w].key \in Syncs
         /\ pc[w] \notin {"idle", "update"} => AtReference(job[w])
BY DEF TypeOK, JobOK, AtReference

(* What Reconcile returns changes the queue within its type.               *)
LEMMA ReturnOK ==
  ASSUME TypeOK, NEW w \in Workers, pc[w] # "idle",
         ReturnError(w) \/ ReturnRequeueAfter(w) \/ ReturnNil(w)
  PROVE  delayed' \subseteq Syncs
<1>1. job[w].key \in Syncs
  BY WorkersJob
<1>2. delayed \subseteq Syncs
  BY DEF TypeOK
<1>3. CASE ReturnError(w)
  BY <1>1, <1>2, <1>3 DEF ReturnError
<1>4. CASE ReturnRequeueAfter(w)
  BY <1>1, <1>2, <1>4 DEF ReturnRequeueAfter
<1>5. CASE ReturnNil(w)
  BY <1>1, <1>2, <1>5 DEF ReturnNil
<1> QED BY <1>3, <1>4, <1>5

-----------------------------------------------------------------------------
(* Each step of a worker keeps the types.                                  *)

(* The Get of the SyncConfig.                                              *)
LEMMA GetSyncConfigOK ==
  ASSUME TypeOK, NEW w \in Workers, GetSyncConfig(w)
  PROVE  TypeOK'
<1> DEFINE s == job[w].key
<1>1. s \in Syncs /\ job[w] \in Job /\ status[s] \in Status /\ behind[s] \in BOOLEAN
  BY WorkersJob DEF GetSyncConfig, TypeOK
<1>2. CASE Finish(w) /\ (ReturnNil(w) \/ ReturnError(w))
  BY <1>2, FinishOK, ReturnOK DEF GetSyncConfig, TypeOK, cluster, caches
<1>3. CASE /\ job' = [job EXCEPT ![w].status = status[s], ![w].stale = behind[s]]
           /\ pc' = [pc EXCEPT ![w] = "config"]
           /\ UNCHANGED delayed
  <2> DEFINE k == [job[w] EXCEPT !.status = status[s], !.stale = behind[s]]
  <2>1. job' = [job EXCEPT ![w] = k]
    BY <1>3 DEF TypeOK
  <2>2. k \in Job /\ k.key = s /\ k.pos = job[w].pos
    BY <1>1 DEF Job
  <2>3. JobOK("config", k)
    BY <2>2, WorkersJob DEF JobOK, AtReference, GetSyncConfig
  <2>4. /\ pc' \in [Workers -> Steps]
        /\ job' \in [Workers -> Job]
        /\ \A v \in Workers : JobOK(pc'[v], job'[v])
    BY <1>3, <2>1, <2>3, WorkerMoves DEF Steps
  <2> QED BY <1>3, <2>4 DEF GetSyncConfig, TypeOK, cluster, caches
<1> QED BY <1>2, <1>3 DEF GetSyncConfig

(* The Get of the referenced object.                                       *)
LEMMA GetConfigOK ==
  ASSUME TypeOK, NEW w \in Workers, GetConfig(w)
  PROVE  TypeOK'
<1>1. AtReference(job[w])
  BY WorkersJob DEF GetConfig
<1>2. CASE RefFails(w)
  BY <1>1, <1>2, RefFailsOK DEF GetConfig, TypeOK, cluster, caches, queue
<1>3. CASE /\ config[Current(w)] # Absent
           /\ job' = [job EXCEPT ![w].spec = config[Current(w)]]
           /\ pc' = [pc EXCEPT ![w] = "lookup"]
  <2> DEFINE k == [job[w] EXCEPT !.spec = config[Current(w)]]
  <2>1. config[Current(w)] \in Contents
    BY <1>1, <1>3, CurrentType DEF TypeOK
  <2>2. k \in Job /\ k.key = job[w].key /\ k.pos = job[w].pos /\ k.spec \in Contents
    BY <1>1, <2>1 DEF Job, AtReference
  <2>3. JobOK("lookup", k)
    BY <1>1, <2>2 DEF JobOK, AtReference
  <2>4. job' = [job EXCEPT ![w] = k]
    BY <1>3 DEF TypeOK
  <2>5. /\ pc' \in [Workers -> Steps]
        /\ job' \in [Workers -> Job]
        /\ \A v \in Workers : JobOK(pc'[v], job'[v])
    BY <1>3, <2>3, <2>4, WorkerMoves DEF Steps
  <2> QED BY <2>5 DEF GetConfig, TypeOK, cluster, caches, queue
<1> QED BY <1>2, <1>3 DEF GetConfig

(* A plugin from the cache is not nil.                                     *)
LEMMA LookupOK ==
  ASSUME TypeOK, NEW w \in Workers, Lookup(w)
  PROVE  TypeOK'
<1>1. AtReference(job[w]) /\ JobOK("lookup", job[w])
  BY WorkersJob DEF Lookup
<1>2. CASE plugins[Current(w)] # Absent
  <2> DEFINE k == [job[w] EXCEPT !.plugin = plugins[Current(w)]]
  <2>1. plugins[Current(w)] \in Contents
    BY <1>1, <1>2, CurrentType DEF TypeOK
  <2>2. k \in Job /\ k.key = job[w].key /\ k.pos = job[w].pos /\ k.plugin \in Contents
    BY <1>1, <2>1 DEF Job, AtReference
  <2>3. JobOK("use", k)
    BY <1>1, <2>2 DEF JobOK, AtReference
  <2>4. job' = [job EXCEPT ![w] = k] /\ pc' = [pc EXCEPT ![w] = "use"]
    BY <1>2 DEF TypeOK, Lookup
  <2>5. /\ pc' \in [Workers -> Steps]
        /\ job' \in [Workers -> Job]
        /\ \A v \in Workers : JobOK(pc'[v], job'[v])
    BY <2>3, <2>4, WorkerMoves DEF Steps
  <2> QED BY <2>5 DEF Lookup, TypeOK, cluster, caches, queue
<1>3. CASE plugins[Current(w)] = Absent
  <2>1. JobOK("create", job[w])
    BY <1>1 DEF JobOK
  <2>2. job' = [job EXCEPT ![w] = job[w]] /\ pc' = [pc EXCEPT ![w] = "create"]
    BY <1>3 DEF TypeOK, Lookup
  <2>3. /\ pc' \in [Workers -> Steps]
        /\ job' \in [Workers -> Job]
        /\ \A v \in Workers : JobOK(pc'[v], job'[v])
    BY <2>1, <2>2, WorkerMoves DEF Steps
  <2> QED BY <2>3 DEF Lookup, TypeOK, cluster, caches, queue
<1> QED BY <1>2, <1>3

(* A plugin that was created is not nil and is stored as it is used.       *)
LEMMA CreateOK ==
  ASSUME TypeOK, NEW w \in Workers, Create(w)
  PROVE  TypeOK'
<1> DEFINE c == Current(w)
<1>1. AtReference(job[w]) /\ JobOK("create", job[w]) /\ c \in Configs
  BY WorkersJob, CurrentType DEF Create
<1>2. CASE RefFails(w) /\ UNCHANGED caches
  BY <1>1, <1>2, RefFailsOK DEF Create, TypeOK, cluster, caches, queue
<1>3. CASE /\ Store(c, job[w].spec)
           /\ instances' = [instances EXCEPT ![c] = @ + 1]
           /\ job' = [job EXCEPT ![w].plugin = job[w].spec]
           /\ pc' = [pc EXCEPT ![w] = "use"]
  <2> DEFINE k == [job[w] EXCEPT !.plugin = job[w].spec]
  <2>1. job[w].spec \in Contents
    BY <1>1 DEF JobOK
  <2>2. k \in Job /\ k.key = job[w].key /\ k.pos = job[w].pos /\ k.plugin \in Contents
    BY <1>1, <2>1 DEF Job, AtReference
  <2>3. JobOK("use", k)
    BY <1>1, <2>2 DEF JobOK, AtReference
  <2>4. job' = [job EXCEPT ![w] = k]
    BY <1>3 DEF TypeOK
  <2>5. /\ pc' \in [Workers -> Steps]
        /\ job' \in [Workers -> Job]
        /\ \A v \in Workers : JobOK(pc'[v], job'[v])
    BY <1>3, <2>3, <2>4, WorkerMoves DEF Steps
  <2>6. /\ plugins' \in [Configs -> Contents \cup {Absent}]
        /\ instances' \in [Configs -> Nat]
    BY <1>1, <1>3, <2>1 DEF Store, TypeOK
  <2> QED BY <2>5, <2>6 DEF Create, TypeOK, cluster, queue
<1> QED BY <1>2, <1>3 DEF Create


(* What is collected are ranges of providers.                              *)
LEMMA FetchOK ==
  ASSUME TypeOK, NEW w \in Workers, FetchIPRanges(w)
  PROVE  TypeOK'
<1>1. AtReference(job[w])
  BY WorkersJob DEF FetchIPRanges
<1>2. CASE RefFails(w)
  BY <1>1, <1>2, RefFailsOK DEF FetchIPRanges, TypeOK, cluster, caches, queue
<1>3. CASE Proceed(w, [Settled(w, "Success") EXCEPT !.ranges = @ \cup {Current(w)}])
  <2> DEFINE k == Settled(w, "Success")
             j == [k EXCEPT !.ranges = @ \cup {Current(w)}]
  <2>1. k \in Job /\ k.key = job[w].key /\ k.pos = job[w].pos + 1
    BY <1>1, SettledOK
  <2>2. Current(w) \in Providers
    BY <1>1, CurrentType DEF FetchIPRanges
  <2> HIDE DEF k
  <2>3. j \in Job /\ j.key = job[w].key /\ j.pos = job[w].pos + 1
    BY <2>1, <2>2 DEF Job
  <2>4. j.key \in Syncs /\ j.pos \in 1 .. Len(Refs(j.key)) + 1
    BY <1>1, <2>3, RefsType DEF AtReference
  <2>5. Proceed(w, j)
    BY <1>3 DEF k
  <2> HIDE DEF j
  <2>6. /\ pc' \in [Workers -> Steps]
        /\ job' \in [Workers -> Job]
        /\ \A v \in Workers : JobOK(pc'[v], job'[v])
    BY <2>3, <2>4, <2>5, ProceedOK
  <2> QED BY <2>6 DEF FetchIPRanges, TypeOK, cluster, caches, queue
<1> QED BY <1>2, <1>3 DEF FetchIPRanges

(* A call is for ranges of providers.                                      *)
LEMMA ApplyOK ==
  ASSUME TypeOK, NEW w \in Workers, ApplyIPRanges(w)
  PROVE  TypeOK'
<1>1. AtReference(job[w])
  BY WorkersJob DEF ApplyIPRanges
<1>2. lastCall' \in [Ingresses -> Call \cup {Absent}]
  <2>1. job[w].ranges \in SUBSET Providers
    BY <1>1, JobFields DEF AtReference
  <2>2. \A ok \in BOOLEAN : [ranges |-> job[w].ranges, ok |-> ok] \in Call
    BY <2>1 DEF Call
  <2>3. \E ok \in BOOLEAN : Called(w, ok)
    BY DEF ApplyIPRanges
  <2> QED BY <2>2, <2>3 DEF Called, TypeOK
<1>3. CASE RefFails(w)
  BY <1>1, <1>2, <1>3, RefFailsOK DEF ApplyIPRanges, TypeOK, cluster, caches, queue
<1>4. CASE Proceed(w, Settled(w, "Success"))
  <2> DEFINE j == Settled(w, "Success")
  <2>1. j \in Job /\ j.key = job[w].key /\ j.pos = job[w].pos + 1
    BY <1>1, SettledOK
  <2>2. j.key \in Syncs /\ j.pos \in 1 .. Len(Refs(j.key)) + 1
    BY <1>1, <2>1, RefsType DEF AtReference
  <2>3. /\ pc' \in [Workers -> Steps]
        /\ job' \in [Workers -> Job]
        /\ \A v \in Workers : JobOK(pc'[v], job'[v])
    BY <1>4, <2>1, <2>2, ProceedOK
  <2> QED BY <1>2, <2>3 DEF ApplyIPRanges, TypeOK, cluster, caches, queue
<1> QED BY <1>3, <1>4 DEF ApplyIPRanges

(* The status written is one, and the worker is done.                      *)
LEMMA UpdateStatusOK ==
  ASSUME TypeOK, NEW w \in Workers, UpdateStatus(w)
  PROVE  TypeOK'
<1>1. pc[w] # "idle" /\ job[w].key \in Syncs /\ job[w].status \in Status
  BY WorkersJob, JobFields DEF UpdateStatus
<1>2. /\ pc' \in [Workers -> Steps]
      /\ job' \in [Workers -> Job]
      /\ \A v \in Workers : JobOK(pc'[v], job'[v])
  BY FinishOK DEF UpdateStatus
<1>3. ReturnError(w) \/ ReturnRequeueAfter(w)
  BY DEF UpdateStatus
<1>4. delayed' \subseteq Syncs
  BY <1>1, <1>3, ReturnOK
<1>5. WriteStatus(w) \/ UNCHANGED cluster
  BY DEF UpdateStatus
<1>6. /\ exists' \in [Syncs -> BOOLEAN] /\ status' \in [Syncs -> Status]
      /\ known' \in [Syncs -> BOOLEAN] /\ behind' \in [Syncs -> BOOLEAN]
  <2>1. CASE WriteStatus(w)
    BY <1>1, <2>1 DEF WriteStatus, TypeOK
  <2>2. CASE UNCHANGED cluster
    BY <2>2 DEF cluster, TypeOK
  <2> QED BY <1>5, <2>1, <2>2
<1>7. UNCHANGED <<config, caches, dirty, lastCall>>
  BY DEF UpdateStatus
<1> QED BY <1>2, <1>4, <1>6, <1>7 DEF TypeOK, caches

(* A worker starts at the first reference.                                 *)
LEMMA DequeueOK ==
  ASSUME TypeOK, NEW w \in Workers, NEW s \in Syncs, Dequeue(w, s)
  PROVE  TypeOK'
<1> DEFINE j == [NoJob EXCEPT !.key = s]
<1>1. j \in Job /\ j.key = s /\ j.pos = 1
  <2>1. NoJob \in Job /\ NoJob.pos = 1
    BY NoJobOK DEF NoJob
  <2> QED BY <2>1 DEF Job
<1>2. 1 \in 1 .. Len(Refs(s))
  BY RefsType
<1>3. JobOK("get", j)
  BY <1>1, <1>2 DEF JobOK
<1>4. job' = [job EXCEPT ![w] = j] /\ pc' = [pc EXCEPT ![w] = "get"]
  BY DEF Dequeue
<1> HIDE DEF j
<1>5. /\ pc' \in [Workers -> Steps]
      /\ job' \in [Workers -> Job]
      /\ \A v \in Workers : JobOK(pc'[v], job'[v])
  BY <1>3, <1>4, WorkerMoves DEF Steps
<1> QED BY <1>5 DEF Dequeue, TypeOK, cluster, caches

(* What the environment does keeps the types as well.                      *)
LEMMA SyncConfigEventOK ==
  ASSUME TypeOK, NEW s \in Syncs, SyncConfigEvent(s)
  PROVE  TypeOK'
<1>1. NewStatus \in Status
  <2>1. <<>> \in Seq(Entry)
    OBVIOUS
  <2> QED BY <2>1 DEF NewStatus, Status
<1>2. ASSUME NEW w \in Workers
      PROVE  job'[w] \in Job /\ JobOK(pc[w], job'[w])
  <2>1. job[w] \in Job /\ JobOK(pc[w], job[w])
    BY WorkersJob
  <2> DEFINE j == [job[w] EXCEPT !.stale = TRUE]
  <2>2. /\ j \in Job /\ j.key = job[w].key /\ j.pos = job[w].pos
        /\ j.spec = job[w].spec /\ j.plugin = job[w].plugin
    BY <2>1 DEF Job
  <2>3. job'[w] = j \/ job'[w] = job[w]
    BY DEF SyncConfigEvent
  <2> HIDE DEF j
  <2> QED BY <2>1, <2>2, <2>3 DEF JobOK
<1>3. job' \in [Workers -> Job] /\ \A w \in Workers : JobOK(pc[w], job'[w])
  BY <1>2 DEF SyncConfigEvent
<1>4. exists' \in [Syncs -> BOOLEAN] /\ status' \in [Syncs -> Status]
  BY <1>1 DEF SyncConfigEvent, TypeOK
<1>5. behind' \in [Syncs -> BOOLEAN]
  BY DEF SyncConfigEvent, TypeOK
<1> QED BY <1>3, <1>4, <1>5 DEF SyncConfigEvent, TypeOK, caches, queue

(* A config event enqueues SyncConfigs.                                    *)
LEMMA ConfigEventOK ==
  ASSUME TypeOK, NEW c \in Configs, ConfigEvent(c)
  PROVE  TypeOK'
<1>1. config' \in [Configs -> Contents \cup {Absent}]
  BY DEF ConfigEvent, TypeOK
<1>2. dirty' \subseteq Syncs
  BY DEF ConfigEvent, TypeOK, Enqueue, findSyncConfigsForProvider,
         findSyncConfigsForIngress
<1> QED BY <1>1, <1>2 DEF ConfigEvent, TypeOK, cluster, caches

(* A restart brings everything but the cluster back to its initial value.  *)
LEMMA RestartOK ==
  ASSUME TypeOK, Restart
  PROVE  TypeOK'
<1>1. /\ pc' \in [Workers -> Steps]
      /\ job' \in [Workers -> Job]
      /\ \A w \in Workers : JobOK(pc'[w], job'[w])
  BY NoJobOK DEF Restart, Steps
<1>2. ASSUME NEW i \in Ingresses PROVE lastCall'[i] \in Call \cup {Absent}
  <2>1. \A w \in Workers : job[w].ranges \in SUBSET Providers
    BY DEF TypeOK, Job
  <2>2. \/ lastCall'[i] = lastCall[i]
        \/ \E w \in Workers : lastCall'[i] = [ranges |-> job[w].ranges, ok |-> FALSE]
    BY DEF Restart, Calling
  <2>3. lastCall[i] \in Call \cup {Absent}
    BY DEF TypeOK
  <2>4. ASSUME NEW w \in Workers PROVE [ranges |-> job[w].ranges, ok |-> FALSE] \in Call
    BY <2>1 DEF Call
  <2> QED BY <2>2, <2>3, <2>4
<1>3. lastCall' \in [Ingresses -> Call \cup {Absent}]
  <2>1. lastCall' = [i \in Ingresses |-> lastCall'[i]]
    BY DEF Restart
  <2> QED BY <1>2, <2>1
<1> QED BY <1>1, <1>3 DEF Restart, TypeOK

(* Any step of a worker.                                                   *)
LEMMA StepOK ==
  ASSUME TypeOK, NEW w \in Workers, Step(w)
  PROVE  TypeOK'
BY GetSyncConfigOK, GetConfigOK, LookupOK, CreateOK, FetchOK, ApplyOK, UpdateStatusOK
   DEF Step, GetProviderConfig, LookupProvider, CreateProvider,
       GetIngressConfig, LookupIngress, CreateIngress

(* The types at the start.                                                 *)
LEMMA InitOK ==
  ASSUME Init
  PROVE  TypeOK
<1>1. NewStatus \in Status
  <2>1. <<>> \in Seq(Entry)
    OBVIOUS
  <2> QED BY <2>1 DEF NewStatus, Status
<1>2. \A w \in Workers : JobOK(pc[w], job[w])
  BY NoJobOK DEF Init
<1> QED BY <1>1, <1>2, NoJobOK DEF Init, TypeOK, Steps

(* Any step of the system.                                                 *)
LEMMA NextOK ==
  ASSUME TypeOK, [Next]_vars
  PROVE  TypeOK'
<1>1. ASSUME NEW w \in Workers, Step(w) PROVE TypeOK'
  BY <1>1, StepOK
<1>2. ASSUME NEW w \in Workers, NEW s \in Syncs, Dequeue(w, s) PROVE TypeOK'
  BY <1>2, DequeueOK
<1>3. ASSUME NEW s \in Syncs, TimerFires(s) PROVE TypeOK'
  BY <1>3 DEF TimerFires, Enqueue, TypeOK, cluster, caches
<1>4. ASSUME NEW s \in Syncs, DeliverSyncConfig(s) PROVE TypeOK'
  BY <1>4 DEF DeliverSyncConfig, Enqueue, TypeOK, caches
<1>5. ASSUME NEW s \in Syncs, SyncConfigEvent(s) PROVE TypeOK'
  BY <1>5, SyncConfigEventOK
<1>6. ASSUME NEW c \in Configs, ConfigEvent(c) PROVE TypeOK'
  BY <1>6, ConfigEventOK
<1>7. CASE Restart
  BY <1>7, RestartOK
<1>8. CASE UNCHANGED vars
  BY <1>8 DEF vars, cluster, caches, queue, TypeOK
<1> QED BY <1>1, <1>2, <1>3, <1>4, <1>5, <1>6, <1>7, <1>8 DEF Next

(* In every behaviour of the reconciler the variables have their types; in *)
(* particular no worker calls FetchIPRanges or ApplyIPRanges on a plugin   *)
(* that is nil, or looks at a reference that is not in the spec.           *)
THEOREM TypeCorrect == Spec => []TypeOK
BY InitOK, NextOK, PTL DEF Spec

-----------------------------------------------------------------------------
(* NeverForgotten is not inductive: a Reconcile that finds nothing in the  *)
(* informer's cache ends for good, and that is right only because what the *)
(* cache does not know is still to be announced.                           *)

KnownOrBehind == \A s \in Syncs : known[s] # exists[s] => behind[s]

IInv == TypeOK /\ KnownOrBehind /\ NeverForgotten

(* Worker w goes on with the SyncConfig that it has.                       *)
GoesOn(w) ==
  /\ pc'[w] # "idle" /\ job'[w].key = job[w].key
  /\ \A v \in Workers \ {w} : pc'[v] = pc[v] /\ job'[v] = job[v]

(* A worker that goes on keeps its SyncConfig in progress.                 *)
LEMMA GoesOnKeeps ==
  ASSUME NEW w \in Workers, GoesOn(w)
  PROVE  InProgress \subseteq InProgress'
BY DEF GoesOn, InProgress

(* A worker that finishes lets go of one SyncConfig only.                  *)
LEMMA FinishKeeps ==
  ASSUME TypeOK, NEW w \in Workers, Finish(w)
  PROVE  InProgress \subseteq InProgress' \cup {job[w].key}
BY DEF Finish, InProgress, TypeOK

(* Proceed goes on with the same SyncConfig.                               *)
LEMMA ProceedGoesOn ==
  ASSUME TypeOK, NEW w \in Workers, NEW j \in Job, j.key = job[w].key, Proceed(w, j)
  PROVE  GoesOn(w)
<1> DEFINE providersDone == j.pos = Len(ProviderRefs[j.key]) + 1
           allDone == j.pos = Len(Refs(j.key)) + 1
           verdict == SetReady([j.status EXCEPT !.ingress = j.report],
                               "True", "SyncSuccessful")
           k == CASE providersDone -> [j EXCEPT !.status.providers = j.report,
                                                !.report = <<>>]
                  [] allDone       -> [j EXCEPT !.status = verdict]
                  [] OTHER         -> j
<1>1. job' = [job EXCEPT ![w] = k]
  BY DEF Proceed
<1>2. k.key = j.key
  <2> HIDE DEF verdict, providersDone, allDone
  <2> QED BY DEF Job
<1>3. PICK step \in {"update", "config"} : pc' = [pc EXCEPT ![w] = step]
  BY DEF Proceed
<1> HIDE DEF k
<1> QED BY <1>1, <1>2, <1>3 DEF GoesOn, TypeOK

(* A reference that fails does not end the reconciliation.                 *)
LEMMA RefFailsGoesOn ==
  ASSUME TypeOK, NEW w \in Workers, AtReference(job[w]), RefFails(w)
  PROVE  GoesOn(w)
<1>1. CASE GivesUp(job[w].key)
  <2>1. pc' = [pc EXCEPT ![w] = "update"]
    BY <1>1 DEF RefFails
  <2>2. PICK reason : job' = [job EXCEPT ![w].status = SetReady(@, "False", reason)]
    BY <1>1 DEF RefFails
  <2>3. /\ job'[w].key = job[w].key
        /\ \A v \in Workers \ {w} : job'[v] = job[v]
    BY <2>2 DEF TypeOK, Job
  <2> QED BY <2>1, <2>3 DEF GoesOn, TypeOK
<1>2. CASE ~GivesUp(job[w].key)
  BY <1>2, SettledOK, ProceedGoesOn DEF RefFails
<1> QED BY <1>1, <1>2

(* Between the first and the last step of Reconcile the worker goes on and *)
(* the queue and the informer are left alone.                              *)
LEMMA MiddleStepsKeep ==
  ASSUME TypeOK, NEW w \in Workers,
         GetConfig(w) \/ Lookup(w) \/ Create(w) \/ FetchIPRanges(w) \/ ApplyIPRanges(w)
  PROVE  InProgress \subseteq InProgress' /\ UNCHANGED <<cluster, queue>>
<1>1. AtReference(job[w]) /\ job[w] \in Job
  BY WorkersJob DEF GetConfig, Lookup, Create, FetchIPRanges, ApplyIPRanges
<1>2. UNCHANGED <<cluster, queue>>
  BY DEF GetConfig, Lookup, Create, FetchIPRanges, ApplyIPRanges
<1> SUFFICES GoesOn(w)
  BY <1>2, GoesOnKeeps
<1>3. CASE GetConfig(w)
  <2>1. CASE RefFails(w)
    BY <1>1, <2>1, RefFailsGoesOn
  <2>2. CASE ~RefFails(w)
    BY <1>1, <1>3, <2>2 DEF GetConfig, GoesOn, TypeOK, Job
  <2> QED BY <2>1, <2>2
<1>4. CASE Lookup(w)
  BY <1>1, <1>4 DEF Lookup, GoesOn, TypeOK, Job
<1>5. CASE Create(w)
  <2>1. CASE RefFails(w)
    BY <1>1, <2>1, RefFailsGoesOn
  <2>2. CASE ~RefFails(w)
    BY <1>1, <1>5, <2>2 DEF Create, GoesOn, TypeOK, Job
  <2> QED BY <2>1, <2>2
<1>6. CASE FetchIPRanges(w)
  <2>1. CASE RefFails(w)
    BY <1>1, <2>1, RefFailsGoesOn
  <2>2. CASE Proceed(w, [Settled(w, "Success") EXCEPT !.ranges = @ \cup {Current(w)}])
    <3> DEFINE k == Settled(w, "Success")
               j == [k EXCEPT !.ranges = @ \cup {Current(w)}]
    <3>1. k \in Job /\ k.key = job[w].key
      BY <1>1, SettledOK
    <3>2. Current(w) \in Providers
      BY <1>1, <1>6, CurrentType DEF FetchIPRanges
    <3> HIDE DEF k
    <3>3. j \in Job /\ j.key = job[w].key
      BY <3>1, <3>2 DEF Job
    <3>4. Proceed(w, j)
      BY <2>2 DEF k
    <3> HIDE DEF j
    <3> QED BY <3>3, <3>4, ProceedGoesOn
  <2> QED BY <1>6, <2>1, <2>2 DEF FetchIPRanges
<1>7. CASE ApplyIPRanges(w)
  <2>1. CASE RefFails(w)
    BY <1>1, <2>1, RefFailsGoesOn
  <2>2. CASE Proceed(w, Settled(w, "Success"))
    BY <1>1, <2>2, SettledOK, ProceedGoesOn
  <2> QED BY <1>7, <2>1, <2>2 DEF ApplyIPRanges
<1> QED BY <1>3, <1>4, <1>5, <1>6, <1>7

(* The first step of Reconcile drops a key only when the informer's cache  *)
(* has no object; then there is none, or its event is on its way.          *)
LEMMA GetSyncConfigKeeps ==
  ASSUME IInv, NEW w \in Workers, GetSyncConfig(w)
  PROVE  KnownOrBehind' /\ NeverForgotten'
<1> DEFINE s == job[w].key
<1>1. /\ s \in Syncs /\ job[w] \in Job
      /\ UNCHANGED <<cluster, dirty>>
  BY WorkersJob DEF GetSyncConfig, IInv
<1>2. KnownOrBehind'
  BY <1>1 DEF IInv, KnownOrBehind, cluster
<1>3. CASE Finish(w) /\ ReturnNil(w) /\ ~known[s]
  <2>1. exists[s] => behind[s]
    BY <1>1, <1>3 DEF IInv, KnownOrBehind, TypeOK
  <2>2. InProgress \subseteq InProgress' \cup {s}
    BY <1>3, FinishKeeps DEF IInv
  <2> QED BY <1>1, <1>2, <1>3, <2>1, <2>2 DEF IInv, NeverForgotten, ReturnNil, cluster
<1>4. CASE Finish(w) /\ ReturnError(w)
  <2>1. InProgress \subseteq InProgress' \cup {s}
    BY <1>4, FinishKeeps DEF IInv
  <2>2. delayed' = delayed \cup {s}
    BY <1>4 DEF ReturnError
  <2> QED BY <1>1, <1>2, <2>1, <2>2 DEF IInv, NeverForgotten, cluster
<1>5. CASE /\ job' = [job EXCEPT ![w].status = status[s], ![w].stale = behind[s]]
           /\ pc' = [pc EXCEPT ![w] = "config"]
           /\ UNCHANGED delayed
  <2>1. GoesOn(w)
    BY <1>1, <1>5 DEF GoesOn, IInv, TypeOK, Job
  <2>2. InProgress \subseteq InProgress'
    BY <2>1, GoesOnKeeps
  <2> QED BY <1>1, <1>2, <1>5, <2>2 DEF IInv, NeverForgotten, cluster
<1> QED BY <1>3, <1>4, <1>5 DEF GetSyncConfig

(* The last step leaves the key with a timer or with the rate limiter.     *)
LEMMA UpdateStatusKeeps ==
  ASSUME IInv, NEW w \in Workers, UpdateStatus(w)
  PROVE  KnownOrBehind' /\ NeverForgotten'
<1> DEFINE s == job[w].key
<1>1. s \in Syncs /\ UNCHANGED <<exists, known, dirty>>
  BY WorkersJob DEF UpdateStatus, WriteStatus, IInv, cluster
<1>2. \A r \in Syncs : behind[r] => behind'[r]
  BY <1>1 DEF UpdateStatus, WriteStatus, IInv, TypeOK, cluster
<1>3. delayed' = delayed \cup {s}
  BY DEF UpdateStatus, ReturnError, ReturnRequeueAfter
<1>4. InProgress \subseteq InProgress' \cup {s}
  BY FinishKeeps DEF UpdateStatus, IInv
<1>5. KnownOrBehind'
  BY <1>1, <1>2 DEF IInv, KnownOrBehind
<1> QED BY <1>1, <1>2, <1>3, <1>4, <1>5 DEF IInv, NeverForgotten

(* A key that leaves the queue is in progress.                             *)
LEMMA DequeueKeeps ==
  ASSUME IInv, NEW w \in Workers, NEW s \in Syncs, Dequeue(w, s)
  PROVE  KnownOrBehind' /\ NeverForgotten'
<1>1. /\ UNCHANGED <<cluster, delayed>> /\ dirty' = dirty \ {s} /\ pc[w] = "idle"
      /\ pc' = [pc EXCEPT ![w] = "get"]
      /\ job' = [job EXCEPT ![w] = [NoJob EXCEPT !.key = s]]
  BY DEF Dequeue
<1>2. [NoJob EXCEPT !.key = s].key = s
  BY DEF NoJob
<1>3. InProgress \cup {s} \subseteq InProgress'
  BY <1>1, <1>2 DEF InProgress, IInv, TypeOK
<1>4. KnownOrBehind'
  BY <1>1 DEF IInv, KnownOrBehind, cluster
<1> QED BY <1>1, <1>3, <1>4 DEF IInv, NeverForgotten, cluster

(* A change of a SyncConfig is to be announced.                            *)
LEMMA SyncConfigEventKeeps ==
  ASSUME IInv, NEW s \in Syncs, SyncConfigEvent(s)
  PROVE  KnownOrBehind' /\ NeverForgotten'
<1>1. /\ UNCHANGED <<known, dirty, delayed, pc>>
      /\ behind' = [behind EXCEPT ![s] = TRUE]
      /\ \A r \in Syncs \ {s} : exists'[r] = exists[r]
  BY DEF SyncConfigEvent, queue, IInv, TypeOK
<1>2. \A w \in Workers : job'[w].key = job[w].key
  BY DEF SyncConfigEvent, IInv, TypeOK, Job
<1>3. InProgress' = InProgress
  BY <1>1, <1>2 DEF InProgress
<1>4. \A r \in Syncs : behind'[r] = (IF r = s THEN TRUE ELSE behind[r])
  BY <1>1 DEF IInv, TypeOK
<1>5. KnownOrBehind'
  BY <1>1, <1>4 DEF IInv, KnownOrBehind
<1> QED BY <1>1, <1>3, <1>4, <1>5 DEF IInv, NeverForgotten

(* A change that is announced is in the queue.                             *)
LEMMA DeliverKeeps ==
  ASSUME IInv, NEW s \in Syncs, DeliverSyncConfig(s)
  PROVE  KnownOrBehind' /\ NeverForgotten'
<1>1. /\ UNCHANGED <<exists, delayed, pc, job>> /\ dirty' = dirty \cup {s}
      /\ \A r \in Syncs : /\ behind'[r] = (IF r = s THEN FALSE ELSE behind[r])
                          /\ known'[r] = (IF r = s THEN exists[s] ELSE known[r])
  BY DEF DeliverSyncConfig, Enqueue, IInv, TypeOK
<1>2. InProgress' = InProgress
  BY <1>1 DEF InProgress
<1>3. KnownOrBehind'
  BY <1>1 DEF IInv, KnownOrBehind
<1> QED BY <1>1, <1>2, <1>3 DEF IInv, NeverForgotten

(* After a restart everything that exists is in the queue.                 *)
LEMMA RestartKeeps ==
  ASSUME IInv, Restart
  PROVE  KnownOrBehind' /\ NeverForgotten'
BY DEF Restart, KnownOrBehind, NeverForgotten

(* Whatever the specs say, for any number of SyncConfigs and workers and   *)
(* whatever fails or restarts: a SyncConfig that exists is in the queue,   *)
(* has a timer, is being announced or is in the hands of a worker.         *)
THEOREM NothingForgotten == Spec => []NeverForgotten
<1>1. ASSUME Init PROVE KnownOrBehind /\ NeverForgotten
  BY <1>1 DEF Init, KnownOrBehind, NeverForgotten
<1>2. ASSUME IInv, [Next]_vars PROVE KnownOrBehind' /\ NeverForgotten'
  <2>1. ASSUME NEW w \in Workers,
               GetConfig(w) \/ Lookup(w) \/ Create(w) \/ FetchIPRanges(w) \/ ApplyIPRanges(w)
        PROVE  KnownOrBehind' /\ NeverForgotten'
    <3>1. InProgress \subseteq InProgress' /\ UNCHANGED <<cluster, queue>>
      BY <1>2, <2>1, MiddleStepsKeep DEF IInv
    <3> QED BY <1>2, <3>1 DEF IInv, KnownOrBehind, NeverForgotten, cluster, queue
  <2>2. ASSUME NEW w \in Workers, Step(w) PROVE KnownOrBehind' /\ NeverForgotten'
    BY <1>2, <2>1, <2>2, GetSyncConfigKeeps, UpdateStatusKeeps
       DEF Step, GetProviderConfig, LookupProvider, CreateProvider,
           GetIngressConfig, LookupIngress, CreateIngress
  <2>3. ASSUME NEW w \in Workers, NEW s \in Syncs, Dequeue(w, s)
        PROVE  KnownOrBehind' /\ NeverForgotten'
    BY <1>2, <2>3, DequeueKeeps
  <2>4. ASSUME NEW s \in Syncs, TimerFires(s) PROVE KnownOrBehind' /\ NeverForgotten'
    BY <1>2, <2>4
       DEF TimerFires, Enqueue, cluster, IInv, KnownOrBehind, NeverForgotten, InProgress
  <2>5. ASSUME NEW s \in Syncs, DeliverSyncConfig(s)
        PROVE  KnownOrBehind' /\ NeverForgotten'
    BY <1>2, <2>5, DeliverKeeps
  <2>6. ASSUME NEW s \in Syncs, SyncConfigEvent(s)
        PROVE  KnownOrBehind' /\ NeverForgotten'
    BY <1>2, <2>6, SyncConfigEventKeeps
  <2>7. ASSUME NEW c \in Configs, ConfigEvent(c) PROVE KnownOrBehind' /\ NeverForgotten'
    <3>1. UNCHANGED <<cluster, delayed, pc, job>> /\ dirty \subseteq dirty'
      BY <2>7 DEF ConfigEvent, Enqueue
    <3> QED BY <1>2, <3>1 DEF IInv, KnownOrBehind, NeverForgotten, InProgress, cluster
  <2>8. CASE Restart
    BY <1>2, <2>8, RestartKeeps
  <2>9. CASE UNCHANGED vars
    BY <1>2, <2>9
       DEF vars, cluster, queue, IInv, KnownOrBehind, NeverForgotten, InProgress
  <2> QED BY <1>2, <2>2, <2>3, <2>4, <2>5, <2>6, <2>7, <2>8, <2>9 DEF Next
<1>3. Spec => []TypeOK
  BY TypeCorrect
<1> QED BY <1>1, <1>2, <1>3, PTL DEF Spec, IInv

-----------------------------------------------------------------------------
(* InstancesBounded is not inductive: what bounds the instances of a       *)
(* config is the number of workers that have missed its entry and have     *)
(* made none yet, and that nobody misses an entry that is there.           *)

Creating(c) == {w \in Workers : pc[w] = "create" /\ Current(w) = c}

Made(c) ==
  IF plugins[c] = Absent
    THEN instances[c] = 0
    ELSE instances[c] + Cardinality(Creating(c)) <= Cardinality(Workers)

IInvMade == \A c \in Configs : Made(c)

(* The workers about to create a plugin are finitely many.                 *)
LEMMA CreatingSize ==
  ASSUME NEW c, NEW S \in SUBSET Creating(c)
  PROVE  /\ IsFiniteSet(S) /\ IsFiniteSet(Creating(c))
         /\ Cardinality(S) \in Nat /\ Cardinality(Creating(c)) \in Nat
         /\ Cardinality(Workers) \in Nat
         /\ Cardinality(S) <= Cardinality(Creating(c))
         /\ Cardinality(Creating(c)) <= Cardinality(Workers)
<1>1. IsFiniteSet(Workers) /\ Creating(c) \subseteq Workers
  BY WorkersAssumption DEF Creating
<1>2. IsFiniteSet(Creating(c)) /\ Cardinality(Creating(c)) <= Cardinality(Workers)
  BY <1>1, FS_Subset
<1>3. IsFiniteSet(S) /\ Cardinality(S) <= Cardinality(Creating(c))
  BY <1>2, FS_Subset
<1> QED BY <1>1, <1>2, <1>3, FS_CardinalityType

(* While no entry is made and nobody joins those who create, the bound     *)
(* stays.                                                                  *)
LEMMA NobodyJoins ==
  ASSUME TypeOK, IInvMade, UNCHANGED caches,
         \A c \in Configs : plugins[c] # Absent => Creating(c)' \subseteq Creating(c)
  PROVE  IInvMade'
<1> SUFFICES ASSUME NEW c \in Configs PROVE Made(c)'
  BY DEF IInvMade
<1>1. Made(c) /\ plugins'[c] = plugins[c] /\ instances'[c] = instances[c]
      /\ instances[c] \in Nat
  BY DEF IInvMade, caches, TypeOK
<1>2. CASE plugins[c] = Absent
  BY <1>1, <1>2 DEF Made
<1>3. CASE plugins[c] # Absent
  <2>1. PICK S \in SUBSET Creating(c) : S = Creating(c)'
    BY <1>3
  <2>2. /\ Cardinality(S) \in Nat /\ Cardinality(Creating(c)) \in Nat
        /\ Cardinality(Workers) \in Nat
        /\ Cardinality(S) <= Cardinality(Creating(c))
    BY CreatingSize
  <2>3. instances[c] + Cardinality(Creating(c)) <= Cardinality(Workers)
    BY <1>1, <1>3 DEF Made
  <2>4. instances[c] + Cardinality(S) <= Cardinality(Workers)
    BY <1>1, <2>2, <2>3
  <2> QED BY <1>1, <1>3, <2>1, <2>4 DEF Made
<1> QED BY <1>2, <1>3

(* A worker that makes a plugin has made its instance and is no longer     *)
(* among those who will.                                                   *)
LEMMA OneIsMade ==
  ASSUME TypeOK, IInvMade, NEW w \in Workers, pc[w] = "create",
         NEW spec \in Contents, Store(Current(w), spec),
         instances' = [instances EXCEPT ![Current(w)] = @ + 1],
         pc' = [pc EXCEPT ![w] = "use"],
         \A v \in Workers \ {w} : job'[v] = job[v]
  PROVE  IInvMade'
<1> DEFINE d == Current(w)
<1>1. d \in Configs
  BY WorkersJob, CurrentType
<1>2. \A c \in Configs : /\ plugins'[c] = IF c = d THEN spec ELSE plugins[c]
                         /\ instances'[c] = IF c = d THEN instances[c] + 1 ELSE instances[c]
  BY <1>1 DEF TypeOK, Store
<1>3. \A v \in Workers : pc'[v] = IF v = w THEN "use" ELSE pc[v]
  BY DEF TypeOK
<1>4. \A c : Creating(c)' = Creating(c) \ {w}
  BY <1>3 DEF Creating, Current
<1>5. w \in Creating(d)
  BY DEF Creating
<1> HIDE DEF d
<1> SUFFICES ASSUME NEW c \in Configs PROVE Made(c)'
  BY DEF IInvMade
<1>6. Made(c) /\ instances[c] \in Nat
  BY DEF IInvMade, TypeOK
<1>7. PICK S \in SUBSET Creating(c) : S = Creating(c)' /\ S = Creating(c) \ {w}
  BY <1>4
<1>8. /\ Cardinality(S) \in Nat /\ Cardinality(Creating(c)) \in Nat
      /\ Cardinality(Workers) \in Nat /\ IsFiniteSet(Creating(c))
      /\ Cardinality(S) <= Cardinality(Creating(c))
      /\ Cardinality(Creating(c)) <= Cardinality(Workers)
  BY CreatingSize
<1>9. CASE c = d
  <2>1. w \in Creating(c)
    BY <1>5, <1>9
  <2>2. Cardinality(S) = Cardinality(Creating(c)) - 1
    BY <1>7, <1>8, <2>1, FS_RemoveElement
  <2>3. instances[c] + Cardinality(Creating(c)) <= Cardinality(Workers)
    BY <1>6, <1>8 DEF Made
  <2>4. instances[c] + 1 + Cardinality(S) <= Cardinality(Workers)
    BY <1>6, <1>8, <2>2, <2>3
  <2>5. plugins'[c] # Absent /\ instances'[c] = instances[c] + 1
    BY <1>2, <1>9, NamesAssumption
  <2> QED BY <1>7, <2>4, <2>5 DEF Made
<1>10. CASE c # d
  <2>1. plugins'[c] = plugins[c] /\ instances'[c] = instances[c]
    BY <1>2, <1>10
  <2>2. CASE plugins[c] = Absent
    BY <1>6, <2>1, <2>2 DEF Made
  <2>3. CASE plugins[c] # Absent
    <3>1. instances[c] + Cardinality(Creating(c)) <= Cardinality(Workers)
      BY <1>6, <2>3 DEF Made
    <3>2. instances[c] + Cardinality(S) <= Cardinality(Workers)
      BY <1>6, <1>8, <3>1
    <3> QED BY <1>7, <2>1, <2>3, <3>2 DEF Made
  <2> QED BY <2>2, <2>3
<1> QED BY <1>9, <1>10

(* A worker that moves to a step other than "create" does not join.        *)
LEMMA OneMoves ==
  ASSUME TypeOK, NEW w \in Workers, pc'[w] # "create",
         \A v \in Workers \ {w} : pc'[v] = pc[v] /\ job'[v] = job[v]
  PROVE  \A c : Creating(c)' \subseteq Creating(c)
BY DEF Creating, Current

(* Neither does one whose reference fails.                                 *)
LEMMA RefFailsMoves ==
  ASSUME TypeOK, NEW w \in Workers, RefFails(w)
  PROVE  /\ pc'[w] # "create"
         /\ \A v \in Workers \ {w} : pc'[v] = pc[v] /\ job'[v] = job[v]
<1>1. \/ pc' = [pc EXCEPT ![w] = "update"]
      \/ pc' = [pc EXCEPT ![w] = "config"]
  BY DEF RefFails, Proceed
<1>2. \A v \in Workers \ {w} : job'[v] = job[v]
  BY DEF RefFails, Proceed, TypeOK
<1> QED BY <1>1, <1>2 DEF TypeOK

(* The steps of a worker.                                                  *)
LEMMA StepMade ==
  ASSUME TypeOK, IInvMade, NEW w \in Workers, Step(w)
  PROVE  IInvMade'
<1>1. CASE GetSyncConfig(w)
  <2>1. /\ pc'[w] # "create" /\ UNCHANGED caches
        /\ \A v \in Workers \ {w} : pc'[v] = pc[v] /\ job'[v] = job[v]
    BY <1>1 DEF GetSyncConfig, Finish, TypeOK
  <2> QED BY <2>1, OneMoves, NobodyJoins
<1>2. CASE GetConfig(w)
  <2>1. UNCHANGED caches
    BY <1>2 DEF GetConfig
  <2>2. CASE RefFails(w)
    BY <2>1, <2>2, RefFailsMoves, OneMoves, NobodyJoins
  <2>3. CASE ~RefFails(w)
    <3>1. /\ pc'[w] # "create"
          /\ \A v \in Workers \ {w} : pc'[v] = pc[v] /\ job'[v] = job[v]
      BY <1>2, <2>3 DEF GetConfig, TypeOK
    <3> QED BY <2>1, <3>1, OneMoves, NobodyJoins
  <2> QED BY <2>2, <2>3
<1>3. CASE Lookup(w)
  <2>1. UNCHANGED caches
    BY <1>3 DEF Lookup
  <2>2. CASE plugins[Current(w)] # Absent
    <3>1. /\ pc'[w] # "create"
          /\ \A v \in Workers \ {w} : pc'[v] = pc[v] /\ job'[v] = job[v]
      BY <1>3, <2>2 DEF Lookup, TypeOK
    <3> QED BY <2>1, <3>1, OneMoves, NobodyJoins
  <2>3. CASE plugins[Current(w)] = Absent
    <3>1. /\ UNCHANGED job
          /\ \A v \in Workers \ {w} : pc'[v] = pc[v]
      BY <1>3, <2>3 DEF Lookup, TypeOK
    <3>2. ASSUME NEW c \in Configs, plugins[c] # Absent
          PROVE  Creating(c)' \subseteq Creating(c)
      BY <2>3, <3>1, <3>2 DEF Creating, Current
    <3> QED BY <2>1, <3>2, NobodyJoins
  <2> QED BY <2>2, <2>3
<1>4. CASE Create(w)
  <2>1. CASE RefFails(w) /\ UNCHANGED caches
    BY <2>1, RefFailsMoves, OneMoves, NobodyJoins
  <2>2. CASE ~(RefFails(w) /\ UNCHANGED caches)
    <3>1. /\ pc[w] = "create" /\ Store(Current(w), job[w].spec)
          /\ instances' = [instances EXCEPT ![Current(w)] = @ + 1]
          /\ pc' = [pc EXCEPT ![w] = "use"]
          /\ \A v \in Workers \ {w} : job'[v] = job[v]
      BY <1>4, <2>2 DEF Create, TypeOK
    <3>2. job[w].spec \in Contents
      BY <3>1, WorkersJob DEF JobOK
    <3> QED BY <3>1, <3>2, OneIsMade
  <2> QED BY <2>1, <2>2
<1>5. CASE FetchIPRanges(w) \/ ApplyIPRanges(w)
  <2>1. UNCHANGED caches
    BY <1>5 DEF FetchIPRanges, ApplyIPRanges
  <2>2. CASE RefFails(w)
    BY <2>1, <2>2, RefFailsMoves, OneMoves, NobodyJoins
  <2>3. CASE ~RefFails(w)
    <3>1. PICK j : Proceed(w, j)
      BY <1>5, <2>3 DEF FetchIPRanges, ApplyIPRanges
    <3>2. /\ pc'[w] # "create"
          /\ \A v \in Workers \ {w} : pc'[v] = pc[v] /\ job'[v] = job[v]
      BY <3>1 DEF Proceed, TypeOK
    <3> QED BY <2>1, <3>2, OneMoves, NobodyJoins
  <2> QED BY <2>2, <2>3
<1>6. CASE UpdateStatus(w)
  <2>1. /\ pc'[w] # "create" /\ UNCHANGED caches
        /\ \A v \in Workers \ {w} : pc'[v] = pc[v] /\ job'[v] = job[v]
    BY <1>6 DEF UpdateStatus, Finish, TypeOK
  <2> QED BY <2>1, OneMoves, NobodyJoins
<1> QED BY <1>1, <1>2, <1>3, <1>4, <1>5, <1>6
        DEF Step, GetProviderConfig, LookupProvider, CreateProvider,
            GetIngressConfig, LookupIngress, CreateIngress

(* Any step of the system.                                                 *)
LEMMA NextMade ==
  ASSUME TypeOK, IInvMade, [Next]_vars
  PROVE  IInvMade'
<1>1. ASSUME NEW w \in Workers, NEW s \in Syncs, Dequeue(w, s) PROVE IInvMade'
  <2>1. /\ pc'[w] # "create" /\ UNCHANGED caches
        /\ \A v \in Workers \ {w} : pc'[v] = pc[v] /\ job'[v] = job[v]
    BY <1>1 DEF Dequeue, TypeOK
  <2> QED BY <2>1, OneMoves, NobodyJoins
<1>2. ASSUME UNCHANGED <<caches, pc, job>> PROVE IInvMade'
  <2>1. UNCHANGED caches /\ \A c : Creating(c)' = Creating(c)
    BY <1>2 DEF Creating, Current
  <2> QED BY <2>1, NobodyJoins
<1>3. ASSUME NEW s \in Syncs, TimerFires(s) \/ DeliverSyncConfig(s) PROVE IInvMade'
  BY <1>2, <1>3 DEF TimerFires, DeliverSyncConfig
<1>4. ASSUME NEW c \in Configs, ConfigEvent(c) PROVE IInvMade'
  BY <1>2, <1>4 DEF ConfigEvent
<1>5. ASSUME NEW s \in Syncs, SyncConfigEvent(s) PROVE IInvMade'
  <2>1. ASSUME NEW v \in Workers
        PROVE  pc'[v] = pc[v] /\ job'[v].key = job[v].key /\ job'[v].pos = job[v].pos
    BY <1>5, WorkersJob DEF SyncConfigEvent, Job
  <2>2. UNCHANGED caches /\ \A c : Creating(c)' = Creating(c)
    BY <1>5, <2>1 DEF Creating, Current, SyncConfigEvent
  <2> QED BY <2>2, NobodyJoins
<1>6. CASE Restart
  BY <1>6 DEF Restart, IInvMade, Made
<1>7. CASE UNCHANGED vars
  BY <1>2, <1>7 DEF vars
<1>8. ASSUME NEW w \in Workers, Step(w) PROVE IInvMade'
  BY <1>8, StepMade
<1> QED BY <1>1, <1>3, <1>4, <1>5, <1>6, <1>7, <1>8 DEF Next

(* For any number of workers, and whatever fails: a config has at most as  *)
(* many instances as there are workers, since those who find no entry in   *)
(* the cache make one instance each, and nobody else does.                 *)
THEOREM Instances == Spec => []InstancesBounded
<1>1. Init => IInvMade
  BY DEF Init, IInvMade, Made
<1>2. TypeOK /\ IInvMade => InstancesBounded
  <2> SUFFICES ASSUME TypeOK, IInvMade, NEW c \in Configs
               PROVE  instances[c] <= Cardinality(Workers)
    BY DEF InstancesBounded
  <2>1. Made(c) /\ instances[c] \in Nat
    BY DEF IInvMade, TypeOK
  <2>2. Cardinality(Workers) \in Nat /\ Cardinality(Creating(c)) \in Nat
    BY CreatingSize
  <2> QED BY <2>1, <2>2 DEF Made
<1> QED BY <1>1, <1>2, NextMade, TypeCorrect, PTL DEF Spec

=============================================================================
