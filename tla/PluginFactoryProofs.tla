------------------------- MODULE PluginFactoryProofs -------------------------
(***************************************************************************)
(* For any number of configs, Secrets and workers, and whatever versions   *)
(* of the objects there are: what can be said of a plugin in the cache.    *)
(***************************************************************************)
EXTENDS PluginFactory, FiniteSetTheorems, TLAPS

(* A worker that has got past the registry has a type that is in it, and   *)
(* the token it has read is the one its spec asks for.                     *)
ReadWell(step, j) ==
  /\ step \in {"secret", "init"} => j.spec.type \in Registered
  /\ step = "init" /\ SecretRefOf(j.spec) # Absent =>
       \E data \in Stored[SecretRefOf(j.spec)] : Means(data, j.spec.key, j.token)

IInv ==
  /\ TypeOK /\ TokenOfItsSecret /\ EntriesAreInitialised
  /\ \A w \in Workers : ReadWell(pc[w], job[w])

WorkerOK(step, j) == j \in Job \cup {NoJob} /\ JobOK(step, j) /\ ReadWell(step, j)

Steps == {"idle", "lookup", "secret", "init"}

(* What GetSecret returns is what the reference means.                     *)
LEMMA GetSecretMeans ==
  ASSUME NEW data \in Data \cup {Absent}, NEW key, NEW token \in GetSecret(data, key)
  PROVE  data \in Data /\ token \in Tokens /\ Means(data, key, token)
<1>1. data # Absent /\ data \in Data
  BY DEF GetSecret
<1>2. PICK K \in SUBSET Keys : data \in [K -> Tokens]
  BY <1>1 DEF Data
<1>3. CASE key \in K
  BY <1>1, <1>2, <1>3 DEF GetSecret, Means
<1>4. CASE key \notin K
  <2>1. IsFiniteSet(K)
    BY ConstantsAssumption, FS_Subset
  <2>2. Cardinality(K) = 1
    BY <1>1, <1>2, <1>4 DEF GetSecret
  <2>3. PICK k : K = {k}
    BY <2>1, <2>2, FS_Singleton
  <2>4. token = data[k] /\ k \in Keys
    BY <1>1, <1>2, <1>4, <2>2, <2>3 DEF GetSecret
  <2>5. data = [i \in {k} |-> token]
    BY <1>2, <2>3, <2>4
  <2> QED BY <1>1, <1>2, <1>4, <2>3, <2>4, <2>5 DEF Means
<1> QED BY <1>3, <1>4

(* A worker without a job.                                                 *)
LEMMA NoJobOK == WorkerOK("idle", NoJob)
BY DEF WorkerOK, JobOK, ReadWell

(* One worker moves to a step and a job that fit together.                 *)
LEMMA WorkerMoves ==
  ASSUME IInv, NEW w \in Workers, NEW step \in Steps, NEW j, WorkerOK(step, j),
         pc' = [pc EXCEPT ![w] = step], job' = [job EXCEPT ![w] = j]
  PROVE  /\ pc' \in [Workers -> Steps] /\ job' \in [Workers -> Job \cup {NoJob}]
         /\ \A v \in Workers : JobOK(pc'[v], job'[v]) /\ ReadWell(pc'[v], job'[v])
<1>1. ASSUME NEW v \in Workers PROVE WorkerOK(pc'[v], job'[v])
  <2>1. pc'[v] = (IF v = w THEN step ELSE pc[v]) /\ job'[v] = (IF v = w THEN j ELSE job[v])
    BY DEF IInv, TypeOK
  <2>2. WorkerOK(pc[v], job[v])
    BY DEF IInv, TypeOK, WorkerOK
  <2> QED BY <2>1, <2>2
<1> QED BY <1>1 DEF IInv, TypeOK, Steps, WorkerOK

(* The job of a worker that is at a step.                                  *)
LEMMA WorkersJob ==
  ASSUME IInv, NEW w \in Workers, pc[w] # "idle"
  PROVE  /\ job[w] \in Job
         /\ job[w].spec \in Offered[job[w].name]
         /\ WorkerOK(pc[w], job[w])
BY DEF IInv, TypeOK, JobOK, WorkerOK

(* A call that ends.                                                       *)
LEMMA FinishKeeps ==
  ASSUME IInv, NEW w \in Workers, Finish(w), UNCHANGED <<config, secret, plugins>>
  PROVE  IInv'
<1>1. "idle" \in Steps
  BY DEF Steps
<1>2. /\ pc' \in [Workers -> Steps] /\ job' \in [Workers -> Job \cup {NoJob}]
      /\ \A v \in Workers : JobOK(pc'[v], job'[v]) /\ ReadWell(pc'[v], job'[v])
  BY <1>1, NoJobOK, WorkerMoves DEF Finish
<1> QED BY <1>2 DEF IInv, TypeOK, TokenOfItsSecret, EntriesAreInitialised, Steps

(* A call that goes on.                                                    *)
LEMMA GoesOnKeeps ==
  ASSUME IInv, NEW w \in Workers, NEW step \in Steps, NEW j, WorkerOK(step, j),
         pc' = [pc EXCEPT ![w] = step], job' = [job EXCEPT ![w] = j],
         UNCHANGED <<config, secret, plugins>>
  PROVE  IInv'
<1>1. /\ pc' \in [Workers -> Steps] /\ job' \in [Workers -> Job \cup {NoJob}]
      /\ \A v \in Workers : JobOK(pc'[v], job'[v]) /\ ReadWell(pc'[v], job'[v])
  BY WorkerMoves
<1> QED BY <1>1 DEF IInv, TypeOK, TokenOfItsSecret, EntriesAreInitialised, Steps

-----------------------------------------------------------------------------
(* Each step of a call keeps the invariant.                                *)

(* The call takes a copy of the config.                                    *)
LEMMA CallKeeps ==
  ASSUME IInv, NEW w \in Workers, NEW c \in Configs, Call(w, c)
  PROVE  IInv'
<1> DEFINE j == [name |-> c, spec |-> config[c], token |-> Absent]
<1>1. config[c] \in Offered[c] /\ config[c] \in ConfigSpec
  BY DEF Call, IInv, TypeOK
<1>2. j # NoJob
  <2>1. j.name # NoJob.name
    BY ConstantsAssumption DEF NoJob
  <2> QED BY <2>1
<1>3. WorkerOK("lookup", j)
  BY <1>1, <1>2 DEF WorkerOK, JobOK, ReadWell, Job
<1> QED BY <1>3, GoesOnKeeps DEF Call, Goto, Steps

(* The cache and the registry.                                             *)
LEMMA LookupKeeps ==
  ASSUME IInv, NEW w \in Workers, Lookup(w)
  PROVE  IInv'
<1>1. CASE Finish(w) /\ UNCHANGED plugins
  BY <1>1, FinishKeeps DEF Lookup
<1>2. CASE GetFactory(w) /\ UNCHANGED <<plugins, job>>
  <2> DEFINE step == IF SecretRefOf(job[w].spec) = Absent THEN "init" ELSE "secret"
  <2>1. WorkerOK(pc[w], job[w]) /\ pc[w] = "lookup"
    BY WorkersJob DEF Lookup
  <2>2. WorkerOK(step, job[w])
    BY <1>2, <2>1 DEF GetFactory, WorkerOK, JobOK, ReadWell
  <2>3. pc' = [pc EXCEPT ![w] = step] /\ job' = [job EXCEPT ![w] = job[w]]
    BY <1>2 DEF GetFactory, Goto, IInv, TypeOK
  <2>4. step \in Steps
    BY DEF Steps
  <2> HIDE DEF step
  <2> QED BY <1>2, <2>2, <2>3, <2>4, GoesOnKeeps DEF Lookup
<1> QED BY <1>1, <1>2 DEF Lookup, Fails

(* The token is the one that the reference means in the Secret as it is.   *)
LEMMA ReadSecretKeeps ==
  ASSUME IInv, NEW w \in Workers, ReadSecret(w)
  PROVE  IInv'
<1> DEFINE spec == job[w].spec
           n == SecretRefOf(spec)
<1>1. CASE Fails(w)
  BY <1>1, FinishKeeps DEF ReadSecret, Fails
<1>2. CASE /\ \E token \in Readable(w) : job' = [job EXCEPT ![w].token = token]
           /\ Goto(w, "init") /\ UNCHANGED plugins
  <2>1. /\ job[w] \in Job
        /\ job[w] # NoJob /\ spec \in Offered[job[w].name] /\ spec \in ConfigSpec
        /\ spec.type \in Registered /\ n # Absent
    BY WorkersJob DEF ReadSecret, WorkerOK, JobOK, ReadWell, Job
  <2>2. n = spec.secretName /\ n \in SecretNames
    BY <2>1 DEF SecretRefOf, ConfigSpec
  <2>3. PICK token \in GetSecret(secret[n], spec.key) : job' = [job EXCEPT ![w].token = token]
    BY <1>2, <2>2 DEF Readable
  <2>4. secret[n] \in Data \cup {Absent} /\ secret[n] \in Stored[n] \cup {Absent}
    BY <2>2 DEF IInv, TypeOK
  <2>5. token \in Tokens /\ secret[n] \in Stored[n] /\ Means(secret[n], spec.key, token)
    BY <2>3, <2>4, GetSecretMeans, ConstantsAssumption
  <2> DEFINE j == [job[w] EXCEPT !.token = token]
  <2>6. /\ j \in Job
        /\ j.name = job[w].name /\ j.spec = spec /\ j.token = token /\ j.token # Absent
    BY <2>1, <2>5, ConstantsAssumption DEF Job
  <2>7. j # NoJob
    BY <2>6, ConstantsAssumption DEF NoJob
  <2>8. WorkerOK("init", j)
    BY <2>1, <2>5, <2>6, <2>7 DEF WorkerOK, JobOK, ReadWell
  <2>9. pc' = [pc EXCEPT ![w] = "init"] /\ job' = [job EXCEPT ![w] = j]
    BY <1>2, <2>3 DEF Goto, IInv, TypeOK
  <2> HIDE DEF j
  <2> QED BY <1>2, <2>8, <2>9, GoesOnKeeps DEF ReadSecret, Steps
<1> QED BY <1>1, <1>2 DEF ReadSecret

(* The plugin that gets into the cache is what the job says of it.         *)
LEMMA CreateKeeps ==
  ASSUME IInv, NEW w \in Workers, Create(w)
  PROVE  IInv'
<1> DEFINE plugin == [spec |-> job[w].spec, token |-> job[w].token]
<1>1. CASE Fails(w)
  BY <1>1, FinishKeeps DEF Create, Fails
<1>2. CASE /\ InitAccepts(plugin.spec, plugin.token)
           /\ plugins' = [plugins EXCEPT ![job[w].name] = plugin]
           /\ Finish(w)
  <2>1. /\ job[w] \in Job
        /\ plugin.spec \in Offered[job[w].name] /\ plugin.spec.type \in Registered
        /\ plugin.token = Absent <=> SecretRefOf(plugin.spec) = Absent
        /\ SecretRefOf(plugin.spec) # Absent =>
             \E data \in Stored[SecretRefOf(plugin.spec)] :
               Means(data, plugin.spec.key, plugin.token)
    BY WorkersJob DEF Create, WorkerOK, JobOK, ReadWell
  <2>2. plugin \in Plugin /\ job[w].name \in Configs
    BY <2>1 DEF Plugin, Job
  <2> HIDE DEF plugin
  <2>3. \A c \in Configs : plugins'[c] = IF c = job[w].name THEN plugin ELSE plugins[c]
    BY <1>2, <2>2 DEF IInv, TypeOK
  <2>4. plugins' \in [Configs -> Plugin \cup {Absent}]
    BY <1>2, <2>2 DEF IInv, TypeOK
  <2>5. TokenOfItsSecret'
    BY <2>1, <2>3 DEF IInv, TokenOfItsSecret
  <2>6. EntriesAreInitialised'
    BY <1>2, <2>1, <2>3 DEF IInv, EntriesAreInitialised, InitAccepts
  <2>7. /\ pc' \in [Workers -> Steps] /\ job' \in [Workers -> Job \cup {NoJob}]
        /\ \A v \in Workers : JobOK(pc'[v], job'[v]) /\ ReadWell(pc'[v], job'[v])
    BY <1>2, NoJobOK, WorkerMoves DEF Finish, Steps
  <2>8. UNCHANGED <<config, secret>>
    BY DEF Create
  <2> QED BY <2>4, <2>5, <2>6, <2>7, <2>8 DEF IInv, TypeOK, Steps
<1> QED BY <1>1, <1>2 DEF Create, InitAndStore

(* Edits of the objects; the workers go on with their copies.              *)
LEMMA EditsKeep ==
  ASSUME IInv,
         (\E c \in Configs : EditConfig(c)) \/ (\E n \in SecretNames : EditSecret(n))
  PROVE  IInv'
<1>1. UNCHANGED <<plugins, pc, job>>
  BY DEF EditConfig, EditSecret
<1>2. CASE \E c \in Configs : EditConfig(c)
  <2>0. PICK c \in Configs : EditConfig(c)
    BY <1>2
  <2>1. PICK spec \in Offered[c] \cup {Absent} :
          config' = [config EXCEPT ![c] = spec] /\ UNCHANGED secret
    BY <2>0 DEF EditConfig
  <2>2. spec \in ConfigSpec \cup {Absent}
    BY ConstantsAssumption
  <2> QED BY <1>1, <2>1, <2>2 DEF IInv, TypeOK, TokenOfItsSecret, EntriesAreInitialised
<1>3. CASE \E n \in SecretNames : EditSecret(n)
  <2>0. PICK n \in SecretNames : EditSecret(n)
    BY <1>3
  <2>1. PICK data \in Stored[n] \cup {Absent} :
          secret' = [secret EXCEPT ![n] = data] /\ UNCHANGED config
    BY <2>0 DEF EditSecret
  <2>2. data \in Data \cup {Absent}
    BY ConstantsAssumption
  <2> QED BY <1>1, <2>1, <2>2 DEF IInv, TypeOK, TokenOfItsSecret, EntriesAreInitialised
<1> QED BY <1>2, <1>3

(* After a restart there is no plugin and no call.                         *)
LEMMA RestartKeeps ==
  ASSUME IInv, Restart
  PROVE  IInv'
<1>1. \A w \in Workers : WorkerOK(pc'[w], job'[w])
  BY NoJobOK DEF Restart
<1>2. job' \in [Workers -> Job \cup {NoJob}] /\ \A c \in Configs : plugins'[c] = Absent
  BY DEF Restart
<1> QED BY <1>1, <1>2
        DEF Restart, IInv, TypeOK, TokenOfItsSecret, EntriesAreInitialised, WorkerOK

(* The invariant holds throughout.                                         *)
LEMMA Invariant == Spec => []IInv
<1>1. ASSUME Init PROVE IInv
  <2>1. \A w \in Workers : WorkerOK(pc[w], job[w])
    BY <1>1, NoJobOK DEF Init
  <2> QED BY <1>1, <2>1
          DEF Init, IInv, TypeOK, TokenOfItsSecret, EntriesAreInitialised, WorkerOK
<1>2. ASSUME IInv, [Next]_vars PROVE IInv'
  <2>1. ASSUME NEW w \in Workers, Step(w) \/ ServerUnavailable(w) PROVE IInv'
    BY <1>2, <2>1, LookupKeeps, ReadSecretKeeps, CreateKeeps, FinishKeeps
       DEF Step, ServerUnavailable, Fails
  <2>2. ASSUME NEW w \in Workers, NEW c \in Configs, Call(w, c) PROVE IInv'
    BY <1>2, <2>2, CallKeeps
  <2>3. CASE Restart
    BY <1>2, <2>3, RestartKeeps
  <2>4. CASE UNCHANGED vars
    BY <1>2, <2>4 DEF vars, IInv, TypeOK, TokenOfItsSecret, EntriesAreInitialised
  <2> QED BY <1>2, <2>1, <2>2, <2>3, <2>4, EditsKeep DEF Next
<1> QED BY <1>1, <1>2, PTL DEF Spec

(* Types: in particular, Init is called with a token exactly if the spec   *)
(* names a Secret.                                                         *)
THEOREM TypeCorrect == Spec => []TypeOK
<1>1. IInv => TypeOK
  BY DEF IInv
<1> QED BY <1>1, Invariant, PTL

(* Whatever the versions of the objects and however many workers create    *)
(* the same plugin at a time: the options of a plugin and its token belong *)
(* together.                                                               *)
THEOREM Provenance == Spec => []TokenOfItsSecret
<1>1. IInv => TokenOfItsSecret
  BY DEF IInv
<1> QED BY <1>1, Invariant, PTL

(* And nothing is ever found in the cache that Init has refused.           *)
THEOREM Initialised == Spec => []EntriesAreInitialised
<1>1. IInv => EntriesAreInitialised
  BY DEF IInv
<1> QED BY <1>1, Invariant, PTL

=============================================================================
