---------------------------- MODULE PluginFactory ----------------------------
(***************************************************************************)
(* How the reconciler's workers come to a plugin: getOrCreateProvider and  *)
(* getOrCreateIngress (pkg/controller/controller.go), the registries they  *)
(* look into, the Secret they read and the Init of the plugins.  In module *)
(* SyncController all this is the pair of steps Lookup and Create.         *)
(*                                                                         *)
(* A spec is represented by what decides about the creation: its type,     *)
(* whether it has the section of that type, the Secret and key it refers   *)
(* to, and one setting that stands for the options Init only takes over.   *)
(***************************************************************************)
EXTENDS Naturals, FiniteSets

CONSTANTS
  Configs,     \* names of ProviderConfigs and IngressConfigs
  Workers,     \* the MaxConcurrentReconciles goroutines
  SecretNames, \* names of Secrets
  Keys,        \* keys a Secret can have
  Tokens,      \* values under these keys
  Settings,    \* values of the setting
  Malformed,   \* the settings that time.ParseDuration refuses
  Absent,      \* no object, no entry, no token; a field that is empty
  Offered,     \* Offered[c]: the specs that config c may have
  Stored,      \* Stored[n]: the data that Secret n may have
  Registered   \* the types with a factory in their registry

(* The types the CRDs admit.                                               *)
ProviderTypes == {"github", "aws"}

IngressTypes == {"cloudflare", "istio"}

Types == ProviderTypes \cup IngressTypes

ConfigSpec == [type : Types, section : BOOLEAN,
               secretName : SecretNames \cup {Absent},
               key : Keys \cup {Absent}, setting : Settings \cup {Absent}]

Data == UNION {[K -> Tokens] : K \in SUBSET Keys}

Plugin == [spec : ConfigSpec, token : Tokens \cup {Absent}]

ASSUME ConstantsAssumption ==
  /\ Absent \notin Configs \cup SecretNames \cup Keys \cup Tokens
  /\ Absent \notin ConfigSpec /\ Absent \notin Data /\ Absent \notin Plugin
  /\ Offered \in [Configs -> SUBSET ConfigSpec]
  /\ Stored \in [SecretNames -> SUBSET Data]
  /\ Malformed \subseteq Settings
  /\ IsFiniteSet(Keys)
  /\ Registered \subseteq Types

VARIABLES
  config,   \* config[c]: the spec of config c, or Absent
  secret,   \* secret[n]: the data of Secret n, or Absent
  plugins,  \* plugins[c]: the entry of c in ProviderCache or IngressCache
  pc,       \* pc[w]: the next step of worker w
  job       \* job[w]: the config whose plugin it wants, the copy of the spec
            \*   that it holds, and the token it has read

vars == <<config, secret, plugins, pc, job>>

Job == [name : Configs, spec : ConfigSpec, token : Tokens \cup {Absent}]

NoJob == [name |-> Absent, spec |-> Absent, token |-> Absent]

-----------------------------------------------------------------------------
(* What the parts of the creation decide.                                  *)

SecretRefOf(spec) ==
  IF spec.section /\ spec.type \in {"github", "cloudflare"} THEN spec.secretName ELSE Absent

GetSecretOrAny(data, key) ==
  IF data = Absent THEN {}
  ELSE IF key \in DOMAIN data THEN {data[key]} ELSE {data[k] : k \in DOMAIN data}

GetSecretStrictly(data, key) ==
  IF data = Absent THEN {} ELSE {data[k] : k \in {key} \cap DOMAIN data}

(* The value that GetSecret returns, as a set that is empty for an error.  *)
GetSecret(data, key) ==
  IF data = Absent THEN {}
  ELSE IF key \in DOMAIN data THEN {data[key]}
  ELSE IF Cardinality(DOMAIN data) = 1 THEN {data[k] : k \in DOMAIN data}
  ELSE {}

(* Whether Init of the plugin returns nil.  The polling interval has to be *)
(* a duration.  Cloudflare wants a token, a zone and a name; of these the  *)
(* reconciler passes the last two whenever there is a section.             *)
InitAccepts(spec, token) ==
  CASE spec.type = "github"     -> ~(spec.section /\ spec.setting \in Malformed)
    [] spec.type = "cloudflare" -> spec.section /\ token # Absent
    [] OTHER                    -> TRUE

-----------------------------------------------------------------------------
(* One call, for the copy of the config that Reconcile has read.           *)

Finish(w) ==
  /\ pc' = [pc EXCEPT ![w] = "idle"]
  /\ job' = [job EXCEPT ![w] = NoJob]

Fails(w) == Finish(w) /\ UNCHANGED plugins

Goto(w, step) == pc' = [pc EXCEPT ![w] = step]

Call(w, c) ==
  /\ pc[w] = "idle"
  /\ config[c] # Absent
  /\ job' = [job EXCEPT ![w] = [name |-> c, spec |-> config[c], token |-> Absent]]
  /\ Goto(w, "lookup")
  /\ UNCHANGED <<config, secret, plugins>>

(* The instance from the registry, before anything of it is set.           *)
GetFactoryOnly(w) ==
  /\ job[w].spec.type \in Registered
  /\ Goto(w, "init")

GetFactory(w) ==
  /\ job[w].spec.type \in Registered
  /\ Goto(w, IF SecretRefOf(job[w].spec) = Absent THEN "init" ELSE "secret")

Lookup(w) ==
  /\ pc[w] = "lookup"
  /\ LET missed == plugins[job[w].name] = Absent IN
     \/ missed /\ GetFactory(w) /\ UNCHANGED <<plugins, job>>
     \/ missed /\ job[w].spec.type \notin Registered /\ Fails(w)
     \/ ~missed /\ Finish(w) /\ UNCHANGED plugins
  /\ UNCHANGED <<config, secret>>

(* The value that the Secret reader finds for w, if any.                   *)
Readable(w) == GetSecret(secret[job[w].spec.secretName], job[w].spec.key)

ReadSecret(w) ==
  /\ pc[w] = "secret"
  /\ \/ Readable(w) = {} /\ Fails(w)
     \/ /\ \E token \in Readable(w) : job' = [job EXCEPT ![w].token = token]
        /\ Goto(w, "init")
        /\ UNCHANGED plugins
  /\ UNCHANGED <<config, secret>>

(* The API server does not answer, or not in time: neither the Secret      *)
(* reader nor the Init of the Istio ingress, which makes a client of its   *)
(* own, gets what it needs.                                                *)
ServerUnavailable(w) ==
  /\ \/ pc[w] = "secret" /\ Readable(w) # {}
     \/ pc[w] = "init" /\ job[w].spec.type = "istio"
  /\ Fails(w)
  /\ UNCHANGED <<config, secret>>

StoreBeforeInit(w, plugin) ==
  /\ plugins' = [plugins EXCEPT ![job[w].name] = plugin]
  /\ Finish(w)

(* Only a plugin whose Init has succeeded gets into the cache; it takes    *)
(* the place of one that another worker has stored in the meantime.        *)
InitAndStore(w, plugin) ==
  \/ ~InitAccepts(plugin.spec, plugin.token) /\ Fails(w)
  \/ /\ InitAccepts(plugin.spec, plugin.token)
     /\ plugins' = [plugins EXCEPT ![job[w].name] = plugin]
     /\ Finish(w)

Create(w) ==
  /\ pc[w] = "init"
  /\ InitAndStore(w, [spec |-> job[w].spec, token |-> job[w].token])
  /\ UNCHANGED <<config, secret>>

Step(w) == Lookup(w) \/ ReadSecret(w) \/ Create(w)

-----------------------------------------------------------------------------
(* The objects change at any time; the process ends at any time, be it by  *)
(* a concurrent access to one of the maps.                                 *)
EditConfig(c) ==
  /\ \E spec \in Offered[c] \cup {Absent} : config' = [config EXCEPT ![c] = spec]
  /\ UNCHANGED <<secret, plugins, pc, job>>

EditSecret(n) ==
  /\ \E data \in Stored[n] \cup {Absent} : secret' = [secret EXCEPT ![n] = data]
  /\ UNCHANGED <<config, plugins, pc, job>>

Restart ==
  /\ plugins' = [c \in Configs |-> Absent]
  /\ pc' = [w \in Workers |-> "idle"]
  /\ job' = [w \in Workers |-> NoJob]
  /\ UNCHANGED <<config, secret>>

Init ==
  /\ config = [c \in Configs |-> Absent]
  /\ secret = [n \in SecretNames |-> Absent]
  /\ plugins = [c \in Configs |-> Absent]
  /\ pc = [w \in Workers |-> "idle"]
  /\ job = [w \in Workers |-> NoJob]

Next ==
  \/ \E w \in Workers :
       Step(w) \/ ServerUnavailable(w) \/ \E c \in Configs : Call(w, c)
  \/ \E c \in Configs : EditConfig(c)
  \/ \E n \in SecretNames : EditSecret(n)
  \/ Restart

Spec == Init /\ [][Next]_vars

(* A call goes on.  Nothing obliges Reconcile to call: in mode fail a      *)
(* reference that keeps failing keeps it from ever looking up those after  *)
(* it (lines 264, 281 and 297).                                            *)
FairSpec == Spec /\ \A w \in Workers : WF_vars(Step(w))

-----------------------------------------------------------------------------
(* Properties.                                                             *)

(* Types; who is about to call Init has a token exactly if the spec names  *)
(* a Secret.                                                               *)
JobOK(step, j) ==
  /\ step # "idle" => j # NoJob /\ j.spec \in Offered[j.name]
  /\ step \in {"lookup", "secret"} => j.token = Absent
  /\ step = "secret" => SecretRefOf(j.spec) # Absent
  /\ step = "init" => (j.token = Absent <=> SecretRefOf(j.spec) = Absent)

TypeOK ==
  /\ config \in [Configs -> ConfigSpec \cup {Absent}]
  /\ secret \in [SecretNames -> Data \cup {Absent}]
  /\ plugins \in [Configs -> Plugin \cup {Absent}]
  /\ pc \in [Workers -> {"idle", "lookup", "secret", "init"}]
  /\ \A c \in Configs : config[c] \in Offered[c] \cup {Absent}
  /\ \A n \in SecretNames : secret[n] \in Stored[n] \cup {Absent}
  /\ job \in [Workers -> Job \cup {NoJob}]
  /\ \A w \in Workers : JobOK(pc[w], job[w])

(* What a reference to a key of a Secret can mean: the value under it, or  *)
(* the only value if the Secret has one value and that under another key.  *)
Means(data, key, token) ==
  /\ data # Absent
  /\ \/ key \in DOMAIN data /\ token = data[key]
     \/ key \notin DOMAIN data /\ \E k \in Keys : data = [i \in {k} |-> token]

(* However the edits of a config and of its Secret fall between the reads  *)
(* of a creation, or between two creations of the same plugin, no plugin   *)
(* mixes what belongs to different versions: its options are those of one  *)
(* spec of its own config, and its token, if that spec asks for one, is    *)
(* what this spec's reference means in one version of this spec's Secret.  *)
TokenOfItsSecret ==
  \A c \in Configs : plugins[c] # Absent =>
    LET spec == plugins[c].spec  token == plugins[c].token IN
    /\ spec \in Offered[c]
    /\ IF SecretRefOf(spec) = Absent
         THEN token = Absent
         ELSE \E data \in Stored[SecretRefOf(spec)] : Means(data, spec.key, token)

(* No plugin is found in the cache, by any worker, that Init has refused:  *)
(* a Cloudflare ingress that has no token, a GitHub provider whose polling *)
(* interval makes no sense, or one of a type nobody implements.            *)
EntriesAreInitialised ==
  \A c \in Configs : plugins[c] # Absent =>
    LET spec == plugins[c].spec IN
    /\ spec.type \in Registered
    /\ spec.type = "cloudflare" => spec.section /\ plugins[c].token # Absent
    /\ spec.type = "github" => ~spec.section \/ spec.setting \notin Malformed

(* A config from which a plugin can be made, with the Secret as it is.     *)
Creatable(c) ==
  /\ config[c] # Absent
  /\ config[c].type \in Registered
  /\ config[c].type = "cloudflare" => SecretRefOf(config[c]) # Absent
  /\ config[c].type = "github" => ~config[c].section \/ config[c].setting \notin Malformed
  /\ LET n == SecretRefOf(config[c]) IN
     n # Absent => \E token \in Tokens : Means(secret[n], config[c].key, token)

(* A failed creation is not remembered: however often it has failed, once  *)
(* the config is as it should be and its Secret can be read, the plugin is *)
(* made, without a restart, however the Secret and other configs change.   *)
(* All it takes is that some Reconcile asks for it again and again.        *)
Undisturbed(c) ==
  [][config'[c] = config[c] /\ ~Restart /\ \A w \in Workers : ~ServerUnavailable(w)]_vars

AskedForAgain(c) == []<><<\E w \in Workers : Call(w, c)>>_vars

CreationRecovers ==
  \A c \in Configs :
    <>Undisturbed(c) /\ <>[]Creatable(c) /\ AskedForAgain(c) =>
      <>[](plugins[c] # Absent)

(* A plugin that was made is never made again while the process lives, so  *)
(* that no edit reaches it; but a restart is all it takes: once nobody     *)
(* edits the objects any more, what is made after a restart is what they   *)
(* say, and stays so.                                                      *)
RestartRefreshes ==
  <>[][UNCHANGED <<config, secret>>]_vars /\ []<><<Restart>>_vars =>
    <>[](\A c \in Configs : plugins[c] # Absent =>
           LET spec == plugins[c].spec IN
           /\ spec = config[c]
           /\ SecretRefOf(spec) # Absent =>
                Means(secret[SecretRefOf(spec)], spec.key, plugins[c].token))

=============================================================================
