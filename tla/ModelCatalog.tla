---------------------------- MODULE ModelCatalog ----------------------------
(***************************************************************************)
(* The model catalog (config/models.yaml) and its registry: the validation *)
(* of an entry, and the names by which a model can be asked for. A catalog *)
(* is the sequence of its entries; what an entry says of resources, engines*)
(* and serving is left out (ReplicaModes has it).                          *)
(***************************************************************************)
EXTENDS Naturals, Sequences

CONSTANTS
  Names,   \* model names, aliases and served model names
  Paths,   \* model paths
  None     \* an attribute that is not set

ASSUME ModelCatalogAssumption == None \notin Names /\ None \notin Paths

(* No route serves a vlm.                                                   *)
Tasks == {"chat", "embedding", "rerank", "vlm"}

Routes == Tasks \ {"vlm"}

Entries ==
  [name : Names, alias : Names \cup {None}, served : Names \cup {None},
   task : Tasks, backend : {"vllm", "proxy"},
   path : Paths \cup {None}, model_id : BOOLEAN, upstream : BOOLEAN,
   local : BOOLEAN]

(* ModelConfig's validator, as far as it reaches here: a proxied model has *)
(* its proxy_config, any other a path or a model_id.                       *)
ValidEntry(e) ==
  IF e.backend = "proxy" THEN e.upstream ELSE e.path # None \/ e.model_id

-----------------------------------------------------------------------------
(* ModelRegistry.                                                          *)

(* Of several entries that claim a key, the last one has it.               *)
Latest(S) == CHOOSE i \in S : \A j \in S : j <= i

NamedAt(c, n) == {i \in 1..Len(c) : c[i].name = n}

(* _by_name.                                                               *)
Named(c, n) == c[Latest(NamedAt(c, n))]

AliasedAt(c, a) == {i \in 1..Len(c) : a \in {c[i].alias, c[i].served}}

(* _alias_to_name comes before _by_name: an alias may hide a name.         *)
Canonical(c, a) ==
  IF AliasedAt(c, a) # {} THEN c[Latest(AliasedAt(c, a))].name ELSE a

Known(c, a) == NamedAt(c, Canonical(c, a)) # {}

(* ModelRegistry.get, of a name that is Known.                             *)
Get(c, a) == Named(c, Canonical(c, a))

(* ModelRegistry.list_models.                                              *)
Listed(c) == {Named(c, c[i].name) : i \in 1..Len(c)}

(* What /v1/models shows a model as.                                       *)
PublicId(e) ==
  IF e.served # None THEN e.served ELSE IF e.alias # None THEN e.alias ELSE e.name

-----------------------------------------------------------------------------
(* ServeApplicationBuilder and LocalModelStore.                            *)

(* build_specs: the models that are to be deployed, by name.               *)
Plan(c) == {e.name : e \in {d \in Listed(c) : d.backend = "vllm"}}

(* build_runtime_context is given a name and asks the registry again.      *)
Context(c, n) == Get(c, n)

(* resolve_model_reference raises unless there is something to load.       *)
Loadable(e) == e.model_id \/ e.path # None

(* require_model_path raises, with the files there are.                    *)
ArtifactMissing(e, files) ==
  /\ e.local \/ ~e.model_id
  /\ e.path \notin files

(* A variant with a fault: the runtime configurations are not validated.   *)
AcceptedEntries(c) == \A i \in 1..Len(c) : ValidEntry(c[i])

(* load_model_catalog and validate_registry_runtime_configs both pass, or  *)
(* the process that loads the catalog does not come up.                    *)
Accepted(c) ==
  /\ \A i \in 1..Len(c) : ValidEntry(c[i])
  /\ \A n \in Plan(c) : Loadable(Context(c, n))

(* The name of a model is also an alias of another one: who asks for the   *)
(* first is led to the second when the name is resolved once more.         *)
Shadowed(c, a) == Get(c, Get(c, a).name) # Get(c, a)

=============================================================================
