-------------------------- MODULE ConfigResolution --------------------------
(* How the configuration of one invocation is put together: in-code          *)
(* defaults, project defaults, the local file, a selected retrieval profile  *)
(* and the environment, each merged over the one before it, and what of the  *)
(* result a profile or a provenance record keeps.                            *)
(*                                                                           *)
(* Abstracted: of the retrieval settings one scalar (an indexing salt), the  *)
(* provider, and the provider's nested block with one plain field and its    *)
(* secret.  Paths of the runtime and fields that no profile keeps are left   *)
(* out, and with them the command line's own layer, which sets only those.   *)
(* A stable id is the canonical content that it hashes.                      *)
CONSTANTS
    Salt, Model, Provider,
    NoSalt, DefaultModel,  \* in-code defaults
    LocalHash,             \* the one provider that is implemented
    Key,                   \* an API key
    Unset,                 \* a layer does not have the field
    Empty,                 \* an environment variable is set to nothing
    Null,
    Invalid                \* configuration_invalid

ASSUME DefaultsAssumption == NoSalt \in Salt /\ DefaultModel \in Model /\ LocalHash \in Provider

\* embedding_providers.local_hash in a layer.
Block == [model : Model \cup {Unset}, key : {Key, Null, Unset}]

Layer == [salt : Salt \cup {Unset}, provider : Provider \cup {Null, Unset},
          hash : Block \cup {Null, Unset}]

\* What a profile or a provenance record keeps: no secret, and the block of the
\* selected provider only.
Payload == [salt : Salt, provider : Provider \cup {Null}, model : Model \cup {Null}]

Config == [salt : Salt, provider : Provider \cup {Null}, model : Model, key : {Key, Null}]

ASSUME MarkersAssumption ==
    /\ {Unset, Empty, Null} \cap (Salt \cup Model \cup Provider \cup {Key}) = {}
    /\ Unset # Null /\ Unset # Empty /\ Null # Empty
    /\ Unset \notin Block /\ Null \notin Payload

Defaults == [salt |-> NoSalt, provider |-> Null, hash |-> [model |-> DefaultModel, key |-> Null]]
NoLayer == [salt |-> Unset, provider |-> Unset, hash |-> Unset]

Over(value, base) == IF value = Unset THEN base ELSE value

\* Only a table is merged into a table; anything else replaces what was there.
MergeBlock(base, block) ==
    IF block = Unset THEN base
    ELSE IF base = Null \/ block = Null THEN block
    ELSE [model |-> Over(block.model, base.model), key |-> Over(block.key, base.key)]

Merge(base, layer) ==
    [salt |-> Over(layer.salt, base.salt), provider |-> Over(layer.provider, base.provider),
     hash |-> MergeBlock(base.hash, layer.hash)]

\* A file has no null, and may have the model at its old place; the new one wins.
File == [settings : {layer \in Layer : layer.hash # Null}, legacy : Model \cup {Unset}]
Migrate(file) ==
    IF file.legacy = Unset THEN file.settings
    ELSE IF file.settings.hash = Unset
    THEN [file.settings EXCEPT !.hash = [model |-> file.legacy, key |-> Unset]]
    ELSE [file.settings EXCEPT !.hash.model = Over(@, file.legacy)]

\* An empty variable clears a provider, a model or a key; an empty salt is ignored.
Environment == [salt : Salt \cup {Empty, Unset}, provider : Provider \cup {Empty, Unset},
                model : Model \cup {Empty, Unset}, key : {Key, Empty, Unset}]
NoEnvironment == [salt |-> Unset, provider |-> Unset, model |-> Unset, key |-> Unset]
Cleared(value, cleared) == IF value = Empty THEN cleared ELSE value
EnvironmentLayer(env) ==
    [salt |-> Cleared(env.salt, Unset), provider |-> Cleared(env.provider, Null),
     hash |-> IF env.model = Unset /\ env.key = Unset THEN Unset
              ELSE [model |-> Cleared(env.model, DefaultModel), key |-> Cleared(env.key, Null)]]

\* A payload without a provider has a block that is null, not one that is missing.
ProfileLayer(payload) ==
    [salt |-> payload.salt, provider |-> payload.provider,
     hash |-> IF payload.model = Null THEN Null ELSE [model |-> payload.model, key |-> Unset]]

SecretInProject(project) ==
    LET hash == Migrate(project).hash IN hash \notin {Unset, Null} /\ hash.key = Key

\* Validation: the block must be there, and what it lacks takes the defaults.
Validated(merged) ==
    IF merged.hash = Null THEN Invalid
    ELSE [salt |-> merged.salt, provider |-> merged.provider,
          model |-> Over(merged.hash.model, DefaultModel), key |-> Over(merged.hash.key, Null)]

\* Mutant: a profile is merged before the local file.
LoadProfileFirst(project, local, profile, env) ==
    LET selected == IF profile = Null THEN NoLayer ELSE ProfileLayer(profile) IN
    IF SecretInProject(project) THEN Invalid
    ELSE Validated(Merge(Merge(Merge(Merge(Defaults, Migrate(project)), selected),
                               Migrate(local)),
                         EnvironmentLayer(env)))

\* load_app_config
Load(project, local, profile, env) ==
    LET selected == IF profile = Null THEN NoLayer ELSE ProfileLayer(profile) IN
    IF SecretInProject(project) THEN Invalid
    ELSE Validated(Merge(Merge(Merge(Merge(Defaults, Migrate(project)), Migrate(local)),
                               selected),
                         EnvironmentLayer(env)))

\* The effective configuration as a payload; its id is its content.
Effective(config) ==
    [salt |-> config.salt, provider |-> config.provider,
     model |-> IF config.provider = LocalHash THEN config.model ELSE Null]

\* Only the implemented provider, or none, can be saved.
Savable(config) == config.provider \in {Null, LocalHash}

\* build_configuration_reuse_lineage: of a selected profile or Null.
ReuseKind(profile, config) ==
    IF profile = Null THEN "ad_hoc"
    ELSE IF profile = Effective(config) THEN "profile_reuse" ELSE "modified_profile_reuse"
=============================================================================
