---------------------------- MODULE ModelConfig -----------------------------
(***************************************************************************)
(* What the server reads of a model's config.json and                      *)
(* generation_config.json (model_config_load of src/src/model/model.c) and *)
(* which of it the engine accepts (engine_model_check_supported of         *)
(* src/src/engine/emodel.c).                                               *)
(*                                                                         *)
(* A JSON value is a record with its kind t and, but for null, its value   *)
(* v; an object is a function from the keys that are there.  Numbers with  *)
(* a fraction are in hundredths.  The defaults of numbers that nothing     *)
(* here depends on are 0.  Memory is always available.                     *)
(***************************************************************************)
EXTENDS Integers, Sequences, FiniteSets

CONSTANTS INT_MAX,          \* of the C type
          ID_MAX,           \* UINT32_MAX
          MAX_LAYERS,       \* MLXD_MAX_LAYERS
          MAX_EOS_TOKENS    \* MLXD_MAX_EOS_TOKENS

ASSUME ModelConfigAssumption ==
    {INT_MAX, ID_MAX, MAX_LAYERS, MAX_EOS_TOKENS} \subseteq Nat \ {0}

-----------------------------------------------------------------------------
(* Reading a key: a value of the wrong kind or out of range fails the load *)

Null == [t |-> "null"]
NoKey == [t |-> "absent"]
Get(obj, key) == IF key \in DOMAIN obj THEN obj[key] ELSE NoKey
Is(obj, key, kind) == Get(obj, key).t = kind
Present(obj, key) == key \in DOMAIN obj
Missing(obj, key) == Is(obj, key, "absent") \/ Is(obj, key, "null")

(* get_dim_int, get_int_nonneg, get_f32, get_bool *)
IsIntFrom(lo, obj, key) ==
    Missing(obj, key) \/ (Is(obj, key, "int") /\ obj[key].v \in lo..INT_MAX)
IsDim(obj, key) == IsIntFrom(1, obj, key)
IsNonneg(obj, key) == IsIntFrom(0, obj, key)
IsNumber(obj, key) == Is(obj, key, "int") \/ Is(obj, key, "real")
IsF32(obj, key) == Missing(obj, key) \/ IsNumber(obj, key)
IsBool(obj, key) == Missing(obj, key) \/ Is(obj, key, "bool")

Value(obj, key, def) == IF Missing(obj, key) THEN def ELSE obj[key].v
Hundredths(obj, key, def) ==
    IF Is(obj, key, "int") THEN 100 * obj[key].v ELSE Value(obj, key, def)

Dims == {"vocab_size", "hidden_size", "num_hidden_layers", "num_attention_heads",
         "num_key_value_heads", "max_position_embeddings", "head_dim",
         "query_pre_attn_scalar", "sliding_window_pattern"}
Counts == {"intermediate_size", "num_experts", "num_experts_per_tok", "moe_intermediate_size",
           "shared_expert_intermediate_size", "q_lora_rank", "kv_lora_rank",
           "qk_rope_head_dim", "qk_nope_head_dim", "v_head_dim", "n_routed_experts",
           "n_shared_experts", "moe_layer_freq", "first_k_dense_replace", "n_group",
           "topk_group", "index_head_dim", "index_n_heads", "index_topk",
           "linear_num_key_heads", "linear_num_value_heads", "linear_key_head_dim",
           "linear_value_head_dim", "linear_conv_kernel_dim", "full_attention_interval",
           "global_head_dim", "num_global_key_value_heads", "num_kv_shared_layers",
           "hidden_size_per_layer_input"}
Floats == {"rms_norm_eps", "rope_theta", "routed_scaling_factor", "rope_local_base_freq",
           "final_logit_softcapping"}
Flags == {"norm_topk_prob", "attn_output_gate", "attention_bias", "attention_k_eq_v",
          "use_double_wide_mlp"}

-----------------------------------------------------------------------------
(* Families                                                                *)

FamilyTypes ==
    [gemma3      |-> {"gemma3", "gemma3_text"},
     gemma4      |-> {"gemma4", "gemma4_text", "gemma4_unified", "gemma4_unified_text"},
     qwen2       |-> {"qwen2"},
     qwen3       |-> {"qwen3"},
     qwen3_5     |-> {"qwen3_5", "qwen3_5_text"},
     qwen3_5_moe |-> {"qwen3_5_moe", "qwen3_5_moe_text"},
     llama       |-> {"llama"},
     mistral     |-> {"mistral"},
     lfm2        |-> {"lfm2", "lfm2_vl", "lfm2_audio"},     \* by the prefix
     nemotron_h  |-> {"nemotron_h"},
     deepseek_v3 |-> {"deepseek_v3"},
     deepseek_v32 |-> {"deepseek_v3_2", "deepseek_v32"},
     deepseek_v4 |-> {"deepseek_v4"},
     bert        |-> {"bert"}]

model_family_from_type(type) ==
    LET fits == {f \in DOMAIN FamilyTypes : type \in FamilyTypes[f]}
    IN  IF fits = {} THEN "unknown" ELSE CHOOSE f \in fits : TRUE

Gemmas == {"gemma3", "gemma4"}
Deepseeks == {"deepseek_v3", "deepseek_v32", "deepseek_v4"}
LlamaStyle == {"qwen2", "qwen3", "llama", "mistral", "unknown"} \cup Deepseeks

(* The family the load ends with: a dense qwen3_5 has no experts. *)
Experts(obj) ==
    IF Value(obj, "num_experts", 0) = 0 THEN Value(obj, "n_routed_experts", 0)
                                        ELSE Value(obj, "num_experts", 0)
FamilyOf(type, obj) ==
    LET f == model_family_from_type(type)
    IN  IF f = "qwen3_5" /\ Experts(obj) > 0 THEN "qwen3_5_moe" ELSE f

-----------------------------------------------------------------------------
(* What config.json must be                                                *)

(* text_config, if it is an object, in place of the root. *)
HasText(root) == Is(root, "text_config", "obj")
TextOf(root) == IF HasText(root) THEN root.text_config.v ELSE root

RopeScalingOk(obj) ==
    \/ Missing(obj, "rope_scaling")
    \/ /\ Is(obj, "rope_scaling", "obj")
       /\ LET rs == obj.rope_scaling.v
              type == IF Present(rs, "rope_type") THEN "rope_type" ELSE "type"
          IN  /\ ~Present(rs, type) \/ Is(rs, type, "str")
              /\ \A k \in {"factor", "low_freq_factor", "high_freq_factor", "mscale_all_dim"} :
                    IsF32(rs, k)
              /\ IsNonneg(rs, "original_max_position_embeddings")

(* The blocks of rope_parameters for the two kinds of layers: without      *)
(* either, its own keys count.                                             *)
Block(obj, name) ==
    IF Is(obj, "rope_parameters", "obj") /\ Is(obj.rope_parameters.v, name, "obj")
    THEN obj.rope_parameters.v[name].v ELSE <<>>
HasBlock(obj, name) ==
    Is(obj, "rope_parameters", "obj") /\ Is(obj.rope_parameters.v, name, "obj")
Nested(obj) == HasBlock(obj, "full_attention") \/ HasBlock(obj, "sliding_attention")
Flat(obj) ==
    IF Is(obj, "rope_parameters", "obj") /\ ~Nested(obj) THEN obj.rope_parameters.v ELSE <<>>
Proportional(obj) ==
    LET fa == Block(obj, "full_attention")
    IN  Is(fa, "rope_type", "str") /\ fa.rope_type.v = "proportional"

RopeParametersOk(obj) ==
    LET fa == Block(obj, "full_attention") IN
    /\ Missing(obj, "rope_parameters") \/ Is(obj, "rope_parameters", "obj")
    /\ IsF32(fa, "rope_theta") /\ IsF32(fa, "partial_rotary_factor")
    /\ Proportional(obj) => IsF32(fa, "factor")
    /\ IsF32(Block(obj, "sliding_attention"), "rope_theta")
    /\ IsF32(Flat(obj), "rope_theta") /\ IsF32(Flat(obj), "partial_rotary_factor")

LayerTypesOk(obj) ==
    \/ Missing(obj, "layer_types")
    \/ /\ Is(obj, "layer_types", "arr")
       /\ \A i \in DOMAIN obj.layer_types.v :
             i <= MAX_LAYERS => obj.layer_types.v[i].t = "str"

QuantizationOk(root) ==
    \/ Missing(root, "quantization")
    \/ /\ Is(root, "quantization", "obj")
       /\ LET qn == root.quantization.v IN
          /\ IsNonneg(qn, "bits") /\ IsNonneg(qn, "group_size")
          /\ Present(qn, "mode") => Is(qn, "mode", "str") /\ qn.mode.v = "affine"

IsId(v) == v.t = "int" /\ v.v \in 0..ID_MAX
EosOk(v) ==
    /\ v.t = "int" => IsId(v)
    /\ v.t = "arr" => \A i \in DOMAIN v.v : IsId(v.v[i])

(* The keys that only some families read. *)
HiddenActOk(obj) == ~Present(obj, "hidden_act") \/ Is(obj, "hidden_act", "str")
Lfm2KeysOk(obj) ==
    /\ Present(obj, "tie_embedding") => Is(obj, "tie_embedding", "bool")
    /\ Present(obj, "norm_eps") => Present(obj, "rms_norm_eps") \/ IsNumber(obj, "norm_eps")
    /\ IsNonneg(obj, "conv_dim") /\ IsNonneg(obj, "conv_L_cache")
NemotronKeysOk(obj) ==
    /\ \A k \in {"mamba_num_heads", "mamba_head_dim", "n_groups", "ssm_state_size",
                 "conv_kernel", "expand", "chunk_size"} : IsNonneg(obj, k)
    /\ Present(obj, "time_step_limit") =>
          /\ Is(obj, "time_step_limit", "arr")
          /\ LET s == obj.time_step_limit.v IN
             Len(s) >= 2 => {s[1].t, s[2].t} \subseteq {"int", "real"}
    /\ Present(obj, "hybrid_override_pattern") => Is(obj, "hybrid_override_pattern", "str")
BertKeysOk(obj) ==
    /\ IsF32(obj, "layer_norm_eps")
    /\ Missing(obj, "type_vocab_size") \/ Is(obj, "type_vocab_size", "int")

FamilyKeysOk(family, obj) ==
    /\ family \in LlamaStyle \cup {"gemma4"} => HiddenActOk(obj)
    /\ family = "lfm2" => Lfm2KeysOk(obj)
    /\ family = "nemotron_h" => NemotronKeysOk(obj)
    /\ family = "bert" => BertKeysOk(obj)

(* config.json is an object the load does not fail on.  An explicit null   *)
(* is no tie_word_embeddings in a text_config, and no hidden_act.          *)
Loads(root) ==
    LET obj == TextOf(root) IN
    /\ Is(root, "model_type", "str")
    /\ \A k \in Dims : IsDim(obj, k)
    /\ \A k \in Counts : IsNonneg(obj, k)
    /\ \A k \in Floats : IsF32(obj, k)
    /\ \A k \in Flags : IsBool(obj, k)
    /\ IsNonneg(obj, "top_k_experts")
    /\ Value(obj, "num_hidden_layers", 0) <= MAX_LAYERS
    /\ IsNonneg(obj, "sliding_window")
    /\ RopeScalingOk(obj) /\ RopeParametersOk(obj) /\ LayerTypesOk(obj) /\ QuantizationOk(root)
    /\ IsBool(root, "tie_word_embeddings")
    /\ HasText(root) /\ Present(obj, "tie_word_embeddings") => Is(obj, "tie_word_embeddings", "bool")
    /\ HasText(root) /\ Value(obj, "max_position_embeddings", 0) = 0 =>
          IsDim(root, "max_position_embeddings")
    /\ EosOk(Get(root, "eos_token_id")) /\ EosOk(Get(obj, "eos_token_id"))
    /\ FamilyKeysOk(model_family_from_type(root.model_type.v), obj)
-----------------------------------------------------------------------------
(* What it makes of them                                                   *)

Dim(obj, key) == Value(obj, key, 0)

(* Without a number of its own the attention has the default of its        *)
(* family; bert's is not asked.  A key that is there, also as null, has    *)
(* no default but 0.                                                       *)
Heads(family, obj) ==
    IF family = "gemma3" /\ ~Present(obj, "num_attention_heads") THEN 8
    ELSE Dim(obj, "num_attention_heads")

KvHeads(family, obj) ==
    IF family = "bert" THEN Heads(family, obj)
    ELSE IF family = "gemma3" /\ ~Present(obj, "num_key_value_heads") THEN 4
    ELSE Value(obj, "num_key_value_heads", Dim(obj, "num_attention_heads"))

HeadDim(family, obj) ==
    LET given == Dim(obj, "head_dim")
        divides == \/ family \in LlamaStyle \cup {"qwen3_5", "qwen3_5_moe"}
                      /\ ~Present(obj, "head_dim")
                   \/ family = "lfm2" /\ given = 0
                   \/ family = "bert"
    IN  IF family = "gemma3" /\ ~Present(obj, "head_dim") THEN 256
        ELSE IF divides /\ Dim(obj, "num_attention_heads") > 0
             THEN Dim(obj, "hidden_size") \div Dim(obj, "num_attention_heads")
        ELSE given

QueryScalar(family, obj) ==
    IF family \in {"lfm2", "nemotron_h", "bert"} \/ ~Present(obj, "query_pre_attn_scalar")
    THEN HeadDim(family, obj) ELSE Dim(obj, "query_pre_attn_scalar")

(* An integer turns the window on, null off; without the key the gemmas    *)
(* have one, and families that know none turn it off.                      *)
HasWindow(family, obj) ==
    /\ family \notin {"qwen3_5", "qwen3_5_moe", "lfm2", "nemotron_h", "bert"}
    /\ Is(obj, "sliding_window", "int") \/ (family \in Gemmas /\ ~Present(obj, "sliding_window"))

WindowOf(family, obj) ==
    IF family \in Gemmas /\ ~Present(obj, "sliding_window") THEN 1024
    ELSE Value(obj, "sliding_window", 0)

Pattern(family, obj) ==
    IF family = "gemma3" /\ ~Present(obj, "sliding_window_pattern") THEN 6
    ELSE Dim(obj, "sliding_window_pattern")

(* layer_is_global: only "full_attention" is, and layers past the end of   *)
(* the list are not.                                                       *)
GlobalLayers(obj) ==
    IF ~Is(obj, "layer_types", "arr") THEN {}
    ELSE LET types == obj.layer_types.v IN
         {i \in 0..(Len(types) - 1) : i < MAX_LAYERS /\ types[i + 1].v = "full_attention"}

(* hidden_act is read for three kinds of families, and an unknown one is   *)
(* ignored; a deepseek has silu in any case.                               *)
HiddenAct(family, obj) ==
    LET default == IF family \in Gemmas \cup {"bert"} THEN "gelu" ELSE "silu"
        reads == family \in (LlamaStyle \ Deepseeks) \cup {"gemma4"}
        named == IF Is(obj, "hidden_act", "str") THEN obj.hidden_act.v ELSE "none"
    IN  CASE reads /\ named = "silu" -> "silu"
          [] reads /\ named = "gelu_pytorch_tanh" -> "gelu"
          [] OTHER -> default

RopeType(obj) ==
    IF ~Is(obj, "rope_scaling", "obj") THEN "none"
    ELSE LET rs == obj.rope_scaling.v IN
         IF Present(rs, "rope_type") THEN rs.rope_type.v
         ELSE IF Present(rs, "type") THEN rs.type.v ELSE "none"

RopeScaling(obj, key, def) ==
    IF Is(obj, "rope_scaling", "obj") THEN Hundredths(obj.rope_scaling.v, key, def) ELSE def

RopeFactor(family, obj) ==
    LET read == RopeScaling(obj, "factor", 100) IN
    CASE family \in {"gemma4", "qwen3_5", "qwen3_5_moe", "lfm2", "nemotron_h"} -> 100
      [] family = "gemma3" /\ read = 100
         /\ ~(Is(obj, "rope_scaling", "obj") /\ Present(obj.rope_scaling.v, "factor")) -> 800
      [] OTHER -> read

(* The embeddings are tied if the text_config says so, or else the root;   *)
(* three families do not ask.                                              *)
Tied(family, root, obj) ==
    CASE family \in {"gemma3", "bert"} -> TRUE
      [] family = "lfm2" -> Value(obj, "tie_embedding", TRUE)
      [] OTHER -> Value(obj, "tie_word_embeddings", Value(root, "tie_word_embeddings", FALSE))

Prefix(family, root) ==
    CASE family = "gemma4" -> "language_model.model"
      [] family \in {"gemma3", "qwen3_5", "qwen3_5_moe", "lfm2"} /\ HasText(root) ->
            "language_model.model"
      [] family = "nemotron_h" -> "backbone"
      [] family = "bert" -> ""
      [] OTHER -> "model"

(* add_eos: once each, and no more than there is room for. *)
AddEos(ids, id) ==
    IF (\E i \in DOMAIN ids : ids[i] = id) \/ Len(ids) >= MAX_EOS_TOKENS THEN ids
    ELSE Append(ids, id)
AddAllEos(ids) ==
    LET upTo[i \in 0..Len(ids)] == IF i = 0 THEN <<>> ELSE AddEos(upTo[i - 1], ids[i])
    IN  upTo[Len(ids)]

(* parse_eos_value: an id, or a list of them, up to the first that is none.*)
EosIn(v) ==
    CASE v.t = "int" /\ IsId(v) -> <<v.v>>
      [] v.t = "arr" ->
            LET bad == {i \in DOMAIN v.v : ~IsId(v.v[i])}
                good == {i \in DOMAIN v.v : \A j \in bad : i < j}
            IN  [i \in good |-> v.v[i].v]
      [] OTHER -> <<>>

(* The ids of config.json, root first, the terminators of the gemmas,      *)
(* those of generation_config.json.                                        *)
EosTokens(family, root, obj, generation) ==
    AddAllEos(EosIn(Get(root, "eos_token_id"))
              \o (IF HasText(root) THEN EosIn(Get(obj, "eos_token_id")) ELSE <<>>)
              \o (IF family \in Gemmas THEN <<1, 106>> ELSE <<>>)
              \o EosIn(Get(generation, "eos_token_id")))

(* parse_generation_config: values out of range are dropped one by one. *)
InRange(obj, key, kinds, low, high) ==
    IF Get(obj, key).t \in kinds /\ Hundredths(obj, key, 0) \in low..high
    THEN {Hundredths(obj, key, 0)} ELSE {}
GenerationDefaults(generation) ==
    [temperature |-> InRange(generation, "temperature", {"int", "real"}, 0, 200),
     top_p       |-> InRange(generation, "top_p", {"int", "real"}, 1, 100),
     top_k       |-> InRange(generation, "top_k", {"int"}, 100, 100000)]

(* model_config_load of a directory whose config.json Loads: a             *)
(* generation_config.json that is missing or no object is <<>>.            *)
ModelConfigLoad(root, generation) ==
    LET obj == TextOf(root)
        family == FamilyOf(root.model_type.v, obj)
        fa == Block(obj, "full_attention")
    IN  [family     |-> family,
         prefix     |-> Prefix(family, root),
         layers     |-> Dim(obj, "num_hidden_layers"),
         heads      |-> Heads(family, obj),
         kv_heads   |-> KvHeads(family, obj),
         head_dim   |-> HeadDim(family, obj),
         query_pre_attn_scalar |-> QueryScalar(family, obj),
         sliding    |-> HasWindow(family, obj),
         window     |-> WindowOf(family, obj),
         pattern    |-> Pattern(family, obj),
         explicit   |-> Is(obj, "layer_types", "arr"),
         global     |-> GlobalLayers(obj),
         shared     |-> Value(obj, "num_kv_shared_layers", 0),
         global_head_dim |-> Value(obj, "global_head_dim", 0),
         global_kv_heads |-> Value(obj, "num_global_key_value_heads", 0),
         k_eq_v     |-> Value(obj, "attention_k_eq_v", FALSE),
         experts    |-> Experts(obj),
         linear     |-> {Value(obj, "linear_num_key_heads", 0),
                         Value(obj, "linear_num_value_heads", 0)} # {0},
         interval   |-> Value(obj, "full_attention_interval", 0),
         double_wide |-> Value(obj, "use_double_wide_mlp", FALSE),
         bias       |-> IF family = "qwen2" /\ ~Present(obj, "attention_bias") THEN TRUE
                        ELSE Value(obj, "attention_bias", FALSE),
         gate       |-> IF family \in {"qwen3_5", "qwen3_5_moe"} /\ ~Present(obj, "attn_output_gate")
                        THEN TRUE ELSE Value(obj, "attn_output_gate", FALSE),
         hidden_act |-> HiddenAct(family, obj),
         norm_has_offset |-> family = "gemma3",
         scale_embeddings |-> family \in Gemmas,
         has_pre_ff_norm |-> family \in Gemmas,
         has_qk_norm |-> family \in Gemmas \cup {"qwen3", "qwen3_5", "qwen3_5_moe", "lfm2"},
         has_v_norm |-> family = "gemma4",
         hybrid     |-> family \in {"lfm2", "nemotron_h"},
         rope       |-> [type   |-> RopeType(obj),
                         factor |-> RopeFactor(family, obj),
                         low    |-> RopeScaling(obj, "low_freq_factor", 100),
                         high   |-> RopeScaling(obj, "high_freq_factor", 100),
                         length |-> IF Is(obj, "rope_scaling", "obj")
                                    THEN Value(obj.rope_scaling.v, "original_max_position_embeddings", 0)
                                    ELSE 0],
         partial    |-> Hundredths(Flat(obj), "partial_rotary_factor", 100),
         partial_global |-> Hundredths(fa, "partial_rotary_factor", 100),
         proportional |-> Proportional(obj),
         proportional_factor |-> IF Proportional(obj) THEN Hundredths(fa, "factor", 100) ELSE 100,
         softcap    |-> Hundredths(obj, "final_logit_softcapping", IF family = "gemma4" THEN 3000 ELSE 0),
         per_layer_input |-> Value(obj, "hidden_size_per_layer_input", IF family = "gemma4" THEN 256 ELSE 0),
         tied       |-> Tied(family, root, obj),
         quant      |-> IF Is(root, "quantization", "obj")
                        THEN [bits  |-> Value(root.quantization.v, "bits", 0),
                              group |-> Value(root.quantization.v, "group_size", 64)]
                        ELSE [bits |-> 0, group |-> 64],
         eos        |-> EosTokens(family, root, obj, generation),
         generation |-> GenerationDefaults(generation)]

(* sampling_resolve: what a request sets, or else the model, or else the   *)
(* default: temperature 1, all tokens, no seed.                            *)
sampling_resolve(request, c) ==
    LET pick(key, def) ==
            IF key \in DOMAIN request THEN request[key]
            ELSE IF key \in DOMAIN c.generation /\ c.generation[key] # {}
            THEN CHOOSE v \in c.generation[key] : TRUE ELSE def
    IN  [temperature |-> pick("temperature", 100), top_p |-> pick("top_p", 100),
         top_k |-> pick("top_k", -100), min_p |-> pick("min_p", 0), seed |-> pick("seed", -1)]

-----------------------------------------------------------------------------
(* model_layer_*: what a layer has                                         *)

model_layer_is_global(c, L) ==
    IF c.explicit THEN L \in c.global
    ELSE ~c.sliding \/ (c.pattern > 0 /\ L % c.pattern = c.pattern - 1)

model_layer_head_dim(c, L) ==
    IF c.global_head_dim > 0 /\ model_layer_is_global(c, L) THEN c.global_head_dim ELSE c.head_dim

model_layer_kv_heads(c, L) ==
    IF c.k_eq_v /\ c.global_kv_heads > 0 /\ model_layer_is_global(c, L)
    THEN c.global_kv_heads ELSE c.kv_heads

model_layer_kv_shared(c, L) == c.shared > 0 /\ L >= c.layers - c.shared

model_kv_source_layer(c, L) ==
    LET same == {i \in 0..(c.layers - c.shared - 1) :
                    model_layer_is_global(c, i) = model_layer_is_global(c, L)}
    IN  IF model_layer_kv_shared(c, L) /\ same # {}
        THEN CHOOSE i \in same : \A j \in same : j <= i ELSE -1

-----------------------------------------------------------------------------
(* engine_model_check_supported                                            *)

(* reject_dense_common, but for the three rules a family may be exempt of. *)
Dense(c) ==
    /\ ~c.bias /\ c.experts = 0 /\ ~c.hybrid /\ c.hidden_act = "silu"
    /\ ~c.norm_has_offset /\ ~c.scale_embeddings /\ ~c.has_pre_ff_norm

SupportedQwen3(c) == Dense(c) /\ ~c.sliding /\ c.partial = 100 /\ ~c.gate /\ c.rope.type = "none"

SupportedLlama(c) ==
    /\ Dense(c) /\ ~c.sliding /\ c.partial = 100 /\ ~c.gate /\ ~c.has_qk_norm
    /\ c.rope.type \in {"none", "linear", "llama3", "default"}
    /\ c.rope.type = "llama3" =>
          c.rope.factor > 0 /\ c.rope.length > 0 /\ c.rope.low > 0 /\ c.rope.high > c.rope.low

SupportedMistral(c) ==
    Dense(c) /\ c.partial = 100 /\ ~c.gate /\ ~c.has_qk_norm /\ c.rope.type = "none"

SupportedGemma4(c) ==
    /\ c.experts = 0 /\ ~c.double_wide /\ c.hidden_act = "gelu"
    /\ c.shared < c.layers
    /\ c.proportional => c.proportional_factor > 0
    /\ c.partial_global \in 1..100 /\ c.partial = 100
    /\ \A L \in 0..(c.layers - 1) : model_layer_kv_shared(c, L) => model_kv_source_layer(c, L) >= 0

SupportedQwen3_5(c) ==
    LET rope_dims == (c.head_dim * c.partial) \div 100 IN
    /\ Dense(c) /\ ~c.sliding /\ c.gate /\ ~c.linear
    /\ c.explicit => 0..(c.layers - 1) \subseteq c.global
    /\ c.partial \in 1..100
    /\ rope_dims >= 2 /\ rope_dims % 2 = 0
    /\ c.interval <= 1
    /\ c.rope.type = "none"

engine_model_check_supported(c) ==
    \/ c.family = "qwen3" /\ SupportedQwen3(c)
    \/ c.family = "llama" /\ SupportedLlama(c)
    \/ c.family = "mistral" /\ SupportedMistral(c)
    \/ c.family = "gemma4" /\ SupportedGemma4(c)
    \/ c.family = "qwen3_5" /\ SupportedQwen3_5(c)
=============================================================================
