------------------------------- MODULE Weights -------------------------------
(***************************************************************************)
(* The tensors of a model: which files of its directory are read and what  *)
(* they must hold (weights_load of src/src/model/weights.c), and which     *)
(* tensors a forward asks for (forward.c, model_forward of emodel.c).      *)
(*                                                                         *)
(* A directory d has                                                       *)
(*   index   of model.safetensors.index.json: t is "absent", "invalid" (no *)
(*           weight_map in it) or "map", with v from tensors to file names *)
(*   files   from the names of regular files to what they hold, from       *)
(*           tensors to the kind of their elements                         *)
(*   broken  those of the files that cannot be loaded                      *)
(* A tensor is a name with a part; a name says the layer it is of, or Root.*)
(* The shape of a tensor is left to the kernels.                           *)
(***************************************************************************)
EXTENDS ModelConfig

CONSTANTS Safetensors,   \* file names that end in .safetensors
          Escaping       \* file names with a slash or two dots in front

Single == "model.safetensors"
NoString == "no string"   \* an entry of weight_map that names no file

Root == -1
weights_tensor_name(c, L, suffix) == [prefix |-> c.prefix, layer |-> L, suffix |-> suffix]
LmHead == [prefix |-> "", layer |-> Root, suffix |-> "lm_head"]
HeadNames(c) == IF c.tied THEN {} ELSE {LmHead}
NamesOf(c, L, suffixes) == {weights_tensor_name(c, L, s) : s \in suffixes}
Part(name, part) == [name |-> name, part |-> part]
Parts(names, part) == {Part(name, part) : name \in names}

-----------------------------------------------------------------------------
(* weights_enumerate_shards, and the merge of their tensors                *)

Named(d) == {d.index.v[k] : k \in DOMAIN d.index.v} \ {NoString}

(* An index that is there is not passed over, however broken it is. *)
Shards(d) ==
    CASE d.index.t = "invalid" -> {}
      [] d.index.t = "map" ->
            IF Named(d) \subseteq Safetensors \ Escaping THEN Named(d) ELSE {}
      [] d.index.t = "absent" ->
            IF Single \in DOMAIN d.files THEN {Single} ELSE DOMAIN d.files \cap Safetensors

Merges(d) ==
    /\ Shards(d) # {} /\ Shards(d) \subseteq DOMAIN d.files \ d.broken
    /\ \A f, g \in Shards(d) : f # g => DOMAIN d.files[f] \cap DOMAIN d.files[g] = {}

Merged(d) ==
    [k \in UNION {DOMAIN d.files[f] : f \in Shards(d)} |->
        d.files[CHOOSE f \in Shards(d) : k \in DOMAIN d.files[f]][k]]

-----------------------------------------------------------------------------
(* weights_expected_names                                                  *)

Attn == {"self_attn.q_proj", "self_attn.o_proj"}
Mlp == {"mlp.gate_proj", "mlp.up_proj", "mlp.down_proj"}
LayerNorms == {"input_layernorm", "post_attention_layernorm"}
FfNorms == {"pre_feedforward_layernorm", "post_feedforward_layernorm"}

(* What is expected of layer L, by kind.                                   *)
DenseLayer(c, L) ==
    [matmul |-> Attn \cup {"self_attn.k_proj", "self_attn.v_proj"} \cup Mlp,
     norm   |-> LayerNorms
                \cup (IF c.has_qk_norm THEN {"self_attn.q_norm", "self_attn.k_norm"} ELSE {}),
     bare   |-> {}]

\* Mutant: the values of local layers, too.
KeysAreValuesAnywhere(c, L) == c.k_eq_v

(* A global layer may use its keys as values. *)
KeysAreValues(c, L) == c.k_eq_v /\ model_layer_is_global(c, L)

Gemma4Layer(c, L) ==
    LET shared == model_layer_kv_shared(c, L)
        per_layer == c.per_layer_input > 0
    IN  [matmul |-> Attn \cup Mlp
                    \cup (IF shared THEN {} ELSE {"self_attn.k_proj"})
                    \cup (IF shared \/ KeysAreValues(c, L) THEN {} ELSE {"self_attn.v_proj"})
                    \cup (IF per_layer THEN {"per_layer_input_gate", "per_layer_projection"}
                                       ELSE {}),
         norm   |-> LayerNorms \cup {"self_attn.q_norm"}
                    \cup (IF c.has_pre_ff_norm THEN FfNorms ELSE {})
                    \cup (IF shared THEN {} ELSE {"self_attn.k_norm"})
                    \cup (IF per_layer THEN {"post_per_layer_input_norm"} ELSE {}),
         bare   |-> {"layer_scalar"}]

ExpectedOfLayer(c, L) == IF c.family = "gemma4" THEN Gemma4Layer(c, L) ELSE DenseLayer(c, L)

Kinds == {"matmul", "norm", "bare"}

(* Pairs of a name and its kind; an embedding is checked as a matmul is.   *)
(* No other family has a strict set.                                       *)
ExpectedOfRoot(c) ==
    LET per_layer == c.family = "gemma4" /\ c.per_layer_input > 0
    IN  [matmul |-> {"embed_tokens"}
                    \cup (IF per_layer THEN {"embed_tokens_per_layer", "per_layer_model_projection"}
                                       ELSE {}),
         norm   |-> {"norm"} \cup (IF per_layer THEN {"per_layer_projection_norm"} ELSE {}),
         bare   |-> {}]

Expects(c, L, expected) ==
    UNION {NamesOf(c, L, expected[kind]) \X {kind} : kind \in Kinds}

ExpectedNames(c) ==
    IF c.family \notin {"qwen3", "qwen3_5", "llama", "mistral", "gemma4"} THEN {}
    ELSE Expects(c, Root, ExpectedOfRoot(c)) \cup (HeadNames(c) \X {"matmul"})
         \cup (UNION {Expects(c, L, ExpectedOfLayer(c, L)) : L \in 0..(c.layers - 1)})

-----------------------------------------------------------------------------
(* weights_validate, of the merged tensors m                               *)

IsFloat(m, k) == k \in DOMAIN m /\ m[k] = "float"

ExpectedOk(m, c, name, kind) ==
    LET weight == Part(name, "weight") IN
    CASE kind = "bare"   -> IsFloat(m, Part(name, ""))
      [] kind = "norm"   -> IsFloat(m, weight)
      [] kind = "matmul" ->
            \/ IsFloat(m, weight)
            \/ /\ weight \in DOMAIN m /\ m[weight] = "uint32"
               /\ c.quant.bits > 0
               /\ IsFloat(m, Part(name, "scales")) /\ IsFloat(m, Part(name, "biases"))

(* A quantized model has quantized weights, and whatever has scales is one.*)
QuantizedOk(m, c) ==
    LET scaled == {name \in {k.name : k \in DOMAIN m} :
                      {Part(name, "scales"), Part(name, "weight")} \subseteq DOMAIN m}
    IN  c.quant.bits > 0 =>
            scaled # {} /\ \A name \in scaled : m[Part(name, "weight")] = "uint32"

NoOrphan(m) ==
    \A k \in DOMAIN m : k.part \in {"scales", "biases"} =>
        {Part(k.name, p) : p \in {"weight", "scales", "biases"}} \subseteq DOMAIN m

Covers(m, c) ==
    /\ \A L \in 0..(c.layers - 1) :
          \E k \in DOMAIN m : k.name.prefix = c.prefix /\ k.name.layer = L
    /\ c.layers > 0 => Part(weights_tensor_name(c, Root, "embed_tokens"), "weight") \in DOMAIN m

weights_load(d, c) ==
    /\ c.family \notin Deepseeks
    /\ Merges(d)
    /\ LET m == Merged(d) IN
       /\ d.index.t = "map" => DOMAIN d.index.v \subseteq DOMAIN m
       /\ Covers(m, c) /\ QuantizedOk(m, c) /\ NoOrphan(m)
       /\ \A e \in ExpectedNames(c) : ExpectedOk(m, c, e[1], e[2])

-----------------------------------------------------------------------------
(* What a forward with logits asks for: projections by weights_get_triplet,*)
(* the rest by weights_get.                                                *)

(* fwd_attention: a layer with a source has no keys and values of its own. *)
AttentionTriplets(c, L) ==
    Attn \cup (IF model_kv_source_layer(c, L) >= 0 THEN {}
               ELSE {"self_attn.k_proj"}
                    \cup (IF c.k_eq_v /\ model_layer_is_global(c, L) THEN {}
                          ELSE {"self_attn.v_proj"}))
AttentionVectors(c, L) ==
    IF ~c.has_qk_norm THEN {}
    ELSE {"self_attn.q_norm"}
         \cup (IF model_kv_source_layer(c, L) >= 0 THEN {} ELSE {"self_attn.k_norm"})

(* fwd_ple_apply and fwd_ple_inputs: the embeddings per layer. *)
PleTriplets(c) ==
    IF c.per_layer_input > 0 THEN {"per_layer_input_gate", "per_layer_projection"} ELSE {}
PleRoot(c) ==
    IF c.per_layer_input > 0 THEN {"embed_tokens_per_layer", "per_layer_model_projection"} ELSE {}

(* fwd_swiglu, and the rest of fwd_decoder_layer. *)
LayerTriplets(c, L) == AttentionTriplets(c, L) \cup Mlp \cup PleTriplets(c)
LayerVectors(c, L) ==
    AttentionVectors(c, L) \cup LayerNorms
    \cup (IF c.has_pre_ff_norm THEN FfNorms ELSE {})
    \cup (IF c.per_layer_input > 0 THEN {"post_per_layer_input_norm"} ELSE {})

(* fwd_embed, and the end of model_forward. *)
RootTriplets(c) == {"embed_tokens"} \cup PleRoot(c)
RootVectors(c) ==
    {"norm"} \cup (IF c.per_layer_input > 0 THEN {"per_layer_projection_norm"} ELSE {})

Triplets(c) ==
    NamesOf(c, Root, RootTriplets(c))
    \cup (UNION {NamesOf(c, L, LayerTriplets(c, L)) : L \in 0..(c.layers - 1)})
    \cup HeadNames(c)

(* With attention_bias, add_proj_bias asks for a bias to q, k and v; only  *)
(* a gemma4 has to have its layer_scalar.                                  *)
Biased(c, L) ==
    IF c.bias THEN AttentionTriplets(c, L) \ {"self_attn.o_proj"} ELSE {}
Scalars(c) == IF c.family = "gemma4" THEN {"layer_scalar"} ELSE {}

Vectors(c) ==
    Parts(NamesOf(c, Root, RootVectors(c)), "weight")
    \cup (UNION {Parts(NamesOf(c, L, LayerVectors(c, L)), "weight")
                 \cup Parts(NamesOf(c, L, Biased(c, L)), "bias")
                 \cup Parts(NamesOf(c, L, Scalars(c)), "") : L \in 0..(c.layers - 1)})

(* weights_get_triplet finds weight, and scales with biases or neither;    *)
(* fwd_linear then takes a weight with scales for a quantized one.         *)
TripletServed(m, c, name) ==
    LET has(part) == Part(name, part) \in DOMAIN m IN
    /\ has("weight") /\ (has("scales") <=> has("biases"))
    /\ m[Part(name, "weight")] = IF has("scales") THEN "uint32" ELSE "float"
    /\ has("scales") => c.quant.bits > 0

=============================================================================
