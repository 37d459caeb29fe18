----------------------------- MODULE MCAttention -----------------------------
(* Instances of LoadedModel for TLC: the directories of small models, and   *)
(* some that must not load or not be accepted.                              *)
EXTENDS LoadedModel, TLC

Num(i) == [t |-> "int", v |-> i]
Real(r) == [t |-> "real", v |-> r]
Bool(b) == [t |-> "bool", v |-> b]
Str(x) == [t |-> "str", v |-> x]
Arr(s) == [t |-> "arr", v |-> s]
Obj(f) == [t |-> "obj", v |-> f]
Opt(key, values) == {<<>>} \cup {key :> v : v \in values}

(* Objects with one choice of each set. *)
Join(a, b) == {f @@ g : f \in a, g \in b}

Sized == {"num_hidden_layers" :> Num(NumLayers) @@ "hidden_size" :> Num(8)
          @@ "num_attention_heads" :> Num(2)}
Typed(types) == Join({"model_type" :> Str(x) : x \in types}, Sized)
Types == {"full_attention", "sliding_attention"}
TypeLists == {Arr([i \in 1..NumLayers |-> Str(l[i])]) : l \in [1..NumLayers -> Types]}
Shorter == Arr(<<Str("full_attention")>>)

(* No window: a layer listed as local attends to everything all the same.   *)
DenseFiles ==
    Join(Typed({"qwen3", "llama"}),
         {<<>>, "sliding_window" :> Null, "sliding_window" :> Num(2),
          "layer_types" :> Shorter, "num_kv_shared_layers" :> Num(1),
          "hidden_act" :> Str("gelu_pytorch_tanh"), "partial_rotary_factor" :> Real(50),
          "rope_parameters" :> Obj("partial_rotary_factor" :> Real(50)),
          "rope_scaling" :> Obj("type" :> Str("linear")),
          "rope_scaling" :> Obj("rope_type" :> Str("llama3") @@ "factor" :> Num(8)),
          "num_experts" :> Num(2), "n_routed_experts" :> Num(2), "attention_bias" :> Bool(TRUE),
          "hidden_act" :> Null, "head_dim" :> Num(0), "vocab_size" :> Str("x")})
    \cup
    Join(Typed({"qwen3_5"}),
         {<<>>, "attn_output_gate" :> Bool(FALSE), "sliding_window" :> Num(2),
          "layer_types" :> Shorter, "full_attention_interval" :> Num(2),
          "num_experts" :> Num(2), "rope_parameters" :> Obj("partial_rotary_factor" :> Real(50)),
          "rope_parameters" :> Obj("partial_rotary_factor" :> Real(25))})

(* All layers local; shared layers are read for every family, so that their *)
(* number may exceed the layers.                                            *)
MistralFiles ==
    Join(Join(Typed({"mistral"}), Opt("sliding_window", {Null} \cup {Num(i) : i \in 0..3})),
         Opt("num_kv_shared_layers", {Num(NumLayers)}))

(* Types listed one by one, or a global layer every second one; the text's  *)
(* own configuration apart from the root's, or not.                         *)
Gemma4Texts ==
    Join(Join(Sized, Opt("num_kv_shared_layers", {Num(i) : i \in 1..NumLayers})),
         Join({"layer_types" :> l : l \in TypeLists}, {"sliding_window" :> Num(w) : w \in {1, 2}})
         \cup
         Join(Opt("sliding_window_pattern", {Num(2)}),
              Opt("sliding_window", {Null} \cup {Num(w) : w \in 0..3}))
         \cup {"layer_types" :> Shorter})
Gemma4Files ==
    {"model_type" :> Str("gemma4") @@ "text_config" :> Obj(x) : x \in Gemma4Texts}

(* Ends of a sequence: in the root, in the text, one too many of them.      *)
Many == Arr([i \in 1..3 |-> Num(i + 1)])
EosFiles ==
    {"model_type" :> Str("gemma4") @@ "text_config" :> Obj(x @@ y) @@ z :
        x \in Sized, y \in Opt("eos_token_id", {Num(1), Num(7), Many}),
        z \in Opt("eos_token_id", {Num(2), Many, Arr(<<Num(2), Str("x")>>), Null})}
    \cup Join(Typed({"llama"}), Opt("eos_token_id", {Num(1), Many}))

-----------------------------------------------------------------------------
(* Checkpoints: what a forward asks for, in one file, with the matrices     *)
(* quantized if the model is.                                               *)

Keys(c) == {Part(name, "weight") : name \in Triplets(c)} \cup Vectors(c)
Scaled(c) ==
    IF c.quant.bits = 0 THEN {} ELSE {Part(name, p) : name \in Triplets(c), p \in {"scales", "biases"}}
Kind(c, k) ==
    IF c.quant.bits > 0 /\ k.part = "weight" /\ k.name \in Triplets(c) THEN "uint32" ELSE "float"
Complete(c) == [k \in Keys(c) \cup Scaled(c) |-> Kind(c, k)]

Absent == [t |-> "absent"]
OneFile(tensors) == [index |-> Absent, files |-> (Single :> tensors), broken |-> {}]

Of(root, generation, w) ==
    [config |-> root, generation |-> generation, index |-> w.index, files |-> w.files,
     broken |-> w.broken]

MCSafetensors == {Single, "a.safetensors", "b.safetensors", "../a.safetensors"}
MCEscaping == {"../a.safetensors"}

(* Files that may be damaged, of small models of each kind.                 *)
WeightFiles ==
    Join(Typed({"qwen3", "llama"}),
         {<<>>, "quantization" :> Obj("bits" :> Num(4)), "tie_word_embeddings" :> Bool(TRUE)})
    \cup
    {"model_type" :> Str("gemma4") @@ "text_config" :> Obj(x @@ y @@ z) :
        x \in Sized,
        y \in {<<>>, "hidden_size_per_layer_input" :> Num(0)},
        z \in {"layer_types" :> Arr(<<Str("full_attention"), Str("sliding_attention"),
                                     Str("sliding_attention"), Str("full_attention")>>)
               @@ "num_kv_shared_layers" :> Num(2) @@ "attention_k_eq_v" :> Bool(TRUE)}}

Without(t, ks) == [k \in DOMAIN t \ ks |-> t[k]]
Scales(name) == (Part(name, "scales") :> "float") @@ (Part(name, "biases") :> "float")

(* One tensor missing, with its scales or without, or of another kind, or   *)
(* with scales or biases that it should not have.                           *)
Damaged(t) ==
    LET probes == {k \in DOMAIN t : k.name.layer \in {Root, 1, 2}} IN
    (UNION {{Without(t, {k}),
             Without(t, {Part(k.name, "scales"), Part(k.name, "biases")}),
             t @@ (Part(k.name, "scales") :> "float"), t @@ (Part(k.name, "biases") :> "float")}
            \cup {[t EXCEPT ![k] = kind] : kind \in {"float", "uint32", "int"}} : k \in probes})
    \cup {t @@ Scales(k.name) : k \in {k \in probes : k.name.suffix \in
                                           {"embed_tokens", "norm", "self_attn.v_proj"}}}

(* The tensors in two files, with an index or without, and what can be      *)
(* wrong with either.                                                       *)
Split(t) ==
    LET first == {k \in DOMAIN t : k.name.layer \in {Root, 0}}
        two == ("a.safetensors" :> Without(t, DOMAIN t \ first)) @@ ("b.safetensors" :> Without(t, first))
        names == [k \in DOMAIN t |-> IF k \in first THEN "a.safetensors" ELSE "b.safetensors"]
        some == CHOOSE k \in DOMAIN t : TRUE
        map(v) == [t |-> "map", v |-> v]
        made(i, fs, bad) == [index |-> i, files |-> fs, broken |-> bad]
    IN  {made(i, two, bad) : i \in {Absent, [t |-> "invalid"], map(names), map(<<>>),
                                   map([names EXCEPT ![some] = NoString]),
                                   map([names EXCEPT ![some] = "../a.safetensors"]),
                                   map([k \in first |-> "a.safetensors"]),
                                   map(names @@ (Part(LmHead, "extra") :> NoString))},
                            bad \in {{}, {"b.safetensors"}}}
        \cup {made(i, (Single :> t) @@ two, {}) : i \in {Absent, map(names)}}
        \cup {made(i, (Single :> t) @@ ("a.safetensors" :> t), {}) :
                 i \in {Absent, map([k \in first |-> "a.safetensors"]),
                        map([k \in first |-> IF k = some THEN Single ELSE "a.safetensors"])}}
        \cup {made(map(names), ("a.safetensors" :> t), {}), made(Absent, <<>>, {})}

ConfigOf(root) == ModelConfigLoad(root, <<>>)
WeightDirs ==
    UNION {{Of(root, <<>>, w) : w \in {OneFile(t) : t \in Damaged(Complete(ConfigOf(root)))}
                                      \cup Split(Complete(ConfigOf(root)))} : root \in WeightFiles}

ConfigFiles == DenseFiles \cup MistralFiles \cup Gemma4Files \cup EosFiles
ConfigDirs ==
    LET made(root, generation) ==
            Of(root, generation, OneFile(IF Loads(root) THEN Complete(ConfigOf(root)) ELSE <<>>))
    IN  {made(root, <<>>) : root \in ConfigFiles}
        \cup {made(root, "eos_token_id" :> Num(3) @@ "top_k" :> Num(0) @@ "temperature" :> Real(50)) :
                  root \in EosFiles}

MCDirs == ConfigDirs \cup WeightDirs

AllConfigs ==
    {AttentionConfig(c) : c \in {ConfigOf(root) : root \in
        {root \in ConfigFiles \cup WeightFiles : Loads(root)}}}

=============================================================================
