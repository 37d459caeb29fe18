---------------------------- MODULE LoadedModel -----------------------------
(***************************************************************************)
(* A generation of the model in a directory: Attention with the            *)
(* configuration that ModelConfig reads there and the engine accepts       *)
(* (engine_model_load of src/src/engine/emodel.c).                         *)
(***************************************************************************)
EXTENDS Attention, Weights

CONSTANT Dirs   \* directories: the objects of config and generation, and the
                \* index, files and broken of Weights

VARIABLE dir
modelvars == <<dir, vars>>

Config(d) == ModelConfigLoad(d.config, d.generation)

(* A directory engine_model_load accepts, its tables of frequencies built. *)
Accepted(d) ==
    /\ Loads(d.config)
    /\ Config(d).layers = NumLayers
    /\ engine_model_check_supported(Config(d))
    /\ weights_load(d, Config(d))

AcceptedDirs == {d \in Dirs : Accepted(d)}

(* The fields that attention depends on. *)
AttentionConfig(c) ==
    [family   |-> IF c.family \in {"mistral", "gemma4"} THEN c.family ELSE "dense",
     explicit |-> c.explicit,
     types    |-> [L \in Layers |-> L \in c.global],
     sliding  |-> c.sliding,
     window   |-> c.window,
     pattern  |-> c.pattern,
     shared   |-> c.shared]

(* What Attention assumes of its configurations. *)
ASSUME LoadedModelAssumption ==
    {AttentionConfig(Config(d)) : d \in AcceptedDirs} \subseteq Configs

(* What a JSON parser calls an array is a list.                            *)
ASSUME DirsAssumption ==
    \A d \in Dirs : \A obj \in {d.config, TextOf(d.config), d.generation} :
        \A key \in DOMAIN obj : obj[key].t = "arr" =>
            obj[key].v \in Seq({obj[key].v[i] : i \in DOMAIN obj[key].v})

ModelInit ==
    /\ dir \in AcceptedDirs
    /\ cfg = AttentionConfig(Config(dir))
    /\ Fresh

ModelSpec == ModelInit /\ [][Next /\ UNCHANGED dir]_modelvars

-----------------------------------------------------------------------------
(* What the files say, in the words of the model's own configuration       *)

Text == TextOf(dir.config)

(* The window of layer L, or 0 for none: mistral's layers all have the one *)
(* of the file.  Of a gemma4 those do that its list, or its pattern, does  *)
(* not call full; it has a window of 1024 if the file is silent.           *)
MeantWindow(L) ==
    LET family == model_family_from_type(dir.config.model_type.v)
        window == IF Present(Text, "sliding_window") THEN Value(Text, "sliding_window", 0)
                  ELSE IF family = "gemma4" THEN 1024 ELSE 0
        full == IF Is(Text, "layer_types", "arr")
                THEN /\ L < Len(Text.layer_types.v)
                     /\ Text.layer_types.v[L + 1].v = "full_attention"
                ELSE /\ ~Missing(Text, "sliding_window_pattern")
                     /\ (L + 1) % Text.sliding_window_pattern.v = 0
    IN  IF family \in {"mistral", "gemma4"} /\ ~full THEN window ELSE 0

(* The ids the files name as ends of a sequence.                           *)
NamedEos ==
    LET ids(v) == IF v.t = "arr" THEN {v.v[i].v : i \in DOMAIN v.v}
                  ELSE IF IsId(v) THEN {v.v} ELSE {}
    IN  ids(Get(dir.config, "eos_token_id")) \cup ids(Get(Text, "eos_token_id"))

(* What the engine accepts it can run, as the files mean it: the gate lets *)
(* no configuration pass that the forward pass does not serve; every layer *)
(* has the window the files give it; a shared layer reads a cache that was *)
(* written in this forward; and a generation stops at every end of         *)
(* sequence config.json names and at the two of a gemma4, as long as there *)
(* is room for them.  What a request leaves open is sampled with values in *)
(* the ranges of generation_config.json, whatever that file says.          *)
AcceptedServed ==
    /\ Supported
    /\ SharedServed
    /\ stage = "idle" =>
          LET c == Config(dir)
              eos == {c.eos[i] : i \in DOMAIN c.eos}
              gemma == IF cfg.family = "gemma4" THEN {1, 106} ELSE {}
              params == sampling_resolve(<<>>, c)
          IN  /\ \A L \in Layers : MaxKv(L) = MeantWindow(L)
              /\ Cardinality(NamedEos \cup gemma) <= MAX_EOS_TOKENS => NamedEos \cup gemma \subseteq eos
              /\ 0 <= params.temperature /\ params.temperature <= 200
              /\ 0 < params.top_p /\ params.top_p <= 100
              /\ params.top_k = -100 \/ (100 <= params.top_k /\ params.top_k <= 100000)

(* Nothing is asked of a family that its checkpoints do not have: biases,  *)
(* or the embeddings per layer of a gemma4.  Scales come with a quantized  *)
(* model.  The gate and the weights leave these unchecked.                 *)
Plain(d) ==
    LET c == Config(d) IN
    /\ ~c.bias /\ (c.family = "gemma4" \/ c.per_layer_input = 0)
    /\ c.quant.bits > 0 \/ \A k \in DOMAIN Merged(d) : k.part # "scales"

Served(m, c) ==
    /\ \A name \in Triplets(c) : TripletServed(m, c, name)
    /\ \A k \in Vectors(c) : IsFloat(m, k)

(* A model that was loaded can run: each forward finds every tensor it     *)
(* asks for, by the name it asks for and in the form the kernels take,     *)
(* whichever layers share keys and values, quantized or not, in however    *)
(* many files.                                                             *)
TensorsServed == stage = "idle" /\ Plain(dir) => Served(Merged(dir), Config(dir))
=============================================================================
