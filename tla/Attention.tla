------------------------------ MODULE Attention ------------------------------
(***************************************************************************)
(* Which tokens a generation attends to: the chunked prefill and one-ahead *)
(* decode of handle_generate_real (engine.c), model_forward (emodel.c) over *)
(* the layers, fwd_attention (forward.c) and the KV cache (kvcache.c).      *)
(*                                                                         *)
(* Tensors are reduced to positions.  A key is <<tok, rot>>: the position  *)
(* of its token in the sequence and the position RoPE turned it by.  The   *)
(* two come from different places: the token from the loops of engine.c,   *)
(* the turn from the offset of the layer's cache.                          *)
(***************************************************************************)
EXTENDS Integers, Sequences

CONSTANTS
    NumLayers,      \* num_hidden_layers
    Configs,        \* model configurations to consider
    PrefillChunk,   \* MLXD_PREFILL_CHUNK
    MaxPrompt,      \* bound: tokens of a prompt
    MaxNew          \* bound: max_tokens of a request

Layers == 0..(NumLayers - 1)

\* What model.c reads of config.json, as far as attention depends on it.
ConfigType ==
    [family   : {"dense", "mistral", "gemma4"},  \* dense: qwen3, llama, qwen3_5
     explicit : BOOLEAN,                \* has_explicit_layer_types
     types    : [Layers -> BOOLEAN],    \* layer_is_global
     sliding  : BOOLEAN,                \* has_sliding_window
     window   : Nat,                    \* sliding_window
     pattern  : Nat,                    \* sliding_window_pattern
     shared   : Nat]                    \* num_kv_shared_layers

ASSUME AttentionAssumption ==
    /\ NumLayers \in Nat \ {0} /\ PrefillChunk \in Nat \ {0}
    /\ MaxPrompt \in Nat /\ MaxNew \in Nat
    /\ Configs \subseteq ConfigType

VARIABLES
    cfg,        \* the loaded model's configuration
    stage,      \* where handle_generate_real is: "idle", "prefill", "seed", "decode"
    step,       \* within it: "head" of the loop, "layer" or "grow" of a forward, "emit"
    n, max,     \* token_count, max_tokens
    pos,        \* prompt tokens prefilled
    emitted,    \* tokens emitted
    layer,      \* the layer the forward is at
    nc,         \* the new capacity grow_entry computes
    offset,     \* kv_entry_t.offset of each layer
    rows,       \* kv_entry_t.keys, one per unit of capacity; none if uninitialised
    att         \* history: [tok, rot, sees] of each query of the last attention

loop  == <<n, max, pos, emitted>>
kv    == <<offset, rows>>
vars  == <<cfg, stage, step, loop, layer, nc, kv, att>>

Zero == <<-1, -1>>                      \* a row of mlx_zeros
Key == {Zero} \cup (Nat \X Nat)

-----------------------------------------------------------------------------
(* Layers (model.c).                                                       *)

\* model_layer_is_global
IsGlobal(L) ==
    IF cfg.explicit THEN cfg.types[L]
    ELSE \/ ~cfg.sliding
         \/ cfg.pattern > 0 /\ L % cfg.pattern = cfg.pattern - 1

Boundary == NumLayers - cfg.shared

\* model_layer_kv_shared
KvShared(L) == cfg.shared > 0 /\ L >= Boundary

\* Mutant: the search for a source starts at the layer before.
KvSourceAnyLayer(L) ==
    LET same == {i \in 0..(L - 1) : IsGlobal(i) = IsGlobal(L)}
    IN  IF KvShared(L) /\ same # {} THEN CHOOSE i \in same : \A j \in same : j =< i
                                    ELSE -1

\* model_kv_source_layer: the last layer with a cache of its own and of L's type.
KvSource(L) ==
    LET same == {i \in 0..(Boundary - 1) : IsGlobal(i) = IsGlobal(L)}
    IN  IF KvShared(L) /\ same # {} THEN CHOOSE i \in same : \A j \in same : j =< i
                                    ELSE -1

Owns(L) == ~KvShared(L)

\* local, local_attn and src_local of fwd_attention.
Local(L) == ~IsGlobal(L) /\ cfg.sliding /\ cfg.window > 0

MaxKv(L) == IF Local(L) THEN cfg.window ELSE 0

\* engine_model_check_supported (and reject_dense_common), on these fields.
Supported ==
    /\ cfg.family = "dense" => ~cfg.sliding
    /\ cfg.family = "gemma4" =>
           /\ cfg.shared < NumLayers
           /\ \A L \in Layers : KvShared(L) => KvSource(L) >= 0

-----------------------------------------------------------------------------
(* The tokens of the forward in progress.                                  *)

ChunkEnd == IF pos + PrefillChunk > n - 1 THEN n - 1 ELSE pos + PrefillChunk

\* Position of the first token, number of tokens (S).
From == CASE stage = "prefill" -> pos
          [] stage = "decode"  -> n + emitted
          [] OTHER             -> n - 1
S    == IF stage = "prefill" THEN ChunkEnd - pos ELSE 1

Offsets == 0..(S - 1)

-----------------------------------------------------------------------------
(* fwd_attention, from the cache to the softmax.                           *)

\* Mutant: the view is trimmed for a chunk, too.
ViewStartAnyLen(off, q_len, max_kv) ==
    IF max_kv > 0 /\ off > max_kv THEN off - max_kv ELSE 0

\* view_start of kvcache_update and kvcache_view.
ViewStart(off, q_len, max_kv) ==
    IF max_kv > 0 /\ q_len = 1 /\ off > max_kv THEN off - max_kv ELSE 0

\* The mask: fwd_sliding_window_mask for a chunk of a local layer, "causal" (of
\* the library: aligned to the last key) for a chunk of another one, none for a
\* single query.
Allowed(L, i, j, q_len, kv_len) ==
    LET row == kv_len - q_len + i IN
    \/ q_len = 1
    \/ /\ j =< row
       /\ Local(L) => row - j < cfg.window

\* The attention of layer L over the first off rows of layer src, with queries
\* turned from position rot on.
Attend(L, src, off, keys, rot) ==
    LET start  == ViewStart(off, S, MaxKv(src))
        kv_len == off - start
    IN  att' = {[tok  |-> From + i,
                 rot  |-> rot + i,
                 sees |-> {keys[start + j + 1] : j \in {j \in 0..(kv_len - 1) :
                                                        Allowed(L, i, j, S, kv_len)}}]
                 : i \in Offsets}

-----------------------------------------------------------------------------
(* handle_generate_real.                                                   *)

NoRows == [L \in Layers |-> <<>>]
NoOffsets == [L \in Layers |-> 0]

Fresh ==
    /\ stage = "idle" /\ step = "head"
    /\ n = 0 /\ max = 0 /\ pos = 0 /\ emitted = 0
    /\ layer = 0 /\ nc = 0
    /\ offset = NoOffsets /\ rows = NoRows
    /\ att = {}

Init == cfg \in Configs /\ Supported /\ Fresh

\* kvcache_init; a request with nothing to do, or too long, ends before it.
Start ==
    /\ stage = "idle"
    /\ n' \in 1..MaxPrompt /\ max' \in 1..MaxNew
    /\ pos' = 0 /\ emitted' = 0
    /\ stage' = "prefill"
    /\ UNCHANGED <<cfg, step, layer, nc, kv, att>>

\* out_free: kvcache_free.
Free ==
    /\ stage' = "idle" /\ step' = "head"
    /\ layer' = 0 /\ nc' = 0
    /\ offset' = NoOffsets /\ rows' = NoRows
    /\ att' = {}
    /\ UNCHANGED <<cfg, loop>>

\* The flags polled at the heads of the loops; a step of the forward, of the
\* sampler or of the evaluation that fails.
GiveUp == stage # "idle" /\ Free

PrefillDone ==
    /\ stage = "prefill" /\ step = "head" /\ pos >= n - 1
    /\ stage' = "seed"
    /\ UNCHANGED <<cfg, step, loop, layer, nc, kv, att>>

\* model_forward is called: a chunk of the prefix, its last token, or the token
\* just sampled when one more is wanted.
Forward ==
    /\ step = "head"
    /\ \/ stage = "prefill" /\ pos < n - 1
       \/ stage = "seed"
       \/ stage = "decode" /\ emitted + 1 < max
    /\ layer' = 0
    /\ step' = "layer"
    /\ UNCHANGED <<cfg, stage, loop, nc, kv, att>>

\* It has been through the layers.
ForwardDone ==
    /\ step = "layer" /\ layer = NumLayers
    /\ pos' = IF stage = "prefill" THEN ChunkEnd ELSE pos
    /\ stage' = IF stage = "seed" THEN "decode" ELSE stage
    /\ step' = IF stage = "decode" THEN "emit" ELSE "head"
    /\ UNCHANGED <<cfg, n, max, emitted, layer, nc, kv, att>>

LastToken ==
    /\ stage = "decode" /\ step = "head" /\ emitted + 1 >= max
    /\ step' = "emit"
    /\ UNCHANGED <<cfg, stage, loop, layer, nc, kv, att>>

\* The end of the sequence, or a refused push, ends it before max_tokens.
Emit ==
    /\ step = "emit"
    /\ \/ Free
       \/ /\ emitted + 1 < max
          /\ emitted' = emitted + 1
          /\ step' = "head"
          /\ UNCHANGED <<cfg, stage, n, max, pos, layer, nc, kv, att>>

-----------------------------------------------------------------------------
(* One layer of model_forward.                                             *)

AtLayer == step = "layer" /\ layer < NumLayers

\* A shared layer without a source fails the forward.
NoSource ==
    /\ AtLayer /\ KvShared(layer) /\ KvSource(layer) < 0
    /\ Free

\* A KV-shared layer: kvcache_view of the source, which ran in this forward (the
\* view of an empty entry fails, which leaves GiveUp).
SharedLayer ==
    LET src == KvSource(layer)
        rot == offset[src] - S
    IN
    /\ AtLayer /\ src >= 0
    /\ offset[src] > 0
    /\ Attend(layer, src, offset[src], rows[src], IF rot < 0 THEN 0 ELSE rot)
    /\ layer' = layer + 1
    /\ UNCHANGED <<cfg, stage, step, loop, nc, kv>>

Needed == offset[layer] + S
Capacity == Len(rows[layer])

\* kvcache_update finds too little room: grow_entry is entered...
Grow ==
    /\ AtLayer /\ Owns(layer) /\ Needed > Capacity
    /\ nc' = IF Capacity > 0 THEN Capacity ELSE 1
    /\ step' = "grow"
    /\ UNCHANGED <<cfg, stage, loop, layer, kv, att>>

\* ...doubles...
GrowDouble ==
    /\ step = "grow" /\ nc < Needed
    /\ nc' = nc * 2
    /\ UNCHANGED <<cfg, stage, step, loop, layer, kv, att>>

\* Mutant: the new array takes the place of the old one as it is.
GrowZeros ==
    /\ step = "grow" /\ nc >= Needed
    /\ rows' = [rows EXCEPT ![layer] = [i \in 1..nc |-> Zero]]
    /\ step' = "layer"
    /\ UNCHANGED <<cfg, stage, loop, layer, nc, offset, att>>

\* ...and copies the live rows into zeros.
GrowCopy ==
    /\ step = "grow" /\ nc >= Needed
    /\ rows' = [rows EXCEPT ![layer] =
                  [i \in 1..nc |-> IF i =< offset[layer] THEN rows[layer][i] ELSE Zero]]
    /\ step' = "layer"
    /\ UNCHANGED <<cfg, stage, loop, layer, nc, offset, att>>

\* A layer with a cache of its own: keys turned by its offset are written behind
\* the live rows (kvcache_update), and the queries see them, too.
OwnLayer ==
    LET off  == offset[layer]
        keys == [i \in 1..Capacity |->
                   IF off < i /\ i =< off + S THEN <<From + i - 1 - off, i - 1>>
                                              ELSE rows[layer][i]]
    IN
    /\ AtLayer /\ Owns(layer) /\ Needed =< Capacity
    /\ rows' = [rows EXCEPT ![layer] = keys]
    /\ offset' = [offset EXCEPT ![layer] = off + S]
    /\ Attend(layer, layer, off + S, keys, off)
    /\ layer' = layer + 1
    /\ UNCHANGED <<cfg, stage, step, loop, nc>>

-----------------------------------------------------------------------------
Step ==
    \/ PrefillDone \/ Forward \/ ForwardDone \/ LastToken \/ Emit
    \/ NoSource \/ SharedLayer
    \/ Grow \/ GrowDouble \/ GrowCopy \/ OwnLayer

Next == Start \/ Step \/ GiveUp

Spec == Init /\ [][Next]_vars

-----------------------------------------------------------------------------
TypeOK ==
    /\ cfg \in Configs
    /\ stage \in {"idle", "prefill", "seed", "decode"}
    /\ step \in {"head", "layer", "grow", "emit"}
    /\ n \in 0..MaxPrompt /\ max \in 0..MaxNew
    /\ pos \in 0..n /\ emitted \in 0..max
    /\ layer \in 0..NumLayers
    /\ nc \in Nat
    /\ offset \in [Layers -> Nat]
    /\ rows \in [Layers -> Seq(Key)]
    /\ att \subseteq [tok : Nat, rot : Nat, sees : SUBSET Key]

\* The positions a query at position p of layer L is meant to see: all up to its
\* own or, in a local layer, the last `window` of them.
Window(L, p) == {q \in 0..p : Local(L) => p - q < cfg.window}

\* Whatever the chunk, the capacity, the window and the layer the keys are shared
\* with, a query is turned by its own position and sees exactly the keys of its
\* window, each turned by its own position.  No single function decides it: the
\* loops choose the chunks, kvcache.c the trim of the view, forward.c the mask,
\* and neither knows the position of a token.
AttendsWindow ==
    layer > 0 =>
        \A a \in att : /\ a.rot = a.tok
                       /\ a.sees = {<<q, q>> : q \in Window(layer - 1, a.tok)}

\* The tokens layer L has seen.
Seen(L) ==
    CASE step \in {"layer", "grow"} /\ L < layer -> From + S
      [] step = "emit" /\ emitted + 1 < max      -> From + 1
      [] OTHER                                   -> From

\* Every layer with a cache holds the keys of the tokens it has seen, each once
\* and in its place, and between two forwards all have seen the same ones.
CacheHoldsPrefix ==
    stage # "idle" =>
        \A L \in Layers : Owns(L) =>
            /\ offset[L] = Seen(L) /\ offset[L] =< Len(rows[L])
            /\ \A i \in 1..offset[L] : rows[L][i] = <<i - 1, i - 1>>

\* A shared layer of an accepted gemma4 reads a cache that was written in this
\* forward, by a layer of its own type: what engine_model_check_supported accepts
\* fwd_attention can run.
SharedServed ==
    AtLayer /\ cfg.family = "gemma4" /\ KvShared(layer) =>
        LET src == KvSource(layer) IN
        /\ src \in Layers /\ Owns(src)
        /\ Local(src) = Local(layer)
        /\ offset[src] = From + S

=============================================================================
