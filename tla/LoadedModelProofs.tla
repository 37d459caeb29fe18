-------------------------- MODULE LoadedModelProofs --------------------------
(***************************************************************************)
(* Attention: AttendsWindow for every number of layers, configuration,     *)
(* chunk and length.  The invariant says what each cache holds at every    *)
(* point of a forward; AttendSees is the argument about one attention,     *)
(* AttendTyped its type.                                                   *)
(*                                                                         *)
(* LoadedModel implements Attention: what engine_model_check_supported     *)
(* accepts satisfies what those theorems assume, so they hold of the model *)
(* in every directory.                                                     *)
(***************************************************************************)
EXTENDS LoadedModel, FiniteSetTheorems, WellFoundedInduction, TLAPS

USE DEF Zero

(* A non-empty set of numbers up to b has a greatest one.  (By the well-    *)
(* foundedness of the strict inclusion of finite sets.)                     *)
LEMMA Greatest ==
    ASSUME NEW b \in Nat, NEW C \in SUBSET (0..b), C # {}
    PROVE  \E i \in C : \A j \in C : j =< i
<1> DEFINE Above(i) == (i + 1)..b
           T == {Above(i) : i \in C}
           R == StrictSubsetOrdering(0..b)
<1>1. IsWellFoundedOn(R, FiniteSubsetsOf(0..b))
  BY FS_StrictSubsetOrderingWellFounded
<1>2. T \subseteq FiniteSubsetsOf(0..b) /\ T # {}
  <2>1. \A i \in C : i \in 0..b /\ Above(i) \in SUBSET (0..b) /\ IsFiniteSet(Above(i))
    BY FS_Interval
  <2> QED BY <2>1 DEF FiniteSubsetsOf
<1>3. PICK X \in T : \A Y \in T : ~(<<Y, X>> \in R)
  <2> HIDE DEF R, T
  <2> QED BY <1>1, <1>2, WFMin
<1>4. PICK i \in C : X = Above(i)
  OBVIOUS
<1>5. \A j \in C : j =< i
  <2> SUFFICES ASSUME NEW j \in C, j > i PROVE FALSE
    OBVIOUS
  <2>1. i \in 0..b /\ j \in 0..b
    OBVIOUS
  <2>2. Above(j) \subseteq Above(i) /\ j \in Above(i) /\ j \notin Above(j)
    BY <2>1
  <2>3. <<Above(j), X>> \in R
    BY <2>1, <2>2, <1>4 DEF StrictSubsetOrdering
  <2> QED BY <2>3, <1>3
<1> QED BY <1>5

(* The source of a shared layer is an earlier layer with a cache and with   *)
(* the same window.                                                         *)
LEMMA SourceEarlier ==
    ASSUME NEW L \in Layers, cfg \in ConfigType, KvSource(L) >= 0
    PROVE  /\ KvSource(L) \in Layers /\ KvSource(L) < L
           /\ Owns(KvSource(L)) /\ Local(KvSource(L)) = Local(L)
<1> DEFINE same == {i \in 0..(Boundary - 1) : IsGlobal(i) = IsGlobal(L)}
           src == KvSource(L)
<1>1. Boundary \in Int /\ NumLayers \in Nat /\ cfg.shared \in Nat
  BY AttentionAssumption DEF Boundary, ConfigType
<1>2. KvShared(L) /\ same # {}
  BY DEF KvSource
<1>3. Boundary - 1 \in Nat
  BY <1>1, <1>2
<1>4. \E i \in same : \A j \in same : j =< i
  BY <1>2, <1>3, Greatest
<1>5. src \in same
  BY <1>2, <1>4 DEF KvSource
<1>6. src \in Layers /\ src < L /\ ~KvShared(src)
  BY <1>1, <1>2, <1>5 DEF Layers, KvShared
<1>7. Local(src) = Local(L)
  BY <1>5 DEF Local
<1> QED BY <1>6, <1>7 DEF Owns

-----------------------------------------------------------------------------
(* One attention: over a cache whose first off rows are the keys of the     *)
(* tokens up to the last query's, the view and the mask together leave each *)
(* query its window.                                                        *)
LEMMA AttendSees ==
    ASSUME NEW L \in Layers, NEW src, NEW keys, NEW off,
           cfg \in ConfigType, Local(src) = Local(L),
           From \in Nat, S \in Nat \ {0}, off = From + S,
           \A i \in 1..off : keys[i] = <<i - 1, i - 1>>,
           Attend(L, src, off, keys, From)
    PROVE  \A a \in att' :
              /\ a.tok \in Nat /\ a.rot = a.tok
              /\ a.sees = {<<q, q>> : q \in Window(L, a.tok)}
<1> DEFINE start == ViewStart(off, S, MaxKv(src))
           kv_len == off - start
           columns(i) == {j \in 0..(kv_len - 1) : Allowed(L, i, j, S, kv_len)}
           sees(i) == {keys[start + j + 1] : j \in columns(i)}
<1>1. att' = {[tok |-> From + i, rot |-> From + i, sees |-> sees(i)] : i \in Offsets}
  BY DEF Attend
<1>2. cfg.window \in Nat
  BY DEF ConfigType
<1>3. start \in Nat /\ start =< off /\ kv_len \in Nat /\ start + kv_len = off
  BY <1>2 DEF ViewStart, MaxKv
<1>4. ASSUME NEW i \in Offsets
      PROVE  {start + j : j \in columns(i)} = Window(L, From + i)
  <2>1. i \in Nat /\ i < S
    BY DEF Offsets
  <2>2. CASE S = 1
    <3>1. i = 0 /\ off = From + 1
      BY <2>1, <2>2
    <3>2. columns(i) = 0..(kv_len - 1)
      BY <2>2 DEF Allowed
    <3>3. CASE Local(L)
      <4>1. cfg.window > 0 /\ start = IF off > cfg.window THEN off - cfg.window ELSE 0
        BY <2>2, <3>3, <1>2 DEF ViewStart, MaxKv, Local
      <4>2. \A q \in Nat : (q \in Window(L, From)) <=> (start =< q /\ q < off)
        BY <4>1, <3>3, <3>1, <1>2 DEF Window
      <4>3. \A q \in Nat : (q \in {start + j : j \in 0..(kv_len - 1)})
                               <=> (start =< q /\ q < off)
        <5> TAKE q \in Nat
        <5>1. ASSUME start =< q, q < off PROVE q \in {start + j : j \in 0..(kv_len - 1)}
          <6>1. q - start \in 0..(kv_len - 1) /\ q = start + (q - start)
            BY <5>1, <1>3
          <6> QED BY <6>1
        <5> QED BY <5>1, <1>3
      <4>4. Window(L, From) \subseteq Nat /\ {start + j : j \in 0..(kv_len - 1)} \subseteq Nat
        BY <1>3 DEF Window
      <4> QED BY <4>2, <4>3, <4>4, <3>1, <3>2
    <3>4. CASE ~Local(L)
      <4>1. start = 0 /\ kv_len = From + 1
        BY <3>4, <3>1 DEF ViewStart, MaxKv
      <4>2. Window(L, From) = 0..From
        BY <3>4 DEF Window
      <4> QED BY <4>1, <4>2, <3>1, <3>2
    <3> QED BY <3>3, <3>4
  <2>3. CASE S > 1
    <3>1. start = 0 /\ kv_len = From + S
      BY <2>3, <1>2 DEF ViewStart, MaxKv
    <3>2. columns(i) = {j \in 0..(From + S - 1) : /\ j =< From + i
                                                  /\ Local(L) => From + i - j < cfg.window}
      BY <3>1, <2>1, <2>3 DEF Allowed
    <3>3. columns(i) = Window(L, From + i)
      BY <3>2, <2>1 DEF Window
    <3>4. {start + j : j \in columns(i)} = columns(i)
      BY <3>1, <3>2
    <3> QED BY <3>3, <3>4
  <2> QED BY <2>2, <2>3
<1>5. ASSUME NEW i \in Offsets
      PROVE  sees(i) = {<<q, q>> : q \in Window(L, From + i)}
  <2>1. \A j \in columns(i) : j \in 0..(kv_len - 1)
    OBVIOUS
  <2> HIDE DEF start, kv_len, columns
  <2>2. \A j \in columns(i) : keys[start + j + 1] = <<start + j, start + j>>
    <3> TAKE j \in columns(i)
    <3> DEFINE k == start + j + 1
    <3>1. k \in 1..off /\ k - 1 = start + j
      BY <1>3, <2>1
    <3> HIDE DEF k
    <3>2. keys[k] = <<k - 1, k - 1>>
      BY <3>1
    <3> QED BY <3>1, <3>2 DEF k
  <2>3. sees(i) = {<<start + j, start + j>> : j \in columns(i)}
    BY <2>2
  <2>4. {<<start + j, start + j>> : j \in columns(i)}
           = {<<q, q>> : q \in {start + j : j \in columns(i)}}
    OBVIOUS
  <2> QED BY <2>3, <2>4, <1>4
<1>6. \A i \in Offsets : From + i \in Nat
  BY DEF Offsets
<1> HIDE DEF sees
<1> QED BY <1>1, <1>5, <1>6

(* What an attention leaves in att is of the type of att.                   *)
LEMMA AttendTyped ==
    ASSUME cfg \in ConfigType, NEW L, NEW p \in Nat, NEW a \in att',
           a.sees = {<<q, q>> : q \in Window(L, p)}
    PROVE  a.sees \in SUBSET Key
  BY DEF Window, Key

-----------------------------------------------------------------------------
(* Where the generation can be, as far as the numbers of a forward need it. *)
Phases ==
    /\ stage = "idle" => step = "head" /\ offset = NoOffsets
    /\ stage # "idle" => 1 =< n /\ pos =< n - 1 /\ emitted < max
    /\ stage \in {"prefill", "seed"} => emitted = 0
    /\ step = "emit" => stage = "decode"
    /\ step \in {"layer", "grow"} => /\ stage = "prefill" => pos < n - 1
                                     /\ stage = "decode" => emitted + 1 < max
    /\ step = "grow" => layer < NumLayers /\ Owns(layer) /\ nc >= 1

IInv == TypeOK /\ Phases /\ CacheHoldsPrefix /\ AttendsWindow

(* The tokens of a forward.                                                 *)
LEMMA ForwardTokens ==
    ASSUME TypeOK, Phases
    PROVE  /\ cfg \in ConfigType
           /\ stage # "idle" => From \in Nat
           /\ step \in {"layer", "grow"} => S \in Nat \ {0}
           /\ stage = "prefill" /\ step = "layer" =>
                  ChunkEnd = From + S /\ ChunkEnd =< n - 1 /\ ChunkEnd \in Nat
<1>1. n \in Nat /\ pos \in Nat /\ emitted \in Nat /\ PrefillChunk \in Nat \ {0}
  BY AttentionAssumption DEF TypeOK
<1>2. cfg \in ConfigType
  BY AttentionAssumption DEF TypeOK
<1>3. stage # "idle" => From \in Nat
  BY <1>1 DEF From, Phases
<1>4. stage = "prefill" /\ step \in {"layer", "grow"} =>
          /\ ChunkEnd \in Nat /\ pos < ChunkEnd /\ ChunkEnd =< n - 1
          /\ S = ChunkEnd - pos /\ From = pos
  BY <1>1 DEF ChunkEnd, S, From, Phases
<1>5. stage # "prefill" => S = 1
  BY DEF S
<1> QED BY <1>1, <1>2, <1>3, <1>4, <1>5

(* An action that leaves the caches alone keeps what they hold, if it keeps  *)
(* what they should.                                                        *)
LEMMA CacheKept ==
    ASSUME CacheHoldsPrefix, stage # "idle", UNCHANGED <<cfg, kv>>,
           \A L \in Layers : Owns(L) => Seen(L)' = Seen(L)
    PROVE  CacheHoldsPrefix'
<1> SUFFICES ASSUME NEW L \in Layers, Owns(L)'
             PROVE  /\ offset'[L] = Seen(L)' /\ offset'[L] =< Len(rows'[L])
                    /\ \A i \in 1..offset'[L] : rows'[L][i] = <<i - 1, i - 1>>
  BY DEF CacheHoldsPrefix
<1>1. Owns(L)
  BY DEF Owns, KvShared, Boundary
<1> QED BY <1>1 DEF CacheHoldsPrefix, kv

LEMMA AttendKept ==
    ASSUME AttendsWindow, UNCHANGED <<cfg, att, layer>>
    PROVE  AttendsWindow'
  BY DEF AttendsWindow, Window, Local, IsGlobal

(* Everything is given back: the next generation starts from empty caches.  *)
LEMMA FreeKeeps ==
    ASSUME IInv, Free
    PROVE  IInv'
<1> USE DEF IInv, Free, loop
<1>1. TypeOK'
  <2>1. <<>> \in Seq(Key) /\ 0 \in 0..NumLayers
    BY AttentionAssumption
  <2> QED BY <2>1 DEF TypeOK, NoRows, NoOffsets
<1>2. Phases'
  BY DEF Phases
<1>3. CacheHoldsPrefix'
  BY DEF CacheHoldsPrefix
<1>4. AttendsWindow'
  BY DEF AttendsWindow
<1> QED BY <1>1, <1>2, <1>3, <1>4

-----------------------------------------------------------------------------
(* The steps of handle_generate_real between two forwards.                  *)
LEMMA LoopKeeps ==
    ASSUME IInv, Start \/ PrefillDone \/ Forward \/ ForwardDone \/ LastToken \/ Emit
    PROVE  IInv'
<1> USE DEF IInv
<1>0. NumLayers \in Nat \ {0} /\ MaxPrompt \in Nat /\ MaxNew \in Nat
  BY AttentionAssumption
<1>1. CASE Start
  <2>1. TypeOK'
    BY <1>0, <1>1 DEF TypeOK, Start, kv
  <2>4. Phases'
    <3>1. /\ stage' = "prefill" /\ step' = "head" /\ pos' = 0 /\ emitted' = 0
          /\ n' \in Nat /\ 1 =< n' /\ max' \in Nat /\ 0 < max'
      BY <1>0, <1>1 DEF Start, Phases
    <3>2. 1 =< n'
      BY <3>1
    <3>3. 0 =< n' - 1
      <4>1. \A k \in Nat : 1 =< k => 0 =< k - 1
        OBVIOUS
      <4> QED BY <3>1, <4>1
    <3>4. pos' =< n' - 1
      BY <3>1, <3>3
    <3>5. emitted' < max'
      BY <3>1
    <3> QED BY <3>1, <3>2, <3>4, <3>5 DEF Phases
  <2>2. CacheHoldsPrefix'
    <3>1. \A L \in Layers : offset'[L] = 0
      BY <1>1 DEF Start, kv, Phases, NoOffsets
    <3>2. \A L \in Layers : Seen(L)' = 0
      BY <1>1 DEF Start, Seen, From, Phases
    <3>3. \A L \in Layers : Len(rows'[L]) \in Nat
      BY <2>1 DEF TypeOK
    <3> QED BY <3>1, <3>2, <3>3 DEF CacheHoldsPrefix
  <2>3. AttendsWindow'
    BY <1>1, AttendKept DEF Start
  <2> QED BY <2>1, <2>2, <2>3, <2>4
<1>2. CASE PrefillDone
  <2>1. TypeOK' /\ Phases'
    BY <1>0, <1>2 DEF TypeOK, Phases, PrefillDone, kv, loop
  <2>2. \A L \in Layers : Seen(L)' = Seen(L)
    BY <1>2 DEF PrefillDone, Seen, From, Phases, TypeOK, loop
  <2>3. CacheHoldsPrefix'
    BY <1>2, <2>2, CacheKept DEF PrefillDone
  <2>4. AttendsWindow'
    BY <1>2, AttendKept DEF PrefillDone
  <2> QED BY <2>1, <2>3, <2>4
<1>3. CASE Forward
  <2>1. TypeOK' /\ Phases'
    BY <1>0, <1>3 DEF TypeOK, Phases, Forward, kv, loop
  <2>2. \A L \in Layers : Seen(L)' = Seen(L)
    BY <1>3 DEF Forward, Seen, From, Layers, loop
  <2>3. CacheHoldsPrefix'
    BY <1>3, <2>2, CacheKept DEF Forward, Phases
  <2>4. AttendsWindow'
    BY <1>3 DEF Forward, AttendsWindow
  <2> QED BY <2>1, <2>3, <2>4
<1>4. CASE ForwardDone
  <2>0. stage # "idle"
    BY <1>4 DEF ForwardDone, Phases
  <2>1. TypeOK' /\ Phases'
    BY <1>0, <1>4, <2>0, ForwardTokens DEF TypeOK, Phases, ForwardDone, kv
  <2>2. \A L \in Layers : Seen(L)' = Seen(L)
    <3>1. \A L \in Layers : L < layer /\ Seen(L) = From + S
      BY <1>0, <1>4 DEF ForwardDone, Seen, Layers
    <3>2. CASE stage = "prefill"
      BY <1>4, <3>1, <3>2, ForwardTokens DEF ForwardDone, Seen, From
    <3>3. CASE stage = "seed"
      BY <1>4, <3>1, <3>3 DEF ForwardDone, Seen, From, S, Phases, TypeOK
    <3>4. CASE stage = "decode"
      BY <1>4, <3>1, <3>4 DEF ForwardDone, Seen, From, S, Phases, TypeOK
    <3> QED BY <2>0, <3>2, <3>3, <3>4 DEF TypeOK
  <2>3. CacheHoldsPrefix'
    BY <1>4, <2>0, <2>2, CacheKept DEF ForwardDone
  <2>4. AttendsWindow'
    BY <1>4, AttendKept DEF ForwardDone
  <2> QED BY <2>1, <2>3, <2>4
<1>5. CASE LastToken
  <2>1. TypeOK' /\ Phases'
    BY <1>0, <1>5 DEF TypeOK, Phases, LastToken, kv, loop
  <2>2. \A L \in Layers : Seen(L)' = Seen(L)
    BY <1>5 DEF LastToken, Seen, From, loop, TypeOK
  <2>3. CacheHoldsPrefix'
    BY <1>5, <2>2, CacheKept DEF LastToken
  <2>4. AttendsWindow'
    BY <1>5, AttendKept DEF LastToken
  <2> QED BY <2>1, <2>3, <2>4
<1>6. CASE Emit
  <2>1. CASE Free
    BY <2>1, FreeKeeps
  <2>2. CASE ~Free
    <3>1. TypeOK' /\ Phases'
      BY <1>0, <1>6, <2>2 DEF TypeOK, Phases, Emit, kv
    <3>2. \A L \in Layers : Seen(L)' = Seen(L)
      <4>1. n \in Nat /\ emitted \in Nat /\ stage = "decode" /\ step = "emit"
        BY <1>6 DEF Emit, TypeOK, Phases
      <4>2. /\ emitted + 1 < max /\ emitted' = emitted + 1 /\ n' = n
            /\ step' = "head" /\ stage' = stage
        BY <1>6, <2>2 DEF Emit
      <4>3. \A L \in Layers : Seen(L) = n + emitted + 1
        BY <4>1, <4>2 DEF Seen, From
      <4>4. \A L \in Layers : Seen(L)' = n' + emitted'
        BY <4>1, <4>2 DEF Seen, From
      <4> QED BY <4>1, <4>2, <4>3, <4>4
    <3>3. CacheHoldsPrefix'
      BY <1>6, <2>2, <3>2, CacheKept DEF Emit, Phases
    <3>4. AttendsWindow'
      BY <1>6, <2>2, AttendKept DEF Emit
    <3> QED BY <3>1, <3>3, <3>4
  <2> QED BY <2>1, <2>2
<1> QED BY <1>1, <1>2, <1>3, <1>4, <1>5, <1>6

-----------------------------------------------------------------------------
(* The layers of a forward.                                                 *)

(* A sequence is made of a function on its indices.                         *)
LEMMA KeysSequence ==
    ASSUME NEW m \in Nat, NEW f \in [1..m -> Key]
    PROVE  f \in Seq(Key) /\ Len(f) = m
  OBVIOUS

LEMMA GrowKeeps ==
    ASSUME IInv, Grow \/ GrowDouble \/ GrowCopy
    PROVE  IInv'
<1> USE DEF IInv
<1>0. NumLayers \in Nat \ {0}
  BY AttentionAssumption
<1>1. CASE Grow
  <2>1. Capacity \in Nat /\ layer \in Layers
    BY <1>0, <1>1 DEF Grow, AtLayer, Capacity, TypeOK, Layers
  <2>2. TypeOK'
    BY <1>1, <2>1 DEF TypeOK, Grow, kv, loop
  <2>3. Phases'
    BY <1>1, <2>1 DEF TypeOK, Phases, Grow, AtLayer, kv, loop, Owns, KvShared, Boundary
  <2>4. stage # "idle" /\ \A L \in Layers : Seen(L)' = Seen(L)
    BY <1>1 DEF Grow, AtLayer, Seen, From, S, ChunkEnd, Phases, loop
  <2>5. CacheHoldsPrefix'
    BY <1>1, <2>4, CacheKept DEF Grow
  <2>6. AttendsWindow'
    BY <1>1, AttendKept DEF Grow
  <2> QED BY <2>2, <2>3, <2>5, <2>6
<1>2. CASE GrowDouble
  <2>1. nc \in Nat /\ layer \in Layers
    BY <1>0, <1>2 DEF GrowDouble, TypeOK, Layers, Phases
  <2>2. TypeOK'
    BY <1>2, <2>1 DEF TypeOK, GrowDouble, kv, loop
  <2>3. Phases'
    BY <1>2, <2>1 DEF Phases, GrowDouble, kv, loop, Owns, KvShared, Boundary
  <2>4. stage # "idle" /\ \A L \in Layers : Seen(L)' = Seen(L)
    BY <1>2 DEF GrowDouble, Seen, From, S, ChunkEnd, Phases, loop
  <2>5. CacheHoldsPrefix'
    BY <1>2, <2>4, CacheKept DEF GrowDouble
  <2>6. AttendsWindow'
    BY <1>2, AttendKept DEF GrowDouble
  <2> QED BY <2>2, <2>3, <2>5, <2>6
<1>3. CASE GrowCopy
  <2> DEFINE keys == [i \in 1..nc |-> IF i =< offset[layer] THEN rows[layer][i] ELSE Zero]
  <2>0. layer \in Layers /\ Owns(layer) /\ stage # "idle"
    BY <1>0, <1>3 DEF GrowCopy, TypeOK, Layers, Phases
  <2>1. /\ S \in Nat \ {0} /\ nc \in Nat /\ offset[layer] \in Nat
        /\ nc >= offset[layer] + S /\ offset[layer] =< nc
    BY <1>3, <2>0, ForwardTokens DEF GrowCopy, Needed, TypeOK
  <2>2. /\ offset[layer] =< Len(rows[layer]) /\ rows[layer] \in Seq(Key)
        /\ \A i \in 1..offset[layer] : rows[layer][i] = <<i - 1, i - 1>>
    BY <2>0 DEF CacheHoldsPrefix, TypeOK
  <2>3. keys \in [1..nc -> Key] /\ \A i \in 1..offset[layer] : keys[i] = <<i - 1, i - 1>>
    <3>1. \A i \in 1..nc : i =< offset[layer] => rows[layer][i] \in Key
      BY <2>1, <2>2
    <3>2. Zero \in Key
      BY DEF Key
    <3>3. ASSUME NEW i \in 1..nc PROVE keys[i] \in Key
      <4>1. CASE i =< offset[layer]
        BY <3>1, <4>1
      <4>2. CASE ~(i =< offset[layer])
        <5>1. keys[i] = Zero
          BY <4>2
        <5> QED
          BY <3>2, <5>1
      <4> QED
        BY <4>1, <4>2
    <3>4. keys = [i \in 1..nc |-> keys[i]]
      OBVIOUS
    <3>5. keys \in [1..nc -> Key]
      BY <3>3, <3>4
    <3>6. ASSUME NEW i \in 1..offset[layer] PROVE keys[i] = <<i - 1, i - 1>>
      <4>1. i \in 1..nc /\ i =< offset[layer]
        BY <2>1
      <4>2. keys[i] = rows[layer][i]
        BY <4>1
      <4> QED
        BY <2>2, <4>2
    <3> QED
      BY <3>5, <3>6
  <2>4. keys \in Seq(Key) /\ Len(keys) = nc
    <3> HIDE DEF keys
    <3> QED BY <2>1, <2>3, KeysSequence
  <2>5. rows' = [rows EXCEPT ![layer] = keys]
    BY <1>3 DEF GrowCopy
  <2> HIDE DEF keys
  <2>6. TypeOK'
    BY <1>3, <2>4, <2>5 DEF TypeOK, GrowCopy, loop
  <2>7. Phases'
    BY <1>3, <2>0 DEF Phases, GrowCopy, loop
  <2>8. \A L \in Layers : Seen(L)' = Seen(L)
    BY <1>3 DEF GrowCopy, Seen, From, S, ChunkEnd, loop
  <2>9. CacheHoldsPrefix'
    <3> SUFFICES ASSUME NEW L \in Layers, Owns(L)'
                 PROVE  /\ offset'[L] = Seen(L)' /\ offset'[L] =< Len(rows'[L])
                        /\ \A i \in 1..offset'[L] : rows'[L][i] = <<i - 1, i - 1>>
      BY DEF CacheHoldsPrefix
    <3>1. Owns(L) /\ offset' = offset
      BY <1>3 DEF GrowCopy, Owns, KvShared, Boundary
    <3>2. CASE L = layer
      <4>1. rows'[L] = keys
        BY <2>5, <3>2 DEF TypeOK
      <4>2. offset[L] = Seen(L)
        BY <2>0, <3>1 DEF CacheHoldsPrefix
      <4> QED BY <4>1, <4>2, <3>1, <3>2, <2>1, <2>3, <2>4, <2>8
    <3>3. CASE L # layer
      <4>1. rows'[L] = rows[L]
        BY <2>5, <3>3 DEF TypeOK
      <4> QED BY <4>1, <2>0, <3>1, <2>8 DEF CacheHoldsPrefix
    <3> QED BY <3>2, <3>3
  <2>10. AttendsWindow'
    BY <1>3, AttendKept DEF GrowCopy
  <2> QED BY <2>6, <2>7, <2>9, <2>10
<1> QED BY <1>1, <1>2, <1>3

(* An attention over the right keys leaves att as it should be, whatever the *)
(* layer whose cache was read.                                              *)
LEMMA AttendKeeps ==
    ASSUME IInv, layer \in Layers, NEW src, NEW keys, NEW off,
           Local(src) = Local(layer), step = "layer", off = From + S,
           \A i \in 1..off : keys[i] = <<i - 1, i - 1>>,
           Attend(layer, src, off, keys, From),
           layer' = layer + 1, UNCHANGED cfg
    PROVE  /\ att' \subseteq [tok : Nat, rot : Nat, sees : SUBSET Key]
           /\ AttendsWindow'
<1> USE DEF IInv
<1>1. cfg \in ConfigType /\ From \in Nat /\ S \in Nat \ {0}
  BY ForwardTokens DEF Phases
<1>2. \A a \in att' : /\ a.tok \in Nat /\ a.rot = a.tok
                      /\ a.sees = {<<q, q>> : q \in Window(layer, a.tok)}
  BY <1>1, AttendSees
<1>3. \A a \in att' : a.sees \in SUBSET Key
  BY <1>1, <1>2, AttendTyped
<1>4. \A a \in att' : a \in [tok : Nat, rot : Nat, sees : SUBSET Key]
  <2> TAKE a \in att'
  <2>1. a = [tok |-> a.tok, rot |-> a.rot, sees |-> a.sees]
    BY DEF Attend
  <2> QED BY <2>1, <1>2, <1>3
<1>5. AttendsWindow'
  <2>1. layer' - 1 = layer
    BY DEF TypeOK
  <2>2. ASSUME NEW a \in att'
        PROVE  Window(layer - 1, a.tok)' = Window(layer, a.tok)
    BY <2>1 DEF Window, Local, IsGlobal
  <2> QED BY <1>2, <2>2 DEF AttendsWindow
<1> QED BY <1>4, <1>5

LEMMA OwnLayerKeeps ==
    ASSUME IInv, OwnLayer
    PROVE  IInv'
<1> USE DEF IInv
<1> DEFINE off == offset[layer]
           keys == [i \in 1..Capacity |->
                      IF off < i /\ i =< off + S THEN <<From + i - 1 - off, i - 1>>
                                                 ELSE rows[layer][i]]
<1>1. layer \in Layers /\ Owns(layer) /\ stage # "idle" /\ step = "layer"
  BY AttentionAssumption DEF OwnLayer, AtLayer, TypeOK, Layers, Phases
<1>2. From \in Nat /\ S \in Nat \ {0} /\ off = From /\ Seen(layer) = From
  <2>1. Seen(layer) = From
    BY <1>1 DEF Seen, TypeOK
  <2> QED BY <2>1, <1>1, ForwardTokens DEF CacheHoldsPrefix
<1>3. /\ rows[layer] \in Seq(Key) /\ Capacity \in Nat /\ off + S =< Capacity
      /\ Capacity = Len(rows[layer])
      /\ \A i \in 1..off : rows[layer][i] = <<i - 1, i - 1>>
  BY <1>1 DEF OwnLayer, Needed, Capacity, CacheHoldsPrefix, TypeOK
<1>4. /\ rows' = [rows EXCEPT ![layer] = keys]
      /\ offset' = [offset EXCEPT ![layer] = off + S]
      /\ Attend(layer, layer, off + S, keys, off)
      /\ layer' = layer + 1 /\ UNCHANGED <<cfg, stage, step, loop, nc>>
  BY DEF OwnLayer
<1>5. keys \in [1..Capacity -> Key]
  <2>1. \A i \in 1..Capacity : rows[layer][i] \in Key
    BY <1>3
  <2>2. ASSUME NEW i \in 1..Capacity, off < i PROVE <<From + i - 1 - off, i - 1>> \in Key
    BY <1>2, <2>2 DEF Key
  <2> QED BY <2>1, <2>2
<1>6. \A i \in 1..(off + S) : keys[i] = <<i - 1, i - 1>>
  <2> TAKE i \in 1..(off + S)
  <2>1. i \in 1..Capacity /\ i \in Nat
    BY <1>2, <1>3
  <2>2. CASE off < i
    <3>1. From + i - 1 - off = i - 1 /\ i =< off + S
      BY <1>2, <2>1
    <3> QED BY <2>1, <2>2, <3>1
  <2>3. CASE ~(off < i)
    <3>1. i \in 1..off
      BY <1>2, <2>1, <2>3
    <3> QED BY <2>1, <2>3, <3>1, <1>3
  <2> QED BY <2>2, <2>3
<1> HIDE DEF keys
<1>7. keys \in Seq(Key) /\ Len(keys) = Capacity
  BY <1>3, <1>5, KeysSequence
<1>8. /\ att' \subseteq [tok : Nat, rot : Nat, sees : SUBSET Key]
      /\ AttendsWindow'
  <2>1. off + S = From + S
    BY <1>2
  <2> QED BY <1>1, <1>2, <1>4, <1>6, <2>1, AttendKeeps
<1>9. TypeOK'
  BY <1>1, <1>2, <1>4, <1>7, <1>8, AttentionAssumption DEF TypeOK, loop, Layers
<1>10. Phases'
  BY <1>1, <1>4 DEF Phases, loop
<1>11. CacheHoldsPrefix'
  <2> SUFFICES ASSUME NEW L \in Layers, Owns(L)'
               PROVE  /\ offset'[L] = Seen(L)' /\ offset'[L] =< Len(rows'[L])
                      /\ \A i \in 1..offset'[L] : rows'[L][i] = <<i - 1, i - 1>>
    BY DEF CacheHoldsPrefix
  <2>1. Owns(L)
    BY <1>4 DEF Owns, KvShared, Boundary
  <2>2. From' = From /\ S' = S
    BY <1>4 DEF From, S, ChunkEnd, loop
  <2>3. CASE L = layer
    <3>1. rows'[L] = keys /\ offset'[L] = From + S
      BY <1>2, <1>4, <2>3 DEF TypeOK
    <3>2. Seen(L)' = From + S
      BY <1>1, <1>4, <2>2, <2>3 DEF Seen, Layers
    <3> QED BY <3>1, <3>2, <1>2, <1>3, <1>6, <1>7
  <2>4. CASE L # layer
    <3>1. rows'[L] = rows[L] /\ offset'[L] = offset[L]
      BY <1>4, <2>4 DEF TypeOK
    <3>2. Seen(L)' = Seen(L)
      BY <1>1, <1>4, <2>2, <2>4 DEF Seen, Layers
    <3> QED BY <3>1, <3>2, <1>1, <2>1 DEF CacheHoldsPrefix
  <2> QED BY <2>3, <2>4
<1> QED BY <1>8, <1>9, <1>10, <1>11

LEMMA SharedLayerKeeps ==
    ASSUME IInv, SharedLayer
    PROVE  IInv'
<1> USE DEF IInv
<1> DEFINE src == KvSource(layer)
           rot == offset[src] - S
<1>1. layer \in Layers /\ stage # "idle" /\ step = "layer" /\ src >= 0
  BY AttentionAssumption DEF SharedLayer, AtLayer, TypeOK, Layers, Phases
<1>2. /\ Attend(layer, src, offset[src], rows[src], IF rot < 0 THEN 0 ELSE rot)
      /\ layer' = layer + 1 /\ UNCHANGED <<cfg, stage, step, loop, nc, kv>>
  BY DEF SharedLayer
<1>3. From \in Nat /\ S \in Nat \ {0} /\ cfg \in ConfigType
  BY <1>1, ForwardTokens
<1>4. src \in Layers /\ src < layer /\ Owns(src) /\ Local(src) = Local(layer)
  BY <1>1, <1>3, SourceEarlier
<1> HIDE DEF src
<1>5. /\ offset[src] = From + S
      /\ \A i \in 1..offset[src] : rows[src][i] = <<i - 1, i - 1>>
  <2>1. Seen(src) = From + S
    BY <1>1, <1>4 DEF Seen
  <2> QED BY <2>1, <1>1, <1>4 DEF CacheHoldsPrefix
<1>6. (IF rot < 0 THEN 0 ELSE rot) = From
  BY <1>3, <1>5
<1>7. /\ att' \subseteq [tok : Nat, rot : Nat, sees : SUBSET Key]
      /\ AttendsWindow'
  <2>1. Attend(layer, src, offset[src], rows[src], From)
    BY <1>2, <1>6
  <2> QED BY <1>1, <1>2, <1>4, <1>5, <2>1, AttendKeeps
<1>8. TypeOK'
  BY <1>1, <1>2, <1>7, AttentionAssumption DEF TypeOK, loop, kv, Layers
<1>9. Phases'
  BY <1>1, <1>2 DEF Phases, loop
<1>10. CacheHoldsPrefix'
  <2>1. From' = From /\ S' = S
    BY <1>2 DEF From, S, ChunkEnd, loop
  <2>2. ASSUME NEW L \in Layers, Owns(L) PROVE Seen(L)' = Seen(L)
    <3>1. KvShared(layer)
      BY <1>1 DEF KvSource, src
    <3>2. L # layer
      BY <2>2, <3>1 DEF Owns
    <3> QED BY <1>1, <1>2, <2>1, <3>2 DEF Seen, Layers
  <2> QED BY <1>1, <1>2, <2>2, CacheKept
<1> QED BY <1>7, <1>8, <1>9, <1>10

-----------------------------------------------------------------------------
LEMMA InitInvariant == Init => IInv
<1> SUFFICES ASSUME Init PROVE IInv
  OBVIOUS
<1>1. <<>> \in Seq(Key) /\ 0 \in 0..NumLayers /\ 0 \in 0..MaxPrompt /\ 0 \in 0..MaxNew
  BY AttentionAssumption
<1> QED BY <1>1 DEF Init, Fresh, IInv, TypeOK, Phases, CacheHoldsPrefix, AttendsWindow,
                    NoRows, NoOffsets

LEMMA NextInvariant == IInv /\ [Next]_vars => IInv'
<1> SUFFICES ASSUME IInv, [Next]_vars PROVE IInv'
  OBVIOUS
<1>1. CASE Start \/ PrefillDone \/ Forward \/ ForwardDone \/ LastToken \/ Emit
  BY <1>1, LoopKeeps
<1>2. CASE NoSource \/ GiveUp
  BY <1>2, FreeKeeps DEF NoSource, GiveUp
<1>3. CASE Grow \/ GrowDouble \/ GrowCopy
  BY <1>3, GrowKeeps
<1>4. CASE OwnLayer
  BY <1>4, OwnLayerKeeps
<1>5. CASE SharedLayer
  BY <1>5, SharedLayerKeeps
<1>6. CASE UNCHANGED vars
  <2>1. TypeOK' /\ Phases'
    BY <1>6 DEF IInv, TypeOK, Phases, vars, kv, loop, Owns, KvShared, Boundary
  <2>2. CacheHoldsPrefix'
    <3>1. CASE stage = "idle"
      BY <1>6, <3>1 DEF CacheHoldsPrefix, vars
    <3>2. CASE stage # "idle"
      <4>1. \A L \in Layers : Seen(L)' = Seen(L)
        BY <1>6 DEF Seen, From, S, ChunkEnd, vars, loop
      <4> QED BY <1>6, <3>2, <4>1, CacheKept DEF IInv, vars
    <3> QED BY <3>1, <3>2
  <2>3. AttendsWindow'
    BY <1>6, AttendKept DEF IInv, vars
  <2> QED BY <2>1, <2>2, <2>3 DEF IInv
<1> QED BY <1>1, <1>2, <1>3, <1>4, <1>5, <1>6 DEF Next, Step

THEOREM Invariant == Spec => []IInv
  BY InitInvariant, NextInvariant, PTL DEF Spec

(* The types, with the bounds on the loops: no chunk reaches past the prompt. *)
THEOREM TypeCorrect == Spec => []TypeOK
<1>1. IInv => TypeOK
  BY DEF IInv
<1> QED BY <1>1, Invariant, PTL

(* kvcache_update and grow_entry: every cache holds the keys of the tokens   *)
(* its layer has seen, in their places, for every chunk and capacity.       *)
THEOREM CachesHoldPrefix == Spec => []CacheHoldsPrefix
<1>1. IInv => CacheHoldsPrefix
  BY DEF IInv
<1> QED BY <1>1, Invariant, PTL

(* fwd_attention: a query is turned by its position and sees its window, for *)
(* every arrangement of layers, window, chunk and length.                   *)
THEOREM QueriesSeeTheirWindow == Spec => []AttendsWindow
<1>1. IInv => AttendsWindow
  BY DEF IInv
<1> QED BY <1>1, Invariant, PTL

(* engine_model_check_supported accepts no gemma4 whose shared layers lack a *)
(* written cache of their type when fwd_attention comes to them.             *)
LEMMA AcceptedStays == Spec => [](TypeOK /\ Supported)
<1>1. Init => Supported
  BY DEF Init
<1>2. Supported /\ [Next]_vars => Supported'
  <2> SUFFICES ASSUME Supported, [Next]_vars PROVE Supported'
    OBVIOUS
  <2>1. cfg' = cfg
    BY DEF Next, Step, vars, Start, PrefillDone, Forward, ForwardDone, LastToken, Emit,
           NoSource, GiveUp, Free, Grow, GrowDouble, GrowCopy, OwnLayer, SharedLayer
  <2>2. Boundary' = Boundary /\ \A L \in Layers : IsGlobal(L)' = IsGlobal(L)
    BY <2>1 DEF Boundary, IsGlobal
  <2>3. \A L \in Layers : KvShared(L)' = KvShared(L)
    BY <2>1, <2>2 DEF KvShared
  <2>4. \A L \in Layers : KvSource(L)' = KvSource(L)
    BY <2>1 DEF KvSource, KvShared, Boundary, IsGlobal
  <2> QED BY <2>1, <2>3, <2>4 DEF Supported
<1> QED BY <1>1, <1>2, TypeCorrect, PTL DEF Spec

THEOREM SharedLayersServed == Spec => []SharedServed
<1>1. IInv /\ TypeOK /\ Supported => SharedServed
  <2> SUFFICES ASSUME IInv, Supported, AtLayer, cfg.family = "gemma4", KvShared(layer)
               PROVE  LET src == KvSource(layer) IN
                      /\ src \in Layers /\ Owns(src)
                      /\ Local(src) = Local(layer)
                      /\ offset[src] = From + S
    BY DEF SharedServed
  <2> DEFINE src == KvSource(layer)
  <2>1. layer \in Layers /\ step = "layer" /\ stage # "idle" /\ cfg \in ConfigType
    BY AttentionAssumption, ForwardTokens DEF AtLayer, IInv, TypeOK, Layers, Phases
  <2>2. src >= 0
    BY <2>1 DEF Supported
  <2>3. src \in Layers /\ src < layer /\ Owns(src) /\ Local(src) = Local(layer)
    BY <2>1, <2>2, SourceEarlier
  <2> HIDE DEF src
  <2>4. Seen(src) = From + S
    BY <2>1, <2>3 DEF Seen
  <2>5. offset[src] = From + S
    BY <2>1, <2>3, <2>4 DEF IInv, CacheHoldsPrefix
  <2> QED BY <2>3, <2>5 DEF src
<1> QED BY <1>1, Invariant, AcceptedStays, PTL

-----------------------------------------------------------------------------
(* The model that was loaded                                               *)

(* model_layer_is_global, model_layer_kv_shared and model_kv_source_layer  *)
(* of the record are those Attention has of its fields.                    *)
LEMMA SameLayers ==
    ASSUME NEW c, c.layers = NumLayers, c.shared \in Nat, cfg = AttentionConfig(c)
    PROVE  /\ \A L \in Layers : IsGlobal(L) = model_layer_is_global(c, L)
           /\ \A L \in Layers : KvShared(L) = model_layer_kv_shared(c, L)
           /\ \A L \in Layers : KvSource(L) = model_kv_source_layer(c, L)
<1>1. NumLayers \in Nat /\ Layers = 0..(NumLayers - 1)
  BY AttentionAssumption DEF Layers
<1>2. /\ cfg.explicit = c.explicit /\ cfg.types = [L \in Layers |-> L \in c.global]
      /\ cfg.sliding = c.sliding /\ cfg.pattern = c.pattern /\ cfg.shared = c.shared
  BY DEF AttentionConfig
<1>3. \A L \in Layers : IsGlobal(L) = model_layer_is_global(c, L)
  BY <1>2 DEF IsGlobal, model_layer_is_global
<1>4. \A L \in Layers : KvShared(L) = model_layer_kv_shared(c, L)
  BY <1>2 DEF KvShared, Boundary, model_layer_kv_shared
<1>5. ASSUME NEW L \in Layers PROVE KvSource(L) = model_kv_source_layer(c, L)
  <2>1. Boundary = c.layers - c.shared
    BY <1>2 DEF Boundary
  <2>2. 0..(Boundary - 1) \subseteq Layers
    BY <1>1, <2>1
  <2> DEFINE same == {i \in 0..(Boundary - 1) : IsGlobal(i) = IsGlobal(L)}
             other == {i \in 0..(c.layers - c.shared - 1) :
                         model_layer_is_global(c, i) = model_layer_is_global(c, L)}
             last(T) == CHOOSE i \in T : \A j \in T : j <= i
  <2>3. same = other
    BY <1>3, <2>1, <2>2
  <2>4. KvSource(L) = IF KvShared(L) /\ same # {} THEN last(same) ELSE -1
    BY DEF KvSource
  <2>5. model_kv_source_layer(c, L) =
           IF model_layer_kv_shared(c, L) /\ other # {} THEN last(other) ELSE -1
    BY Zenon DEF model_kv_source_layer
  <2> HIDE DEF same, other, last
  <2> QED BY <1>4, <2>3, <2>4, <2>5
<1> QED BY <1>3, <1>4, <1>5

(* The gate's rules cover what the forward pass relies on.                 *)
LEMMA GateSuffices == ModelInit => Supported
<1> SUFFICES ASSUME ModelInit PROVE Supported
  OBVIOUS
<1> DEFINE c == Config(dir)
<1>1. /\ c.layers = NumLayers /\ engine_model_check_supported(c)
      /\ cfg = AttentionConfig(c) /\ cfg \in ConfigType
  BY LoadedModelAssumption, AttentionAssumption DEF ModelInit, AcceptedDirs, Accepted
<1> HIDE DEF c
<1>2. /\ cfg.shared = c.shared /\ cfg.shared \in Nat /\ cfg.sliding = c.sliding
      /\ cfg.family = IF c.family \in {"mistral", "gemma4"} THEN c.family ELSE "dense"
  BY <1>1 DEF AttentionConfig, ConfigType
<1>3. cfg.family = "dense" => ~cfg.sliding
  BY <1>1, <1>2 DEF engine_model_check_supported, SupportedQwen3, SupportedLlama, SupportedQwen3_5
<1>4. ASSUME cfg.family = "gemma4"
      PROVE  cfg.shared < NumLayers /\ \A L \in Layers : KvShared(L) => KvSource(L) >= 0
  <2>1. c.family = "gemma4"
    BY <1>2, <1>4
  <2>2. SupportedGemma4(c)
    BY <1>1, <2>1 DEF engine_model_check_supported
  <2> QED BY <1>1, <1>2, <2>2, SameLayers DEF SupportedGemma4, Layers
<1> QED BY <1>3, <1>4 DEF Supported

(* engine_model_load and handle_generate_real: a generation of a model     *)
(* that was accepted is a behaviour of Attention.                          *)
THEOREM LoadedModelImplements == ModelSpec => Spec
<1>1. ModelInit => Init
  BY GateSuffices, LoadedModelAssumption DEF ModelInit, Init
<1>2. [Next /\ UNCHANGED dir]_modelvars => [Next]_vars
  BY DEF modelvars
<1> QED BY <1>1, <1>2, PTL DEF ModelSpec, Spec

(* Whatever the directory of an accepted model says of windows, types and  *)
(* shared layers, every query sees its window.                             *)
THEOREM LoadedModelSeesItsWindow == ModelSpec => []AttendsWindow
<1> QED BY LoadedModelImplements, QueriesSeeTheirWindow, PTL

(* And every cache holds the keys of what its layer has seen.              *)
THEOREM LoadedModelCaches == ModelSpec => []CacheHoldsPrefix
<1> QED BY LoadedModelImplements, CachesHoldPrefix, PTL

(* And the gate lets no shared layer through without a cache to read.      *)
THEOREM LoadedModelServesShared == ModelSpec => [](Supported /\ SharedServed)
<1> QED BY LoadedModelImplements, AcceptedStays, SharedLayersServed, PTL

-----------------------------------------------------------------------------
(* Weights                                                                 *)

(* weights_validate lets no matrix through that fwd_linear does not take.  *)
LEMMA MatmulServed ==
    ASSUME NEW m, NEW c, NEW name, ExpectedOk(m, c, name, "matmul"),
           NoOrphan(m), QuantizedOk(m, c),
           c.quant.bits > 0 \/ \A k \in DOMAIN m : k.part # "scales"
    PROVE  TripletServed(m, c, name)
<1> DEFINE weight == Part(name, "weight")
           scales == Part(name, "scales")
           biases == Part(name, "biases")
<1>1. /\ weight.name = name
      /\ scales.name = name /\ scales.part = "scales"
      /\ biases.name = name /\ biases.part = "biases"
  BY DEF Part
<1>2. \/ IsFloat(m, weight)
      \/ /\ weight \in DOMAIN m /\ m[weight] = "uint32" /\ c.quant.bits > 0
         /\ IsFloat(m, scales) /\ IsFloat(m, biases)
  BY DEF ExpectedOk
<1>3. scales \in DOMAIN m <=> biases \in DOMAIN m
  BY <1>1 DEF NoOrphan
<1>4. ASSUME scales \in DOMAIN m PROVE c.quant.bits > 0 /\ m[weight] = "uint32"
  <2>1. c.quant.bits > 0
    BY <1>1, <1>4
  <2>2. weight \in DOMAIN m
    BY <1>2 DEF IsFloat
  <2>3. name \in {k.name : k \in DOMAIN m}
    BY <1>1, <1>4
  <2> QED BY <1>4, <2>1, <2>2, <2>3 DEF QuantizedOk
<1>5. weight \in DOMAIN m /\ (scales \notin DOMAIN m => m[weight] = "float")
  BY <1>2 DEF IsFloat
<1> QED BY <1>3, <1>4, <1>5 DEF TripletServed

(* Whatever a forward of an accepted model asks for is among the names that *)
(* weights_expected_names makes of the same configuration.                 *)
LEMMA AsksForExpected ==
    ASSUME NEW c, engine_model_check_supported(c), ~c.bias,
           c.family = "gemma4" \/ c.per_layer_input = 0
    PROVE  /\ \A name \in Triplets(c) : <<name, "matmul">> \in ExpectedNames(c)
           /\ \A k \in Vectors(c) : \E name :
                 \/ k = Part(name, "weight") /\ <<name, "norm">> \in ExpectedNames(c)
                 \/ k = Part(name, "") /\ <<name, "bare">> \in ExpectedNames(c)
<1> DEFINE Ls == 0..(c.layers - 1)
           E == ExpectedNames(c)
           Roots(kind) == NamesOf(c, Root, ExpectedOfRoot(c)[kind])
           Names(L, kind) == NamesOf(c, L, ExpectedOfLayer(c, L)[kind])
<1>1. /\ c.family \in {"qwen3", "qwen3_5", "llama", "mistral", "gemma4"}
      /\ c.family # "gemma4" => ~c.has_pre_ff_norm
      /\ c.family = "gemma4" =>
            \A L \in Ls : model_layer_kv_shared(c, L) => model_kv_source_layer(c, L) >= 0
  BY DEF engine_model_check_supported, SupportedQwen3, SupportedLlama, SupportedMistral,
         SupportedGemma4, SupportedQwen3_5, Dense
<1>2. c.per_layer_input > 0 => c.family = "gemma4"
  OBVIOUS
<1>3. /\ RootTriplets(c) \subseteq ExpectedOfRoot(c)["matmul"]
      /\ RootVectors(c) \subseteq ExpectedOfRoot(c)["norm"]
  BY <1>2 DEF RootTriplets, RootVectors, PleRoot, ExpectedOfRoot
<1>4. ASSUME NEW L \in Ls
      PROVE  /\ LayerTriplets(c, L) \subseteq ExpectedOfLayer(c, L)["matmul"]
             /\ LayerVectors(c, L) \subseteq ExpectedOfLayer(c, L)["norm"]
             /\ Scalars(c) \subseteq ExpectedOfLayer(c, L)["bare"]
             /\ Biased(c, L) = {}
  <2>1. CASE c.family = "gemma4"
    BY <1>1, <1>2, <1>4, <2>1
       DEF LayerTriplets, AttentionTriplets, LayerVectors, AttentionVectors, Scalars, Biased,
           PleTriplets, ExpectedOfLayer, Gemma4Layer, KeysAreValues
  <2>2. CASE c.family # "gemma4"
    BY <1>1, <1>2, <1>4, <2>2
       DEF LayerTriplets, AttentionTriplets, LayerVectors, AttentionVectors, Scalars, Biased,
           PleTriplets, ExpectedOfLayer, DenseLayer
  <2> QED BY <2>1, <2>2
<1>5. \A kind \in Kinds :
         /\ \A name \in Roots(kind) : <<name, kind>> \in E
         /\ \A L \in Ls : \A name \in Names(L, kind) : <<name, kind>> \in E
  <2>1. ASSUME NEW kind \in Kinds, NEW L, NEW e, NEW name \in NamesOf(c, L, e[kind])
        PROVE  <<name, kind>> \in Expects(c, L, e)
    BY DEF Expects
  <2>2. /\ Expects(c, Root, ExpectedOfRoot(c)) \subseteq E
        /\ (UNION {Expects(c, L, ExpectedOfLayer(c, L)) : L \in Ls}) \subseteq E
    BY <1>1 DEF ExpectedNames
  <2>3. \A L \in Ls : Expects(c, L, ExpectedOfLayer(c, L)) \subseteq E
    BY <2>2
  <2> QED BY <2>1, <2>2, <2>3
<1>6. \A name \in HeadNames(c) : <<name, "matmul">> \in E
  BY <1>1 DEF ExpectedNames
<1>7. {"matmul", "norm", "bare"} = Kinds
  BY DEF Kinds
<1>8. ASSUME NEW name \in Triplets(c) PROVE <<name, "matmul">> \in E
  <2>1. \/ name \in NamesOf(c, Root, RootTriplets(c))
        \/ \E L \in Ls : name \in NamesOf(c, L, LayerTriplets(c, L))
        \/ name \in HeadNames(c)
    BY <1>8 DEF Triplets
  <2>2. NamesOf(c, Root, RootTriplets(c)) \subseteq Roots("matmul")
    BY <1>3 DEF NamesOf
  <2>3. \A L \in Ls : NamesOf(c, L, LayerTriplets(c, L)) \subseteq Names(L, "matmul")
    BY <1>4 DEF NamesOf
  <2> HIDE DEF Roots, Names, Ls, E
  <2> QED BY <1>5, <1>6, <1>7, <2>1, <2>2, <2>3
<1>9. ASSUME NEW k \in Vectors(c)
      PROVE  \E name : \/ k = Part(name, "weight") /\ <<name, "norm">> \in E
                       \/ k = Part(name, "") /\ <<name, "bare">> \in E
  <2>1. \/ k \in Parts(NamesOf(c, Root, RootVectors(c)), "weight")
        \/ \E L \in Ls : \/ k \in Parts(NamesOf(c, L, LayerVectors(c, L)), "weight")
                         \/ k \in Parts(NamesOf(c, L, Biased(c, L)), "bias")
                         \/ k \in Parts(NamesOf(c, L, Scalars(c)), "")
    BY <1>9 DEF Vectors
  <2>2. NamesOf(c, Root, RootVectors(c)) \subseteq Roots("norm")
    BY <1>3 DEF NamesOf
  <2>3. \A L \in Ls : /\ NamesOf(c, L, LayerVectors(c, L)) \subseteq Names(L, "norm")
                     /\ NamesOf(c, L, Scalars(c)) \subseteq Names(L, "bare")
                     /\ NamesOf(c, L, Biased(c, L)) = {}
    BY <1>4 DEF NamesOf
  <2> HIDE DEF Roots, Names, Ls, E
  <2> QED BY <1>5, <1>7, <2>1, <2>2, <2>3 DEF Parts
<1> QED BY <1>8, <1>9

(* weights_load and the forward pass agree on the tensors of every model   *)
(* that is accepted, of every family and size and in any number of files.  *)
THEOREM LoadedModelHasItsTensors == ModelSpec => []TensorsServed
<1> DEFINE Fits == Plain(dir) => Served(Merged(dir), Config(dir))
<1>1. ASSUME ModelInit, Plain(dir) PROVE Served(Merged(dir), Config(dir))
  <2> DEFINE c == Config(dir)
             m == Merged(dir)
  <2>1. /\ engine_model_check_supported(c) /\ QuantizedOk(m, c) /\ NoOrphan(m)
        /\ \A e \in ExpectedNames(c) : ExpectedOk(m, c, e[1], e[2])
    BY <1>1 DEF ModelInit, AcceptedDirs, Accepted, weights_load
  <2>2. /\ ~c.bias /\ (c.family = "gemma4" \/ c.per_layer_input = 0)
        /\ c.quant.bits > 0 \/ \A k \in DOMAIN m : k.part # "scales"
    BY <1>1 DEF Plain
  <2> HIDE DEF c, m
  <2>3. \A name \in Triplets(c) : TripletServed(m, c, name)
    <3>1. \A name, kind : <<name, kind>> \in ExpectedNames(c) => ExpectedOk(m, c, name, kind)
      BY <2>1
    <3>2. \A name \in Triplets(c) : ExpectedOk(m, c, name, "matmul")
      BY <2>1, <2>2, <3>1, AsksForExpected
    <3> QED BY <2>1, <2>2, <3>2, MatmulServed
  <2>4. \A k \in Vectors(c) : IsFloat(m, k)
    <3>1. \A name : /\ ExpectedOk(m, c, name, "norm") => IsFloat(m, Part(name, "weight"))
                    /\ ExpectedOk(m, c, name, "bare") => IsFloat(m, Part(name, ""))
      BY DEF ExpectedOk
    <3>2. \A name, kind : <<name, kind>> \in ExpectedNames(c) => ExpectedOk(m, c, name, kind)
      BY <2>1
    <3>3. \A k \in Vectors(c) : \E name :
             \/ k = Part(name, "weight") /\ <<name, "norm">> \in ExpectedNames(c)
             \/ k = Part(name, "") /\ <<name, "bare">> \in ExpectedNames(c)
      BY <2>1, <2>2, AsksForExpected
    <3> QED BY <3>1, <3>2, <3>3
  <2> QED BY <2>3, <2>4 DEF Served, c, m
<1>2. ModelInit => Fits
  BY <1>1
<1>3. Fits /\ [Next /\ UNCHANGED dir]_modelvars => Fits'
  BY DEF modelvars, Plain, Served
<1>4. Fits => TensorsServed
  BY DEF TensorsServed
<1> QED BY <1>2, <1>3, <1>4, PTL DEF ModelSpec

-----------------------------------------------------------------------------
(* The configuration means what the files say                              *)

(* model_config_load: where the fields read below come from.               *)
LEMMA LoadedFields ==
    ASSUME NEW root, NEW generation
    PROVE  LET c == ModelConfigLoad(root, generation)
               obj == TextOf(root)
               family == FamilyOf(root.model_type.v, obj)
           IN  /\ c.family = family
               /\ c.layers = Dim(obj, "num_hidden_layers")
               /\ c.sliding = HasWindow(family, obj) /\ c.window = WindowOf(family, obj)
               /\ c.pattern = Pattern(family, obj)
               /\ c.explicit = Is(obj, "layer_types", "arr") /\ c.global = GlobalLayers(obj)
               /\ c.eos = EosTokens(family, root, obj, generation)
               /\ c.generation = GenerationDefaults(generation)
BY DEF ModelConfigLoad

(* An accepted model has the family its model_type names.                  *)
LEMMA AcceptedFamily ==
    ASSUME NEW d, Accepted(d)
    PROVE  /\ Config(d).family = model_family_from_type(d.config.model_type.v)
           /\ Config(d).family \in {"qwen3", "llama", "mistral", "gemma4", "qwen3_5"}
<1> DEFINE c == Config(d)
<1>1. c.family = FamilyOf(d.config.model_type.v, TextOf(d.config))
  BY LoadedFields DEF Config
<1>2. c.family \in {"qwen3", "llama", "mistral", "gemma4", "qwen3_5"}
  BY DEF Accepted, engine_model_check_supported
<1> HIDE DEF c
<1>3. c.family = model_family_from_type(d.config.model_type.v)
  BY <1>1, <1>2 DEF FamilyOf
<1> QED BY <1>2, <1>3 DEF c

(* The layers model_layer_is_global calls global are those the list calls  *)
(* full or, without a list, the last of every group of the pattern.        *)
LEMMA GlobalsMeant ==
    ASSUME NEW root, Loads(root), NEW family \in {"mistral", "gemma4"},
           NEW L \in Nat, L < Dim(TextOf(root), "num_hidden_layers"),
           Is(TextOf(root), "layer_types", "arr") =>
               Len(TextOf(root).layer_types.v) \in Nat
    PROVE  LET obj == TextOf(root) IN
           /\ Is(obj, "layer_types", "arr") =>
                 (L \in GlobalLayers(obj) <=>
                     /\ L < Len(obj.layer_types.v)
                     /\ obj.layer_types.v[L + 1].v = "full_attention")
           /\ Pattern(family, obj) > 0 /\ L % Pattern(family, obj) = Pattern(family, obj) - 1 <=>
                 /\ ~Missing(obj, "sliding_window_pattern")
                 /\ (L + 1) % obj.sliding_window_pattern.v = 0
<1> DEFINE obj == TextOf(root)
<1>1. MAX_LAYERS \in Nat /\ INT_MAX \in Nat
  BY ModelConfigAssumption
<1>2. Value(obj, "num_hidden_layers", 0) <= MAX_LAYERS /\ IsDim(obj, "num_hidden_layers")
  BY DEF Loads, Dims
<1>3. L < MAX_LAYERS
  <2>1. Value(obj, "num_hidden_layers", 0) \in Nat
    BY <1>1, <1>2 DEF IsDim, IsIntFrom, Value
  <2> QED BY <1>1, <1>2, <2>1 DEF Dim
<1>4. IsDim(obj, "sliding_window_pattern")
  BY DEF Loads, Dims
<1> HIDE DEF obj
<1>5. ASSUME Is(obj, "layer_types", "arr")
      PROVE  L \in GlobalLayers(obj) <=>
                 /\ L < Len(obj.layer_types.v)
                 /\ obj.layer_types.v[L + 1].v = "full_attention"
  <2>1. Len(obj.layer_types.v) \in Nat
    BY <1>5 DEF obj
  <2>2. L \in 0..(Len(obj.layer_types.v) - 1) <=> L < Len(obj.layer_types.v)
    BY <2>1
  <2> QED BY <1>3, <1>5, <2>2 DEF GlobalLayers
<1>6. Pattern(family, obj) = IF Missing(obj, "sliding_window_pattern") THEN 0
                             ELSE obj.sliding_window_pattern.v
  BY DEF Pattern, Dim, Value
<1>7. ~Missing(obj, "sliding_window_pattern") => obj.sliding_window_pattern.v \in Nat \ {0}
  BY <1>1, <1>4 DEF IsDim, IsIntFrom
<1>8. ASSUME NEW p \in Nat \ {0} PROVE L % p = p - 1 <=> (L + 1) % p = 0
  <2> DEFINE r == L % p
             q == L \div p
  <2>1. r \in 0..(p - 1) /\ q \in Int /\ L = q * p + r
    OBVIOUS
  <2>2. (L + 1) = q * p + (r + 1)
    BY <2>1
  <2>3. CASE r = p - 1
    <3>1. L + 1 = (q + 1) * p
      BY <2>1, <2>2, <2>3
    <3>2. PICK t \in Int : (L + 1) % p = t * p
      <4>1. L + 1 = (((L + 1) \div p) * p) + ((L + 1) % p) /\ (L + 1) \div p \in Int
        OBVIOUS
      <4>2. (L + 1) % p = (q + 1 - (L + 1) \div p) * p
        BY <2>1, <3>1, <4>1
      <4>3. q + 1 - (L + 1) \div p \in Int
        BY <2>1, <4>1
      <4> HIDE DEF q
      <4> QED BY <4>2, <4>3
    <3>3. (L + 1) % p \in 0..(p - 1)
      OBVIOUS
    <3>4. t * p < p => t <= 0
      OBVIOUS
    <3>5. t * p >= 0 => t >= 0
      OBVIOUS
    <3>6. t = 0
      BY <3>2, <3>3, <3>4, <3>5
    <3> QED BY <2>3, <3>2, <3>6
  <2>4. CASE r # p - 1
    <3>1. r + 1 \in 1..(p - 1)
      BY <2>1, <2>4
    <3>2. (L + 1) % p = r + 1
      BY <2>1, <2>2, <3>1
    <3> QED BY <2>4, <3>1, <3>2
  <2> QED BY <2>3, <2>4
<1> QED BY <1>5, <1>6, <1>7, <1>8 DEF obj

(* sliding_window: a window is on when the files give one, and is theirs.  *)
LEMMA WindowMeant ==
    ASSUME NEW root, Loads(root), NEW family \in {"mistral", "gemma4"}
    PROVE  LET obj == TextOf(root)
               meant == IF Present(obj, "sliding_window") THEN Value(obj, "sliding_window", 0)
                        ELSE IF family = "gemma4" THEN 1024 ELSE 0
           IN  /\ meant \in Nat
               /\ HasWindow(family, obj) => WindowOf(family, obj) = meant
               /\ ~HasWindow(family, obj) => meant = 0
<1> DEFINE obj == TextOf(root)
<1>1. IsNonneg(obj, "sliding_window") /\ INT_MAX \in Nat
  BY ModelConfigAssumption DEF Loads
<1> HIDE DEF obj
<1>2. \/ Missing(obj, "sliding_window") /\ ~Is(obj, "sliding_window", "int")
      \/ /\ Is(obj, "sliding_window", "int") /\ ~Missing(obj, "sliding_window")
         /\ obj.sliding_window.v \in Nat /\ Present(obj, "sliding_window")
  BY <1>1 DEF IsNonneg, IsIntFrom, Missing, Is, Present, Get, NoKey
<1> QED BY <1>2 DEF HasWindow, WindowOf, Value, Gemmas, obj

(* Whichever keys a file has, every layer of an accepted model runs with   *)
(* the window the file gives it.                                           *)
LEMMA WindowsMeant ==
    ASSUME ModelInit
    PROVE  \A L \in Layers : MaxKv(L) = MeantWindow(L)
<1> DEFINE c == Config(dir)
           family == model_family_from_type(dir.config.model_type.v)
<1>1. Accepted(dir) /\ Loads(dir.config) /\ c.layers = NumLayers /\ cfg = AttentionConfig(c)
  BY DEF ModelInit, AcceptedDirs, Accepted
<1>2. c.family = family /\ family \in {"qwen3", "llama", "mistral", "gemma4", "qwen3_5"}
  BY <1>1, AcceptedFamily
<1>3. /\ c.layers = Dim(Text, "num_hidden_layers")
      /\ c.sliding = HasWindow(family, Text) /\ c.window = WindowOf(family, Text)
      /\ c.pattern = Pattern(family, Text)
      /\ c.explicit = Is(Text, "layer_types", "arr") /\ c.global = GlobalLayers(Text)
  BY <1>2, LoadedFields DEF Config, Text
<1> HIDE DEF c
<1>4. /\ cfg.family = IF family \in {"mistral", "gemma4"} THEN family ELSE "dense"
      /\ cfg.sliding = c.sliding /\ cfg.window = c.window /\ cfg.pattern = c.pattern
      /\ cfg.explicit = c.explicit /\ cfg.types = [L \in Layers |-> L \in c.global]
  BY <1>1, <1>2 DEF AttentionConfig
<1> HIDE DEF family
<1>5. Supported /\ cfg \in ConfigType
  BY <1>1, GateSuffices, LoadedModelAssumption, AttentionAssumption DEF ModelInit, AcceptedDirs
<1>6. Layers = 0..(NumLayers - 1) /\ NumLayers \in Nat
  BY AttentionAssumption DEF Layers
<1> SUFFICES ASSUME NEW L \in Layers PROVE MaxKv(L) = MeantWindow(L)
  OBVIOUS
<1>7. CASE family \notin {"mistral", "gemma4"}
  <2>1. ~cfg.sliding
    BY <1>2, <1>4, <1>5, <1>7 DEF Supported
  <2> QED BY <1>7, <2>1 DEF MaxKv, Local, MeantWindow, family
<1>8. CASE family \in {"mistral", "gemma4"}
  <2> DEFINE meant == IF Present(Text, "sliding_window") THEN Value(Text, "sliding_window", 0)
                      ELSE IF family = "gemma4" THEN 1024 ELSE 0
             full == IF Is(Text, "layer_types", "arr")
                     THEN /\ L < Len(Text.layer_types.v)
                          /\ Text.layer_types.v[L + 1].v = "full_attention"
                     ELSE /\ ~Missing(Text, "sliding_window_pattern")
                          /\ (L + 1) % Text.sliding_window_pattern.v = 0
  <2>1. MeantWindow(L) = IF ~full THEN meant ELSE 0
    BY <1>8 DEF MeantWindow, family
  <2>2. /\ meant \in Nat
        /\ HasWindow(family, Text) => WindowOf(family, Text) = meant
        /\ ~HasWindow(family, Text) => meant = 0
    BY <1>1, <1>8, WindowMeant DEF Text
  <2>3. Is(Text, "layer_types", "arr") => Len(Text.layer_types.v) \in Nat
    <3>1. Is(Text, "layer_types", "arr") =>
             /\ "layer_types" \in DOMAIN Text
             /\ Text["layer_types"].t = "arr"
      BY DEF Is, Get, NoKey
    <3>2. dir \in Dirs
      BY DEF ModelInit, AcceptedDirs
    <3>3. Is(Text, "layer_types", "arr") =>
             \E T : Text.layer_types.v \in Seq(T)
      BY <3>1, <3>2, DirsAssumption DEF Text
    <3> QED BY <3>3
  <2>4. L \in Nat /\ L < Dim(Text, "num_hidden_layers")
    <3>1. L \in Nat /\ L < NumLayers
      BY <1>6
    <3>2. Dim(Text, "num_hidden_layers") = NumLayers
      BY <1>1, <1>3
    <3> QED BY <3>1, <3>2
  <2>5. /\ Is(Text, "layer_types", "arr") => (L \in GlobalLayers(Text) <=> full)
        /\ ~Is(Text, "layer_types", "arr") =>
              (full <=> Pattern(family, Text) > 0 /\ L % Pattern(family, Text) = Pattern(family, Text) - 1)
    BY <1>1, <1>8, <2>3, <2>4, GlobalsMeant DEF Text
  <2> HIDE DEF full, meant
  <2>6. cfg.sliding = TRUE => (IsGlobal(L) <=> full)
    BY <1>3, <1>4, <2>5 DEF IsGlobal
  <2>7. cfg.sliding \in BOOLEAN
    BY <1>5 DEF ConfigType
  <2>8. CASE cfg.sliding = TRUE
    BY <1>3, <1>4, <2>1, <2>2, <2>6, <2>8 DEF MaxKv, Local
  <2>9. CASE cfg.sliding = FALSE
    BY <1>3, <1>4, <2>1, <2>2, <2>9 DEF MaxKv, Local
  <2> QED BY <2>7, <2>8, <2>9
<1> QED BY <1>7, <1>8

-----------------------------------------------------------------------------
(* Ends of sequence: what add_eos keeps                                    *)

(* The ids kept after every number of ids given.                           *)
IsAdding(g, ids, len) ==
    g = [i \in 0..len |-> IF i = 0 THEN <<>> ELSE AddEos(g[i - 1], ids[i])]

Adding(ids) == CHOOSE g : IsAdding(g, ids, Len(ids))

LEMMA AddedLast == \A ids : AddAllEos(ids) = Adding(ids)[Len(ids)]
BY DEF AddAllEos, Adding, IsAdding

(* Numbers that go on from each to the next are all of them.  (Induction   *)
(* over a bounded set, from Greatest.)                                     *)
LEMMA UpTo ==
    ASSUME NEW len \in Nat, NEW T \in SUBSET (0..len), 0 \in T,
           \A i \in 0..(len - 1) : i \in T => i + 1 \in T
    PROVE  T = 0..len
<1> DEFINE C == {j \in T : 0..j \subseteq T}
<1>1. C \in SUBSET (0..len) /\ C # {}
  <2>1. 0..0 = {0}
    OBVIOUS
  <2>2. 0 \in C
    BY <2>1
  <2> QED BY <2>2
<1>2. PICK i \in C : \A j \in C : j =< i
  <2> HIDE DEF C
  <2> QED BY <1>1, Greatest
<1>3. CASE i = len
  BY <1>2, <1>3
<1>4. CASE i \in 0..(len - 1)
  <2>1. i + 1 \in T /\ 0..(i + 1) = 0..i \cup {i + 1}
    BY <1>4
  <2>2. i + 1 \in C
    BY <2>1
  <2> QED BY <1>2, <1>4, <2>2
<1> QED BY <1>2, <1>3, <1>4

LEMMA AddingExists ==
    ASSUME NEW ids, Len(ids) \in Nat
    PROVE  IsAdding(Adding(ids), ids, Len(ids))
<1> DEFINE len == Len(ids)
           T == {k \in 0..len : \E g : IsAdding(g, ids, k)}
<1>1. 0 \in T
  <2> DEFINE g == [i \in 0..0 |-> <<>>]
  <2>1. g = [i \in 0..0 |-> IF i = 0 THEN <<>> ELSE AddEos(g[i - 1], ids[i])]
    OBVIOUS
  <2>2. IsAdding(g, ids, 0)
    BY <2>1 DEF IsAdding
  <2> QED BY <2>2
<1>2. ASSUME NEW k \in 0..(len - 1), k \in T PROVE k + 1 \in T
  <2>1. PICK g : IsAdding(g, ids, k)
    BY <1>2
  <2> DEFINE h == [i \in 0..(k + 1) |-> IF i = k + 1 THEN AddEos(g[k], ids[k + 1]) ELSE g[i]]
  <2>2. \A i \in 0..k : g[i] = IF i = 0 THEN <<>> ELSE AddEos(g[i - 1], ids[i])
    BY <2>1 DEF IsAdding
  <2>3. ASSUME NEW i \in 0..(k + 1)
        PROVE  h[i] = IF i = 0 THEN <<>> ELSE AddEos(h[i - 1], ids[i])
    <3>1. CASE i = 0
      <4>1. h[i] = g[i] /\ 0 \in 0..k
        BY <3>1
      <4> QED BY <2>2, <3>1, <4>1
    <3>2. CASE i \in 1..k
      <4>1. h[i] = g[i] /\ h[i - 1] = g[i - 1] /\ i \in 0..k /\ i # 0
        BY <3>2
      <4> HIDE DEF h
      <4> QED BY <2>2, <4>1
    <3>3. CASE i = k + 1
      <4>1. k \in 0..(k + 1) /\ k + 1 \in 0..(k + 1) /\ k # k + 1 /\ i # 0 /\ i - 1 = k
        BY <3>3
      <4>2. h[k + 1] = AddEos(g[k], ids[k + 1]) /\ h[k] = g[k]
        BY <4>1
      <4> HIDE DEF h
      <4> QED BY <3>3, <4>1, <4>2
    <3> QED BY <3>1, <3>2, <3>3
  <2>4. h = [i \in 0..(k + 1) |-> h[i]]
    OBVIOUS
  <2> HIDE DEF h
  <2>5. h = [i \in 0..(k + 1) |-> IF i = 0 THEN <<>> ELSE AddEos(h[i - 1], ids[i])]
    BY <2>3, <2>4
  <2>6. IsAdding(h, ids, k + 1) /\ k + 1 \in 0..len
    BY <2>5 DEF IsAdding
  <2> QED BY <2>6
<1>3. len \in T
  <2>1. T \in SUBSET (0..len)
    OBVIOUS
  <2> HIDE DEF T
  <2> QED BY <1>1, <1>2, <2>1, UpTo
<1> QED BY <1>3 DEF Adding

LEMMA AddingStep ==
    ASSUME NEW ids, Len(ids) \in Nat
    PROVE  /\ Adding(ids)[0] = <<>>
           /\ \A i \in 0..(Len(ids) - 1) :
                 Adding(ids)[i + 1] = AddEos(Adding(ids)[i], ids[i + 1])
<1> DEFINE g == Adding(ids)
<1>1. \A i \in 0..Len(ids) : g[i] = IF i = 0 THEN <<>> ELSE AddEos(g[i - 1], ids[i])
  BY AddingExists DEF IsAdding
<1> HIDE DEF g
<1>2. ASSUME NEW i \in 0..(Len(ids) - 1) PROVE g[i + 1] = AddEos(g[i], ids[i + 1])
  <2>1. i + 1 \in 0..Len(ids) /\ i + 1 # 0 /\ (i + 1) - 1 = i
    OBVIOUS
  <2>2. g[i + 1] = AddEos(g[(i + 1) - 1], ids[i + 1])
    BY <1>1, <2>1
  <2> QED BY <2>1, <2>2
<1> QED BY <1>1, <1>2 DEF g

(* add_eos keeps ids once each, and no more than there is room for.        *)
In(ids) == {ids[i] : i \in DOMAIN ids}
Kept(ids) ==
    /\ ids \in Seq(Nat) /\ Len(ids) <= MAX_EOS_TOKENS
    /\ IsFiniteSet(In(ids)) /\ Cardinality(In(ids)) = Len(ids)

LEMMA OneAdded ==
    ASSUME NEW ids, Kept(ids), NEW id \in Nat
    PROVE  LET more == AddEos(ids, id) IN
           /\ Kept(more)
           /\ In(ids) \subseteq In(more) /\ In(more) \subseteq In(ids) \cup {id}
           /\ id \in In(more) \/ Len(more) = MAX_EOS_TOKENS
<1> DEFINE more == AddEos(ids, id)
<1>1. MAX_EOS_TOKENS \in Nat /\ ids \in Seq(Nat) /\ Len(ids) \in Nat /\ Len(ids) <= MAX_EOS_TOKENS
  BY ModelConfigAssumption DEF Kept
<1>2. CASE id \in In(ids)
  BY <1>2 DEF AddEos, In
<1>3. CASE Len(ids) >= MAX_EOS_TOKENS
  <2>1. more = ids
    BY <1>3 DEF AddEos
  <2> QED BY <1>1, <1>3, <2>1
<1>4. CASE id \notin In(ids) /\ Len(ids) < MAX_EOS_TOKENS
  <2>1. more = Append(ids, id)
    BY <1>1, <1>4 DEF AddEos, In
  <2>2. /\ more \in Seq(Nat) /\ Len(more) = Len(ids) + 1
        /\ \A i \in 1..Len(ids) : more[i] = ids[i]
        /\ more[Len(ids) + 1] = id
        /\ DOMAIN more = 1..(Len(ids) + 1) /\ DOMAIN ids = 1..Len(ids)
    BY <1>1, <2>1
  <2>3. In(more) = In(ids) \cup {id}
    <3> HIDE DEF more
    <3>1. \A i \in DOMAIN more : i \in DOMAIN ids \/ i = Len(ids) + 1
      BY <1>1, <2>2
    <3>2. DOMAIN ids \subseteq DOMAIN more /\ Len(ids) + 1 \in DOMAIN more
      BY <1>1, <2>2
    <3> QED BY <2>2, <3>1, <3>2 DEF In
  <2>4. IsFiniteSet(In(ids)) /\ Cardinality(In(ids)) = Len(ids)
    BY DEF Kept
  <2>5. IsFiniteSet(In(more)) /\ Cardinality(In(more)) = Len(ids) + 1
    BY <1>4, <2>3, <2>4, FS_AddElement
  <2>6. Kept(more)
    BY <1>1, <1>4, <2>2, <2>5 DEF Kept
  <2> QED BY <2>3, <2>6
<1> QED BY <1>1, <1>2, <1>3, <1>4

(* The first m ids are kept if there is room for them, whatever follows.   *)
LEMMA FirstKept ==
    ASSUME NEW ids \in Seq(Nat), NEW m \in 0..Len(ids),
           Cardinality({ids[i] : i \in 1..m}) <= MAX_EOS_TOKENS
    PROVE  {ids[i] : i \in 1..m} \subseteq In(AddAllEos(ids))
<1> DEFINE g == Adding(ids)
           len == Len(ids)
           F(k) == {ids[i] : i \in 1..k}
           T == {k \in 0..len : /\ Kept(g[k]) /\ In(g[k]) \subseteq F(k)
                                /\ Len(g[k]) < MAX_EOS_TOKENS => F(k) \subseteq In(g[k])
                                /\ k >= m => F(m) \subseteq In(g[k])}
<1>1. len \in Nat /\ MAX_EOS_TOKENS \in Nat /\ m \in 0..len
  BY ModelConfigAssumption
<1>2. g[0] = <<>> /\ \A i \in 0..(len - 1) : g[i + 1] = AddEos(g[i], ids[i + 1])
  BY <1>1, AddingStep
<1>3. F(0) = {} /\ \A k \in 0..(len - 1) : F(k + 1) = F(k) \cup {ids[k + 1]} /\ ids[k + 1] \in Nat
  <2>1. 1..0 = {}
    OBVIOUS
  <2>2. \A k \in 0..(len - 1) : 1..(k + 1) = 1..k \cup {k + 1} /\ k + 1 \in 1..len
    OBVIOUS
  <2> QED BY <2>1, <2>2
<1>4. \A k \in 0..len : IsFiniteSet(F(k))
  <2> DEFINE K == {k \in 0..len : IsFiniteSet(F(k))}
  <2> HIDE DEF F
  <2>1. 0 \in K
    <3>1. F(0) = {} /\ IsFiniteSet({}) /\ 0 \in 0..len
      BY <1>1, <1>3, FS_EmptySet
    <3>2. IsFiniteSet(F(0))
      BY <3>1
    <3> QED BY <3>1, <3>2
  <2>2. ASSUME NEW k \in 0..(len - 1), k \in K PROVE k + 1 \in K
    <3>1. F(k + 1) = F(k) \cup {ids[k + 1]} /\ k + 1 \in 0..len
      BY <1>1, <1>3
    <3>2. IsFiniteSet(F(k) \cup {ids[k + 1]})
      BY <2>2, FS_AddElement
    <3>3. IsFiniteSet(F(k + 1))
      BY <3>1, <3>2
    <3> QED BY <3>1, <3>3
  <2>3. K \in SUBSET (0..len)
    OBVIOUS
  <2>4. K = 0..len
    <3> HIDE DEF K
    <3> QED BY <1>1, <2>1, <2>2, <2>3, UpTo
  <2> QED BY <2>4
<1>5. Cardinality(F(m)) <= MAX_EOS_TOKENS
  OBVIOUS
<1> HIDE DEF g, F
<1>6. 0 \in T
  <2>1. Kept(<<>>) /\ In(<<>>) = {}
    <3>1. In(<<>>) = {} /\ <<>> \in Seq(Nat) /\ Len(<<>>) = 0
      BY DEF In
    <3>2. IsFiniteSet(In(<<>>)) /\ Cardinality(In(<<>>)) = Len(<<>>)
      BY <3>1, FS_EmptySet
    <3>3. Len(<<>>) <= MAX_EOS_TOKENS
      BY <1>1, <3>1
    <3> QED BY <3>1, <3>2, <3>3 DEF Kept
  <2>2. 0 >= m => m = 0
    BY <1>1
  <2>3. 0 \in 0..len
    BY <1>1
  <2> QED BY <1>2, <1>3, <2>1, <2>2, <2>3
<1>7. ASSUME NEW k \in 0..(len - 1), k \in T PROVE k + 1 \in T
  <2> DEFINE e == g[k]
             more == g[k + 1]
             id == ids[k + 1]
  <2>1. /\ Kept(e) /\ In(e) \subseteq F(k)
        /\ Len(e) < MAX_EOS_TOKENS => F(k) \subseteq In(e)
        /\ k >= m => F(m) \subseteq In(e)
    BY <1>7
  <2>2. F(k + 1) = F(k) \cup {id} /\ id \in Nat /\ more = AddEos(e, id)
    BY <1>2, <1>3
  <2> HIDE DEF e, more, id
  <2>3. /\ Kept(more) /\ In(e) \subseteq In(more) /\ In(more) \subseteq In(e) \cup {id}
        /\ id \in In(more) \/ Len(more) = MAX_EOS_TOKENS
    BY <2>1, <2>2, OneAdded
  <2>4. In(more) \subseteq F(k + 1)
    BY <2>1, <2>2, <2>3
  <2>5. Len(e) <= Len(more) /\ Len(e) \in Nat /\ Len(more) \in Nat
    <3>1. Cardinality(In(e)) <= Cardinality(In(more))
      BY <2>1, <2>3, FS_Subset DEF Kept
    <3> QED BY <2>1, <2>3, <3>1 DEF Kept
  <2>6. Len(more) < MAX_EOS_TOKENS => F(k + 1) \subseteq In(more)
    BY <1>1, <2>1, <2>2, <2>3, <2>5
  <2>7. k + 1 >= m => F(m) \subseteq In(more)
    <3>1. CASE k >= m
      BY <2>1, <2>3, <3>1
    <3>2. CASE k + 1 = m
      <4>1. CASE Len(more) < MAX_EOS_TOKENS
        BY <2>6, <3>2, <4>1
      <4>2. CASE Len(more) = MAX_EOS_TOKENS
        <5>1. IsFiniteSet(F(m)) /\ In(more) \subseteq F(m)
          BY <1>1, <1>4, <2>4, <3>2
        <5>2. Cardinality(In(more)) = MAX_EOS_TOKENS /\ IsFiniteSet(In(more))
          BY <2>3, <4>2 DEF Kept
        <5>3. Cardinality(In(more)) <= Cardinality(F(m)) /\ Cardinality(F(m)) \in Nat
          BY <5>1, FS_Subset, FS_CardinalityType
        <5>4. Cardinality(In(more)) = Cardinality(F(m))
          BY <1>1, <1>5, <5>2, <5>3
        <5>5. In(more) = F(m)
          BY <5>1, <5>4, FS_Subset
        <5> QED BY <5>5
      <4>3. Len(more) <= MAX_EOS_TOKENS
        BY <2>3 DEF Kept
      <4> QED BY <1>1, <2>5, <4>1, <4>2, <4>3
    <3> QED BY <1>1, <3>1, <3>2
  <2>8. k + 1 \in 0..len
    BY <1>1
  <2> QED BY <2>3, <2>4, <2>6, <2>7, <2>8 DEF more
<1>8. T = 0..len
  <2>1. T \in SUBSET (0..len)
    OBVIOUS
  <2> HIDE DEF T
  <2> QED BY <1>1, <1>6, <1>7, <2>1, UpTo
<1>9. len \in 0..len /\ len >= m
  BY <1>1
<1>10. F(m) \subseteq In(g[len])
  BY <1>8, <1>9
<1> QED BY <1>10, AddedLast DEF F, g

(* parse_eos_value gives the ids of a list up to the first that is none.   *)
LEMMA EosListed ==
    ASSUME NEW v, v.t = "arr" => v.v \in Seq({v.v[i] : i \in DOMAIN v.v})
    PROVE  /\ EosIn(v) \in Seq(Nat)
           /\ EosOk(v) => In(EosIn(v)) = IF v.t = "arr" THEN {v.v[i].v : i \in DOMAIN v.v}
                                         ELSE IF IsId(v) THEN {v.v} ELSE {}
<1>1. ID_MAX \in Nat
  BY ModelConfigAssumption
<1>2. CASE v.t = "int" /\ IsId(v)
  <2>1. EosIn(v) = <<v.v>> /\ v.v \in Nat
    BY <1>1, <1>2 DEF EosIn, IsId
  <2>2. In(<<v.v>>) = {v.v}
    BY DEF In
  <2>3. v.t # "arr"
    BY <1>2
  <2> QED BY <1>2, <2>1, <2>2, <2>3
<1>3. CASE v.t = "arr"
  <2> DEFINE len == Len(v.v)
             bad == {i \in DOMAIN v.v : ~IsId(v.v[i])}
             good == {i \in DOMAIN v.v : \A j \in bad : i < j}
             taken == [i \in good |-> v.v[i].v]
  <2>1. len \in Nat /\ DOMAIN v.v = 1..len
    BY <1>3
  <2>2. EosIn(v) = taken
    BY <1>3 DEF EosIn
  <2>3. \E k \in 0..len : good = 1..k
    <3>1. CASE bad = {}
      BY <2>1, <3>1
    <3>2. CASE bad # {}
      <4> DEFINE back == {len - j : j \in bad}
      <4>1. bad \subseteq 1..len
        BY <2>1
      <4> HIDE DEF bad, len
      <4>2. back \in SUBSET (0..len) /\ back # {}
        <5>1. \A j \in bad : j \in 1..len /\ len - j \in 0..len
          BY <2>1, <4>1
        <5> QED BY <3>2, <5>1
      <4>3. PICK b \in back : \A x \in back : x =< b
        <5> HIDE DEF back
        <5> QED BY <2>1, <4>2, Greatest
      <4>4. PICK j \in bad : b = len - j
        BY <4>3
      <4>5. ASSUME NEW i \in bad PROVE j =< i
        <5>1. i \in 1..len /\ j \in 1..len /\ len - i \in back
          BY <4>1
        <5>2. len - i =< len - j
          BY <4>3, <4>4, <5>1
        <5> QED BY <2>1, <5>1, <5>2
      <4>6. good = 1..(j - 1)
        <5>1. j \in 1..len
          BY <4>1
        <5>2. \A i \in 1..len : (\A x \in bad : i < x) <=> i < j
          BY <2>1, <4>1, <4>5, <5>1
        <5>3. good = {i \in 1..len : i < j}
          BY <2>1, <5>2
        <5> QED BY <2>1, <5>1, <5>3
      <4>7. j - 1 \in 0..len
        BY <2>1, <4>1
      <4> HIDE DEF good
      <4> QED BY <4>6, <4>7
    <3> QED BY <3>1, <3>2
  <2>4. PICK k \in 0..len : good = 1..k
    BY <2>3
  <2>5. \A i \in good : IsId(v.v[i])
    <3> SUFFICES ASSUME NEW i \in good, ~IsId(v.v[i]) PROVE FALSE
      OBVIOUS
    <3>1. i \in bad /\ i \in Nat
      BY <2>1
    <3>2. i < i
      BY <3>1
    <3> QED BY <3>1, <3>2
  <2> HIDE DEF good, bad
  <2>6. \A i \in 1..k : taken[i] \in Nat
    BY <1>1, <2>4, <2>5 DEF IsId
  <2>7. taken \in Seq(Nat)
    <3>1. taken = [i \in 1..k |-> taken[i]] /\ k \in Nat
      BY <2>1, <2>4
    <3> HIDE DEF taken
    <3> QED BY <2>6, <3>1
  <2>8. ASSUME EosOk(v) PROVE In(taken) = {v.v[i].v : i \in DOMAIN v.v}
    <3>1. bad = {}
      BY <1>3, <2>8 DEF EosOk, bad
    <3>2. good = DOMAIN v.v
      BY <3>1 DEF good
    <3> QED BY <3>2 DEF In
  <2> HIDE DEF taken
  <2> QED BY <1>3, <2>2, <2>7, <2>8
<1>4. CASE v.t # "arr" /\ ~(v.t = "int" /\ IsId(v))
  <2>1. EosIn(v) = <<>> /\ In(<<>>) = {}
    BY <1>4 DEF EosIn, In
  <2>2. ~IsId(v)
    BY <1>4 DEF IsId
  <2> QED BY <1>4, <2>1, <2>2
<1> QED BY <1>2, <1>3, <1>4

LEMMA Joined ==
    ASSUME NEW x \in Seq(Nat), NEW y \in Seq(Nat)
    PROVE  /\ x \o y \in Seq(Nat) /\ Len(x \o y) = Len(x) + Len(y)
           /\ \A i \in 1..Len(x) : (x \o y)[i] = x[i]
           /\ In(x \o y) = In(x) \cup In(y)
<1> DEFINE z == x \o y
<1>1. /\ z \in Seq(Nat) /\ Len(z) = Len(x) + Len(y) /\ Len(x) \in Nat /\ Len(y) \in Nat
      /\ DOMAIN z = 1..(Len(x) + Len(y)) /\ DOMAIN x = 1..Len(x) /\ DOMAIN y = 1..Len(y)
  OBVIOUS
<1>2. /\ \A i \in 1..Len(x) : z[i] = x[i]
      /\ \A i \in 1..Len(y) : z[Len(x) + i] = y[i]
  OBVIOUS
<1>3. \A i \in DOMAIN z : i \in DOMAIN x \/ (i - Len(x) \in DOMAIN y /\ i = Len(x) + (i - Len(x)))
  BY <1>1
<1>4. /\ \A i \in DOMAIN x : i \in DOMAIN z
      /\ \A i \in DOMAIN y : Len(x) + i \in DOMAIN z
  BY <1>1
<1> HIDE DEF z
<1>5. In(z) \subseteq In(x) \cup In(y)
  BY <1>1, <1>2, <1>3 DEF In
<1>6. In(x) \subseteq In(z) /\ In(y) \subseteq In(z)
  BY <1>1, <1>2, <1>4 DEF In
<1> QED BY <1>1, <1>2, <1>5, <1>6 DEF z

(* A generation stops at every end of sequence config.json names, in its   *)
(* root or its text_config, and at the two of a gemma4, if there is room:  *)
(* those of generation_config.json come last.                              *)
LEMMA EosMeant ==
    ASSUME ModelInit
    PROVE  LET gemma == IF cfg.family = "gemma4" THEN {1, 106} ELSE {} IN
           Cardinality(NamedEos \cup gemma) <= MAX_EOS_TOKENS =>
               NamedEos \cup gemma \subseteq In(Config(dir).eos)
<1> DEFINE c == Config(dir)
           root == dir.config
           gemma == IF cfg.family = "gemma4" THEN {1, 106} ELSE {}
           v == Get(root, "eos_token_id")
           w == Get(Text, "eos_token_id")
           u == Get(dir.generation, "eos_token_id")
           Ids(x) == IF x.t = "arr" THEN {x.v[i].v : i \in DOMAIN x.v}
                     ELSE IF IsId(x) THEN {x.v} ELSE {}
           A == EosIn(v)
           B == IF HasText(root) THEN EosIn(w) ELSE <<>>
           G == IF c.family \in Gemmas THEN <<1, 106>> ELSE <<>>
           C == EosIn(u)
           ids == A \o B \o G \o C
<1>1. Accepted(dir) /\ Loads(root) /\ cfg = AttentionConfig(c) /\ dir \in Dirs
  BY DEF ModelInit, AcceptedDirs, Accepted
<1>2. c.family \in {"qwen3", "llama", "mistral", "gemma4", "qwen3_5"}
  BY <1>1, AcceptedFamily
<1>3. cfg.family = "gemma4" <=> c.family = "gemma4"
  BY <1>1, <1>2 DEF AttentionConfig
<1>4. c.eos = AddAllEos(ids)
  <2>1. /\ c.family = FamilyOf(root.model_type.v, TextOf(root))
        /\ c.eos = EosTokens(FamilyOf(root.model_type.v, TextOf(root)), root, TextOf(root), dir.generation)
    BY LoadedFields DEF Config
  <2>2. c.eos = EosTokens(c.family, root, Text, dir.generation)
    BY <2>1 DEF Text
  <2> HIDE DEF c
  <2> QED BY <2>2 DEF EosTokens
<1>5. /\ v.t = "arr" => v.v \in Seq({v.v[i] : i \in DOMAIN v.v})
      /\ w.t = "arr" => w.v \in Seq({w.v[i] : i \in DOMAIN w.v})
      /\ u.t = "arr" => u.v \in Seq({u.v[i] : i \in DOMAIN u.v})
  <2>1. ASSUME NEW obj \in {root, Text, dir.generation}, NEW x, x = Get(obj, "eos_token_id"),
               x.t = "arr"
        PROVE  x.v \in Seq({x.v[i] : i \in DOMAIN x.v})
    <3>1. "eos_token_id" \in DOMAIN obj /\ x = obj["eos_token_id"]
      BY <2>1 DEF Get, NoKey
    <3>2. obj \in {root, TextOf(root), dir.generation}
      BY DEF Text
    <3>3. \A key \in DOMAIN obj : obj[key].t = "arr" =>
             obj[key].v \in Seq({obj[key].v[i] : i \in DOMAIN obj[key].v})
      BY <1>1, <3>2, DirsAssumption
    <3>4. obj["eos_token_id"].t = "arr" =>
             obj["eos_token_id"].v \in Seq({obj["eos_token_id"].v[i] : i \in DOMAIN obj["eos_token_id"].v})
      BY <3>1, <3>3
    <3> QED BY <2>1, <3>1, <3>4
  <2> QED BY <2>1
<1>6. EosOk(v) /\ EosOk(w)
  BY <1>1 DEF Loads, Text
<1>7. NamedEos = Ids(v) \cup Ids(w)
  BY DEF NamedEos
<1>8. ~HasText(root) => v = w
  BY DEF Text, TextOf
<1> HIDE DEF v, w, u, root, c
<1>9. /\ A \in Seq(Nat) /\ In(A) = Ids(v)
      /\ EosIn(w) \in Seq(Nat) /\ In(EosIn(w)) = Ids(w)
      /\ C \in Seq(Nat)
  BY <1>5, <1>6, EosListed
<1>10. <<>> \in Seq(Nat) /\ In(<<>>) = {} /\ <<1, 106>> \in Seq(Nat) /\ In(<<1, 106>>) = {1, 106}
  <2>1. DOMAIN <<1, 106>> = {1, 2}
    OBVIOUS
  <2>2. In(<<1, 106>>) = {1, 106}
    BY <2>1 DEF In
  <2>3. In(<<>>) = {}
    BY DEF In
  <2> QED BY <2>2, <2>3
<1>11. B \in Seq(Nat) /\ In(A) \cup In(B) = NamedEos
  <2>1. CASE HasText(root)
    BY <1>7, <1>9, <2>1
  <2>2. CASE ~HasText(root)
    BY <1>7, <1>8, <1>9, <1>10, <2>2
  <2> QED BY <2>1, <2>2
<1>12. G \in Seq(Nat) /\ In(G) = gemma
  BY <1>2, <1>3, <1>10 DEF Gemmas
<1> DEFINE named == A \o B \o G
<1> HIDE DEF A, B, G, C, gemma, Ids
<1>13. named \in Seq(Nat) /\ In(named) = NamedEos \cup gemma
  <2>1. A \o B \in Seq(Nat) /\ In(A \o B) = In(A) \cup In(B)
    BY <1>9, <1>11, Joined
  <2>2. A \o B \o G \in Seq(Nat) /\ In(A \o B \o G) = In(A \o B) \cup In(G)
    BY <1>12, <2>1, Joined
  <2> QED BY <1>11, <1>12, <2>1, <2>2
<1>14. c.eos = AddAllEos(named \o C)
  BY <1>4
<1> HIDE DEF named
<1> DEFINE all == named \o C
<1>15. all \in Seq(Nat) /\ Len(named) \in 0..Len(all) /\ \A i \in 1..Len(named) : all[i] = named[i]
  <2>1. Len(named) \in Nat /\ Len(C) \in Nat
    BY <1>9, <1>13
  <2>2. all \in Seq(Nat) /\ Len(all) = Len(named) + Len(C)
        /\ \A i \in 1..Len(named) : all[i] = named[i]
    BY <1>9, <1>13, Joined
  <2> HIDE DEF all
  <2> QED BY <2>1, <2>2
<1> HIDE DEF all
<1>16. {all[i] : i \in 1..Len(named)} = NamedEos \cup gemma
  <2>1. DOMAIN named = 1..Len(named)
    BY <1>13
  <2> QED BY <1>13, <1>15, <2>1 DEF In
<1>17. ASSUME Cardinality(NamedEos \cup gemma) <= MAX_EOS_TOKENS
       PROVE  NamedEos \cup gemma \subseteq In(c.eos)
  <2>1. Cardinality({all[i] : i \in 1..Len(named)}) <= MAX_EOS_TOKENS
    BY <1>16, <1>17
  <2>2. {all[i] : i \in 1..Len(named)} \subseteq In(AddAllEos(all))
    BY <1>15, <2>1, FirstKept
  <2> QED BY <1>14, <1>16, <2>2 DEF all
<1> QED BY <1>17 DEF c, gemma

(* parse_generation_config, sampling_resolve: a value out of range is as   *)
(* good as none.                                                           *)
SampledFrom(d) ==
    LET params == sampling_resolve(<<>>, Config(d)) IN
    /\ 0 <= params.temperature /\ params.temperature <= 200
    /\ 0 < params.top_p /\ params.top_p <= 100
    /\ params.top_k = -100 \/ (100 <= params.top_k /\ params.top_k <= 100000)

LEMMA RangeKept ==
    \A obj, key, kinds : \A low, high \in Int : \A v \in InRange(obj, key, kinds, low, high) :
        v \in Int /\ low <= v /\ v <= high
BY DEF InRange

LEMMA SampledInRange == \A d : SampledFrom(d)
<1> SUFFICES ASSUME NEW d PROVE SampledFrom(d)
  OBVIOUS
<1> DEFINE c == Config(d)
           g == c.generation
           pick(set, def) == IF set # {} THEN CHOOSE v \in set : TRUE ELSE def
           params == sampling_resolve(<<>>, c)
<1>1. g = GenerationDefaults(d.generation)
  BY LoadedFields DEF Config
<1> HIDE DEF c
<1>2. /\ \A v \in g.temperature : v \in Int /\ 0 <= v /\ v <= 200
      /\ \A v \in g.top_p : v \in Int /\ 1 <= v /\ v <= 100
      /\ \A v \in g.top_k : v \in Int /\ 100 <= v /\ v <= 100000
  <2>1. /\ g.temperature = InRange(d.generation, "temperature", {"int", "real"}, 0, 200)
        /\ g.top_p = InRange(d.generation, "top_p", {"int", "real"}, 1, 100)
        /\ g.top_k = InRange(d.generation, "top_k", {"int"}, 100, 100000)
    <3> HIDE DEF g
    <3> QED BY SMT, <1>1 DEF GenerationDefaults
  <2> HIDE DEF g
  <2>2. 0 \in Int /\ 200 \in Int /\ 1 \in Int /\ 100 \in Int /\ 100000 \in Int
    BY SMT
  <2> QED BY SMT, <2>1, <2>2, RangeKept
<1>3. DOMAIN g = {"temperature", "top_p", "top_k"}
  <2> HIDE DEF g
  <2> QED BY SMT, <1>1 DEF GenerationDefaults
<1>4. DOMAIN <<>> = {}
  BY SMT
<1>5. /\ params.temperature = pick(g.temperature, 100)
      /\ params.top_p = pick(g.top_p, 100)
      /\ params.top_k = pick(g.top_k, -100)
  BY SMT, <1>3, <1>4 DEF sampling_resolve
<1>6. /\ pick(g.temperature, 100) \in g.temperature \/ pick(g.temperature, 100) = 100
      /\ pick(g.top_p, 100) \in g.top_p \/ pick(g.top_p, 100) = 100
      /\ pick(g.top_k, -100) \in g.top_k \/ pick(g.top_k, -100) = -100
  BY SMT
<1> HIDE DEF pick, params, g
<1>7. /\ 0 <= params.temperature /\ params.temperature <= 200
      /\ 0 < params.top_p /\ params.top_p <= 100
      /\ params.top_k = -100 \/ (100 <= params.top_k /\ params.top_k <= 100000)
  BY SMT, <1>2, <1>5, <1>6
<1> QED BY SMT, <1>7 DEF SampledFrom, params, c

-----------------------------------------------------------------------------
(* engine_model_load: what it accepts it can run as the files mean it: the *)
(* gate, the shared layers, the windows, the ends of sequence and the      *)
(* defaults of sampling, for every directory.                              *)
THEOREM LoadedModelMeansItsFiles == ModelSpec => []AcceptedServed
<1> DEFINE gemma == IF cfg.family = "gemma4" THEN {1, 106} ELSE {}
           Windows == \A L \in Layers : MaxKv(L) = MeantWindow(L)
           Ends == Cardinality(NamedEos \cup gemma) <= MAX_EOS_TOKENS =>
                       NamedEos \cup gemma \subseteq In(Config(dir).eos)
           Meant == Windows /\ Ends
<1>1. ModelInit => Meant
  BY WindowsMeant, EosMeant
<1>2. Meant /\ [Next /\ UNCHANGED dir]_modelvars => Meant'
  <2> SUFFICES ASSUME Meant, [Next /\ UNCHANGED dir]_modelvars PROVE Meant'
    OBVIOUS
  <2>1. dir' = dir /\ cfg' = cfg
    BY DEF modelvars, Next, Step, vars, Start, PrefillDone, Forward, ForwardDone, LastToken, Emit,
           NoSource, GiveUp, Free, Grow, GrowDouble, GrowCopy, OwnLayer, SharedLayer
  <2>2. NamedEos' = NamedEos /\ Text' = Text
    BY <2>1 DEF NamedEos, Text
  <2>3. \A L \in Layers : MaxKv(L)' = MaxKv(L) /\ MeantWindow(L)' = MeantWindow(L)
    BY <2>1, <2>2 DEF MaxKv, Local, IsGlobal, MeantWindow
  <2>4. Windows'
    BY <2>3
  <2>5. Ends'
    BY <2>1, <2>2
  <2> QED BY <2>4, <2>5
<1>3. Meant /\ Supported /\ SharedServed => AcceptedServed
  <2> SUFFICES ASSUME Windows, Ends, Supported, SharedServed PROVE AcceptedServed
    OBVIOUS
  <2>1. SampledFrom(dir)
    BY SampledInRange
  <2> QED BY SMT, <2>1 DEF AcceptedServed, SampledFrom, In
<1> HIDE DEF Meant
<1> QED BY <1>1, <1>2, <1>3, LoadedModelServesShared, PTL DEF ModelSpec

=============================================================================
