----------------------------- MODULE Tokenizer ------------------------------
(***************************************************************************)
(* A text on its way through the tokenizer (src/src/model/tokenizer.c) and *)
(* back: a model's directory is loaded, the text is split around special   *)
(* tokens (encode_alloc_impl), each word of a gap is merged with a heap of *)
(* candidates (bpe_merge), and the ids are given one at a time to the      *)
(* streaming detokenizer (detok.c).                                        *)
(*                                                                         *)
(* Memory is there.  Normalization is CoreFoundation's: NormalOf gives the *)
(* normal form of the texts that are not normal.                           *)
(***************************************************************************)
EXTENDS TokenText, BpeMerge

CONSTANTS
    Inputs,           \* pairs of a directory and a text
    NormalOf          \* by form, from a text to its normal form

ASSUME InputsAssumption == Inputs \subseteq Directory \X Text

ASSUME NormalAssumption ==
    \A form \in {"NFC", "NFKC"} :
        form \in DOMAIN NormalOf /\ \A t \in DOMAIN NormalOf[form] : NormalOf[form][t] \in Text

VARIABLES
    dir, text, parse_special,   \* what tokenizer_load_dir and tokenizer_encode_alloc are given
    pc, tok,
    sites, pos,       \* special_site by special token; the cursor
    todo,             \* what is still to be emitted before the next scan; BpeMerge has its head
    cap, used,        \* encode_scratch: its length; ids of this segment in it
    ids,              \* the result
    fed, buf, pieces  \* detok: ids fed, bytes held back, what it gave out

vars == <<dir, text, parse_special, pc, tok, sites, pos, todo, given, nodes, heap, cap, used, ids,
          fed, buf, pieces>>

None == [type |-> "none"]

Init ==
    /\ \E i \in Inputs : dir = i[1] /\ text = i[2]
    /\ parse_special \in BOOLEAN
    /\ pc = "load" /\ tok = None
    /\ sites = <<>> /\ pos = 1 /\ todo = <<>>
    /\ input = <<>> /\ chars = <<>> /\ ranks = <<>> /\ nodes = <<>> /\ heap = {} /\ cap = 0 /\ used = 0 /\ ids = <<>>
    /\ fed = 0 /\ buf = <<>> /\ pieces = <<>>

(* find_sub: the first occurrence of key from position from; 0 if none. *)
FindSub(hay, from, key) ==
    LET at == {i \in from..(Len(hay) - Len(key) + 1) : SubSeq(hay, i, i + Len(key) - 1) = key}
    IN  IF at = {} THEN 0 ELSE Min(at)

(* uc_normalize after uc_utf8_scan: ASCII and invalid texts stay as they are. *)
Normal(form, t) ==
    IF form # "none" /\ Valid(t) /\ t \in DOMAIN NormalOf[form] THEN NormalOf[form][t] ELSE t

Load ==
    /\ pc = "load"
    /\ IF LoadsDir(dir)
       THEN LET t == LoadDir(dir)
                normal == Normal(t.norm_form, text)
            IN  /\ tok' = t /\ text' = normal
                /\ pc' = IF t.type = "wordpiece" THEN "wordpiece" ELSE "scan"
                /\ sites' = IF parse_special
                            THEN [k \in DOMAIN t.special_tokens |-> FindSub(normal, 1, k)]
                            ELSE <<>>
       ELSE pc' = "refused" /\ UNCHANGED <<tok, text, sites>>
    /\ UNCHANGED <<dir, parse_special, pos, todo, given, nodes, heap, cap, used, ids, fed, buf, pieces>>

(* scratch_reserve_mask: the encoders ask for the length of their expansion. *)
Reserve(n) == cap' = Max({cap, n, 1})

(* Mutant: the expanded text is taken to be as long as the text.           *)
ExpansionNone(type) == 1

(* A byte of byte-level BPE becomes two at most, a space three.            *)
Expansion(type) == IF type = "bpe" THEN 2 ELSE 3

(* encode_wordpiece: no special tokens; [CLS] and [SEP] around the pieces. *)
EncodeWhole ==
    /\ pc = "wordpiece"
    /\ LET body == EncodeWordpiece(tok, text)
           wrap(id) == IF id >= 0 THEN <<id>> ELSE <<>>
       IN  /\ ids' = wrap(tok.bos_id) \o body \o wrap(tok.eos_id)
           /\ used' = Len(body)
    /\ Reserve(Len(text) + Len(tok.wp_prefix))
    /\ pc' = "decode"
    /\ UNCHANGED <<dir, text, parse_special, tok, sites, pos, todo, given, nodes, heap, fed, buf, pieces>>

(* Mutant: a special token the cursor has passed is not searched again.    *)
ProbedOnce(k) == IF sites[k] < pos THEN 0 ELSE sites[k]

(* The cached occurrence of special token k, searched again when behind.   *)
Probed(k) ==
    IF sites[k] # 0 /\ sites[k] < pos THEN FindSub(text, pos, k) ELSE sites[k]

(* One round of the scan: the earliest special token, the longest of those *)
(* there; the words of the gap before it, or of the rest, come first.      *)
Scan ==
    /\ pc = "scan" /\ todo = <<>> /\ pos <= Len(text)
    /\ sites' = [k \in DOMAIN sites |-> Probed(k)]
    /\ LET found == {k \in DOMAIN sites : Probed(k) # 0}
           first == Min({Probed(k) : k \in found})
           here == {k \in found : Probed(k) = first}
           best == CHOOSE k \in here : \A l \in here : Len(l) <= Len(k)
           end == IF found = {} THEN Len(text) + 1 ELSE first
           gap == SubSeq(text, pos, end - 1)
           words == IF gap = <<>> THEN <<>> ELSE Words(tok.type, gap)
       IN  /\ todo' = [i \in DOMAIN words |-> [word |-> words[i], special |-> -1]]
                      \o IF found = {} THEN <<>>
                         ELSE <<[word |-> <<>>, special |-> tok.special_tokens[best]]>>
           /\ pos' = IF found = {} THEN end ELSE first + Len(best)
           /\ IF gap = <<>> THEN UNCHANGED cap ELSE Reserve(Expansion(tok.type) * Len(gap))
           /\ used' = 0
    /\ UNCHANGED <<dir, text, parse_special, pc, tok, given, nodes, heap, ids, fed, buf, pieces>>

EmitSpecial ==
    /\ pc = "scan" /\ todo # <<>> /\ Head(todo).special >= 0
    /\ ids' = Append(ids, Head(todo).special)
    /\ todo' = Tail(todo)
    /\ UNCHANGED <<dir, text, parse_special, pc, tok, sites, pos, given, nodes, heap, cap, used,
                   fed, buf, pieces>>

-----------------------------------------------------------------------------
(* bpe_merge, of the word at the head of todo. *)

SplitWord ==
    /\ pc = "scan" /\ todo # <<>> /\ Head(todo).special < 0 /\ nodes = <<>>
    /\ LET word == Head(todo).word IN Split(word, Characters(word), tok.merges)
    /\ UNCHANGED <<dir, text, parse_special, pc, tok, sites, pos, todo, cap, used, ids,
                   fed, buf, pieces>>

Merge ==
    /\ MergeStep
    /\ UNCHANGED <<dir, text, parse_special, pc, tok, sites, pos, todo, cap, used, ids,
                   fed, buf, pieces>>

(* The surviving symbols, along the list. *)
Symbols ==
    Chain(Len(nodes), [i \in DOMAIN nodes |-> SliceOf(nodes, i)],
          [i \in DOMAIN nodes |-> IF nodes[i].next = 0 THEN Len(nodes) + 1 ELSE nodes[i].next])

EmitWord ==
    /\ nodes # <<>> /\ heap = {}
    /\ LET emitted == IdsOf(tok, Symbols)
       IN  ids' = ids \o emitted /\ used' = used + Len(emitted)
    /\ nodes' = <<>> /\ todo' = Tail(todo)
    /\ input' = <<>> /\ chars' = <<>> /\ ranks' = <<>>
    /\ UNCHANGED <<dir, text, parse_special, pc, tok, sites, pos, heap, cap, fed, buf, pieces>>

Encoded ==
    /\ pc = "scan" /\ todo = <<>> /\ pos > Len(text)
    /\ pc' = "decode"
    /\ UNCHANGED <<dir, text, parse_special, tok, sites, pos, todo, given, nodes, heap, cap, used, ids,
                   fed, buf, pieces>>

-----------------------------------------------------------------------------
(* Decoding.  A string of C ends at its first NUL.                         *)

CString(bytes) ==
    LET nul == SelectInSeq(bytes, LAMBDA b : b = 0)
    IN  IF nul = 0 THEN bytes ELSE SubSeq(bytes, 1, nul - 1)

(* detok_feed: whole characters go out, the rest is held back. *)
Feed ==
    /\ pc = "decode" /\ tok.type # "wordpiece" /\ fed < Len(ids)
    /\ LET all == buf \o CString(Decode(tok, <<ids[fed + 1]>>))
           boundary == CompletePrefix(all)
       IN  /\ pieces' = Append(pieces, SubSeq(all, 1, boundary))
           /\ buf' = SubSeq(all, boundary + 1, Len(all))
    /\ fed' = fed + 1
    /\ UNCHANGED <<dir, text, parse_special, pc, tok, sites, pos, todo, given, nodes, heap, cap, used, ids>>

(* detok_flush, as the driver calls it behind the last token. *)
Flush ==
    /\ pc = "decode" /\ tok.type # "wordpiece" /\ fed = Len(ids)
    /\ pieces' = Append(pieces, buf) /\ buf' = <<>>
    /\ pc' = "done"
    /\ UNCHANGED <<dir, text, parse_special, tok, sites, pos, todo, given, nodes, heap, cap, used, ids, fed>>

(* There is no detokenizer for WordPiece: its ids are decoded together. *)
DecodeWhole ==
    /\ pc = "decode" /\ tok.type = "wordpiece"
    /\ pieces' = <<CString(Decode(tok, ids))>>
    /\ pc' = "done"
    /\ UNCHANGED <<dir, text, parse_special, tok, sites, pos, todo, given, nodes, heap, cap, used, ids,
                   fed, buf>>

Next ==
    \/ Load \/ EncodeWhole \/ Scan \/ EmitSpecial \/ SplitWord \/ Merge \/ EmitWord
    \/ Encoded \/ Feed \/ Flush \/ DecodeWhole

Spec == Init /\ [][Next]_vars

-----------------------------------------------------------------------------
(* References                                                              *)

(* Merging as it is defined: while a pair has a rank, join the leftmost    *)
(* pair of the lowest rank.                                                *)
JoinLowest(table, symbols) ==
    LET pair(i) == <<symbols[i], symbols[i + 1]>>
        ranked == {i \in 1..(Len(symbols) - 1) : pair(i) \in DOMAIN table}
        lowest == Min({table[pair(i)] : i \in ranked})
        at == Min({i \in ranked : table[pair(i)] = lowest})
    IN  IF ranked = {} THEN symbols
        ELSE SubSeq(symbols, 1, at - 1) \o <<symbols[at] \o symbols[at + 1]>>
             \o SubSeq(symbols, at + 2, Len(symbols))

(* Each round but the last joins two, so there are enough.                 *)
NaiveSymbols(table, word) ==
    LET cs == Characters(word)
        after[n \in 0..Len(cs)] ==
            IF n = 0 THEN [i \in DOMAIN cs |-> SubSeq(word, cs[i].start, cs[i].end)]
            ELSE JoinLowest(table, after[n - 1])
    IN  after[Len(cs)]

(* A gap: split by the regex, expanded, merged.                            *)
GapIds(t, gap) ==
    LET cs == Characters(gap)
        spans == RegexSplit([i \in DOMAIN cs |-> ClassOf(cs[i].cp)])
        words == IF t.type = "sentencepiece" THEN <<LowerBars(gap)>>
                 ELSE [i \in DOMAIN spans |-> ByteLevel(SubSeq(gap, cs[spans[i][1]].start,
                                                               cs[spans[i][2]].end))]
    IN  IF gap = <<>> THEN <<>>
        ELSE FlattenSeq([i \in DOMAIN words |-> IdsOf(t, NaiveSymbols(t.merges, words[i]))])

(* The string s cut at the earliest of the special tokens, the longest of  *)
(* those there, and the rest of it likewise.                               *)
ReferenceIds(t, special, s) ==
    LET here(p) == {k \in special : IsPrefix(k, SubSeq(s, p, Len(s)))}
        at(i) == {p \in i..Len(s) : here(p) # {}}
        key(i) == CHOOSE k \in here(Min(at(i))) : \A l \in here(Min(at(i))) : Len(l) <= Len(k)
        part == [i \in DOMAIN s |->
                   IF at(i) = {} THEN GapIds(t, SubSeq(s, i, Len(s)))
                   ELSE GapIds(t, SubSeq(s, i, Min(at(i)) - 1)) \o <<t.special_tokens[key(i)]>>]
        next == [i \in DOMAIN s |->
                   IF at(i) = {} THEN Len(s) + 1 ELSE Min(at(i)) + Len(key(i))]
    IN  FlattenSeq(Chain(Len(s), part, next))

StripSpaces(t) == SelectSeq(t, LAMBDA b : b \notin WpSpace)

(* No two strings of the vocabulary have the same id.                      *)
Distinct == \A k \in DOMAIN tok.vocab : tok.id_to_token[tok.vocab[k]] = k

(* The vocabulary has all it takes to write down the text: each byte, and  *)
(* what each merge makes; its special tokens are ASCII; nothing is a NUL,  *)
(* and the text has nothing that reads like a token of the format.         *)
Covered ==
    /\ Distinct
    /\ 0 \notin Range(text) /\ {FindSub(text, 1, LowerBar), FindSub(text, 1, <<60, 48, 120>>)} = {0}
    /\ \A b \in Range(text) : FallbackToken(tok.type, b) \in DOMAIN tok.vocab
    /\ tok.type = "sentencepiece" => LowerBar \in DOMAIN tok.vocab
    /\ \A m \in DOMAIN tok.merges : m[1] \o m[2] \in DOMAIN tok.vocab
    /\ \A k \in DOMAIN tok.special_tokens : \A i \in DOMAIN k : k[i] \in 32..126

-----------------------------------------------------------------------------
(* Properties                                                              *)

(* tokenizer_encode_alloc: the result is the reference's for the whole     *)
(* text, whatever the special tokens overlap with, wherever the hand-made  *)
(* matchers give back white space, and in whichever order they were found. *)
(* And in each word, when no candidate is left, the heap with its stale    *)
(* candidates and the linked nodes have made exactly the symbols of the    *)
(* naive scan, which bpe_cand_less promises to reproduce.                  *)
EncodeIsReference ==
    /\ nodes # <<>> /\ heap = {} => Symbols = NaiveSymbols(tok.merges, Head(todo).word)
    /\ pc = "decode" /\ fed = 0 /\ tok.type # "wordpiece" =>
           ids = ReferenceIds(tok, IF parse_special THEN DOMAIN tok.special_tokens ELSE {}, text)

(* The buffers of encode_scratch are never outgrown: expanded text, nodes  *)
(* and ids fit in what was reserved and the candidates in three times as   *)
(* much, as bpe_push_cand asserts and the comments of the encoders claim.  *)
ScratchFits ==
    /\ Len(nodes) <= cap /\ Cardinality(heap) <= 3 * cap
    /\ used <= cap /\ \A i \in DOMAIN todo : Len(todo[i].word) <= cap

(* detok_feed and detok_flush: together the pieces are the text, and while *)
(* the text is whole characters so is each piece; WordPiece gives back the *)
(* text in lower case up to its white space, if it knew each word.         *)
StreamedText ==
    pc = "done" =>
        IF tok.type = "wordpiece"
        THEN LET lost == {tok.bos_id, tok.eos_id, Max({tok.unk_id, 0})}
                         \cup {tok.vocab[k] : k \in tok.added_special}
             IN  Distinct /\ Range(EncodeWordpiece(tok, text)) \cap lost = {} =>
                     StripSpaces(pieces[1]) = StripSpaces(Lower(text))
        ELSE Covered =>
                 /\ FlattenSeq(pieces) = text
                 /\ Valid(text) => \A i \in DOMAIN pieces : Valid(pieces[i])

(* tokenizer_load_json: whatever the file says, the ids it resolved can be *)
(* decoded, a special token's back to itself, and where the vocabulary has *)
(* each string and each id once the two directions agree.                  *)
LoadConsistent ==
    tok # None =>
        LET f == FileOf(dir)
            once == \A i, j \in DOMAIN f.vocab :
                        i # j => f.vocab[i][1] # f.vocab[j][1] /\ f.vocab[i][2] # f.vocab[j][2]
        IN  /\ \A k \in DOMAIN tok.special_tokens :
                  tok.id_to_token[tok.special_tokens[k]] = k /\ tok.vocab[k] = tok.special_tokens[k]
            /\ {tok.bos_id, tok.eos_id, tok.unk_id} \subseteq DOMAIN tok.id_to_token \cup {-1}
            /\ \A k \in DOMAIN tok.vocab : tok.vocab[k] \in DOMAIN tok.id_to_token
            /\ once => /\ \A k \in DOMAIN tok.vocab : tok.id_to_token[tok.vocab[k]] = k
                       /\ \A id \in DOMAIN tok.id_to_token : tok.vocab[tok.id_to_token[id]] = id
=============================================================================
