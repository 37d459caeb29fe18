--------------------------- MODULE TokenizerFile ----------------------------
(***************************************************************************)
(* tokenizer_load_dir and tokenizer_load_json (src/src/model/tokenizer.c): *)
(* from the files of a model's directory to a tokenizer, or to none.       *)
(*                                                                         *)
(* A directory is a record:                                                *)
(*   tokenizer_json  "absent", "unreadable" or "there"                     *)
(*   json            its contents, a record as below                       *)
(*   legacy          vocab.json and merges.txt are there, and are well     *)
(*                   formed                                                *)
(*   vocab, lines    what they hold                                        *)
(*   bos, eos        the names in tokenizer_config.json, <<>> if none      *)
(* The contents are the members of the file that are read, or their        *)
(* defaults, in document order:                                            *)
(*   malformed       no JSON, no vocab object, a list that is no list      *)
(*   type            model.type                                            *)
(*   vocab           <<key, id>>                                           *)
(*   merges          <<left, right>>, or <<>> for an entry of neither form *)
(*   added           [content, id, special]                                *)
(*   pre, norm       the trees of pre-tokenizers and normalizers           *)
(*   prefix, cleanup of WordPiece                                          *)
(* A tree of pre-tokenizers or normalizers is the sequence of its nodes    *)
(* [type, subs] in document order; subs has the numbers of the members.    *)
(* A Sequence whose list is no list has the type "bad".                    *)
(***************************************************************************)
EXTENDS Utf8, SequencesExt

CONSTANTS
    MaxId,            \* MLXD_TOK_MAX_ID
    BosNames, EosNames, ExtraNames,   \* the ordered candidates
    Cls, Sep, WpUnk, Unk              \* the names "[CLS]", "[SEP]", "[UNK]", "<unk>"

Text == Seq(Byte)
Pair == (Text \X Text) \cup {<<>>}
Tree == Seq([type : STRING, subs : Seq(Nat)])

Json ==
    [malformed : BOOLEAN, type : STRING, vocab : Seq(Text \X Int), merges : Seq(Pair),
     added : Seq([content : Text, id : Int, special : BOOLEAN]), pre : Tree, norm : Tree,
     prefix : Text, cleanup : BOOLEAN]

Directory ==
    [tokenizer_json : {"absent", "unreadable", "there"}, json : Json, legacy : BOOLEAN,
     vocab : Seq(Text \X Int), lines : Seq([ignored : BOOLEAN, pair : Pair]),
     bos : Text, eos : Text]

ASSUME NamesAssumption ==
    /\ MaxId \in Nat
    /\ {BosNames, EosNames, ExtraNames} \subseteq Seq(Text)
    /\ {Cls, Sep, WpUnk, Unk} \subseteq Text

-----------------------------------------------------------------------------
(* Pre-tokenizer and normalizer: what the Sequences are made of.           *)
Leaves(tree) ==
    LET of[i \in DOMAIN tree] ==
            IF tree[i].type # "Sequence" THEN <<tree[i].type>>
            ELSE FlattenSeq([k \in DOMAIN tree[i].subs |-> of[tree[i].subs[k]]])
    IN  of[1]

Holds(tree, type) == \E i \in DOMAIN Leaves(tree) : Leaves(tree)[i] = type

(* has_byte_level stops at the first answer or error. *)
HasByteLevel(pre) ==
    LET found == SelectInSeq(Leaves(pre), LAMBDA x : x \in {"ByteLevel", "bad"})
    IN  IF found = 0 THEN "no" ELSE IF Leaves(pre)[found] = "bad" THEN "error" ELSE "yes"

(* parse_normalizer *)
NormForm(norm) ==
    IF Holds(norm, "NFKC") THEN "NFKC" ELSE IF Holds(norm, "NFC") THEN "NFC" ELSE "none"

(* The strict whitelist of model.type *)
TokenizerType(f) ==
    CASE f.type = "WordPiece" -> "wordpiece"
      [] f.type = "BPE" /\ HasByteLevel(f.pre) = "yes" -> "bpe"
      [] f.type = "BPE" /\ HasByteLevel(f.pre) = "no" -> "sentencepiece"
      [] OTHER -> "refused"

-----------------------------------------------------------------------------
(* Vocabulary, added tokens and merges: maps in which the last entry wins. *)

ValidId(id) == id \in 0..MaxId

LastOf(S) == CHOOSE i \in S : \A j \in S : j <= i

(* The map from key to value of the entries of I.                          *)
MapOf(I, key, value) ==
    [k \in {key[i] : i \in I} |-> value[LastOf({i \in I : key[i] = k})]]

Keys(f) == [i \in DOMAIN f.vocab |-> f.vocab[i][1]]
Ids(f) == [i \in DOMAIN f.vocab |-> f.vocab[i][2]]
BaseVocab(f) == MapOf(DOMAIN f.vocab, Keys(f), Ids(f))

(* An added token with an empty content is skipped before its id is read.  *)
Added(f) == {i \in DOMAIN f.added : f.added[i].content # <<>>}
AddedContents(f) == [i \in DOMAIN f.added |-> f.added[i].content]
AddedIds(f) == [i \in DOMAIN f.added |-> f.added[i].id]

SpecialTokens(f) == MapOf(Added(f), AddedContents(f), AddedIds(f))
AddedSpecial(f) == {f.added[i].content : i \in {j \in Added(f) : f.added[j].special}}

Over(g, h) == [k \in DOMAIN g \cup DOMAIN h |-> IF k \in DOMAIN g THEN g[k] ELSE h[k]]

(* Contents absent from the vocabulary join it. *)
Vocab(f) == Over(BaseVocab(f), SpecialTokens(f))

(* The walk over model.vocab, then over the added tokens.                  *)
BaseToken(f) == MapOf(DOMAIN f.vocab, Ids(f), Keys(f))
IdToToken(f) == Over(MapOf(Added(f), AddedIds(f), AddedContents(f)), BaseToken(f))

(* Mutant: content that the vocabulary has under another id is accepted.   *)
AddedConsistentOneWay(f) ==
    LET e == f.added IN
    \A i \in Added(f) :
        /\ ValidId(e[i].id)
        /\ e[i].id \in DOMAIN BaseToken(f) => BaseToken(f)[e[i].id] = e[i].content
        /\ \A j \in Added(f) : e[j].id = e[i].id => e[j].content = e[i].content

(* An added token has a valid id, which the vocabulary gives to no other   *)
(* string; and the vocabulary gives its content no other id.               *)
AddedConsistent(f) ==
    LET e == f.added IN
    \A i \in Added(f) :
        /\ ValidId(e[i].id)
        /\ e[i].content \in DOMAIN BaseVocab(f) => BaseVocab(f)[e[i].content] = e[i].id
        /\ e[i].id \in DOMAIN BaseToken(f) => BaseToken(f)[e[i].id] = e[i].content
        /\ \A j \in Added(f) : (e[j].id = e[i].id) <=> (e[j].content = e[i].content)

(* parse_merge_pair: an entry of neither form is skipped, its rank is not  *)
(* given to another.                                                       *)
Merges(f) ==
    MapOf({i \in DOMAIN f.merges : f.merges[i] # <<>>}, f.merges, [i \in DOMAIN f.merges |-> i])

-----------------------------------------------------------------------------
(* resolve_token_name: the added tokens before the vocabulary; -1 if none  *)
Resolve(f, name) ==
    IF name \in DOMAIN SpecialTokens(f) THEN SpecialTokens(f)[name]
    ELSE IF name \in DOMAIN Vocab(f) THEN Vocab(f)[name] ELSE -1

FirstOf(f, names) ==
    LET hits == {i \in DOMAIN names : Resolve(f, names[i]) >= 0}
    IN  IF hits = {} THEN -1 ELSE Resolve(f, names[Min(hits)])

(* WordPiece looks for its own names first. *)
BosId(f) == FirstOf(f, (IF f.type = "WordPiece" THEN <<Cls>> ELSE <<>>) \o BosNames)
EosId(f) == FirstOf(f, (IF f.type = "WordPiece" THEN <<Sep>> ELSE <<>>) \o EosNames)

(* "<unk>" counts only in the base vocabulary, "[UNK]" anywhere. *)
UnkId(f) ==
    IF f.type = "WordPiece" /\ WpUnk \in DOMAIN Vocab(f) THEN Vocab(f)[WpUnk]
    ELSE IF Unk \in DOMAIN BaseVocab(f) THEN BaseVocab(f)[Unk] ELSE -1

(* tokenizer_load_json accepts the file. *)
Accepted(f) ==
    /\ ~f.malformed
    /\ TokenizerType(f) # "refused"
    /\ ~Holds(f.norm, "bad")
    /\ \A i \in DOMAIN f.vocab : ValidId(f.vocab[i][2])
    /\ AddedConsistent(f)

LoadJson(f) ==
    [type |-> TokenizerType(f),
     vocab |-> Vocab(f), merges |-> Merges(f),
     special_tokens |-> SpecialTokens(f), added_special |-> AddedSpecial(f),
     id_to_token |-> IdToToken(f),
     bos_id |-> BosId(f), eos_id |-> EosId(f), unk_id |-> UnkId(f),
     wp_prefix |-> f.prefix, wp_cleanup |-> f.cleanup,
     norm_form |-> NormForm(f.norm), add_dummy_prefix |-> Holds(f.norm, "Prepend")]

-----------------------------------------------------------------------------
(* The elements of s at the positions I, in their order. *)
Kept(s, I) ==
    [k \in 1..Cardinality(I) |-> s[CHOOSE i \in I : Cardinality({j \in I : j <= i}) = k]]

Entries(d, name) == {i \in DOMAIN d.vocab : d.vocab[i][1] = name}

(* The names of the lists that vocab.json has become added tokens.         *)
Named(d) ==
    LET names == BosNames \o EosNames \o ExtraNames
    IN  Kept(names, {i \in DOMAIN names : Entries(d, names[i]) # {}})

(* tokenizer_load_dir_legacy: the contents that vocab.json and merges.txt  *)
(* stand for.  A line is [ignored, pair]: blank lines and comments are not *)
(* even given a rank, a line that is no pair has one and is no merge.      *)
Legacy(d) ==
    LET named == Named(d)
        lines == Kept(d.lines, {i \in DOMAIN d.lines : ~d.lines[i].ignored})
    IN  [malformed |-> FALSE, type |-> "BPE",
         vocab |-> d.vocab,
         merges |-> [i \in DOMAIN lines |-> lines[i].pair],
         added |-> [i \in DOMAIN named |->
                      [content |-> named[i], id |-> d.vocab[Min(Entries(d, named[i]))][2],
                       special |-> TRUE]],
         pre |-> <<[type |-> "ByteLevel", subs |-> <<>>]>>,
         norm |-> <<[type |-> "none", subs |-> <<>>]>>,
         prefix |-> <<35, 35>>, cleanup |-> TRUE]

(* A tokenizer.json that is there is final, whatever becomes of it.        *)
FileOf(d) == IF d.tokenizer_json = "there" THEN d.json ELSE Legacy(d)

LoadsDir(d) ==
    /\ \/ d.tokenizer_json = "there"
       \/ d.tokenizer_json = "absent" /\ d.legacy
    /\ Accepted(FileOf(d))

(* apply_one_override: a name that the tokenizer does not know is ignored. *)
Override(f, name, id) == IF name # <<>> /\ Resolve(f, name) >= 0 THEN Resolve(f, name) ELSE id

LoadDir(d) ==
    LET f == FileOf(d) IN
    [LoadJson(f) EXCEPT !.bos_id = Override(f, d.bos, @), !.eos_id = Override(f, d.eos, @)]
=============================================================================
