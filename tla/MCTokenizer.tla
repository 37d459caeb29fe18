---------------------------- MODULE MCTokenizer -----------------------------
EXTENDS Tokenizer

B(b) == EncodeCodepoint(ByteToCp[b])
a == <<97>>      b == <<98>>      sp == <<32>>     nl == <<10>>     tab == <<9>>
lt == <<60>>     apos == <<39>>   s == <<115>>     dot == <<46>>    e == <<195, 169>>

MCCls == <<91, 67, 93>>           \* "[C]", "[S]", "[U]", "<u>", "<s>", "</s>"
MCSep == <<91, 83, 93>>
MCWpUnk == <<91, 85, 93>>
MCUnk == <<60, 117, 62>>
BosName == <<60, 115, 62>>
EosName == <<60, 47, 115, 62>>
MCBosNames == <<BosName>>
MCEosNames == <<EosName>>
MCExtraNames == <<MCUnk>>

Numbered(keys) == [i \in DOMAIN keys |-> <<keys[i], i - 1>>]
Leaf(type) == <<[type |-> type, subs |-> <<>>]>>
Seq2(x, y) == <<[type |-> "Sequence", subs |-> <<2, 3>>]>> \o x \o y   \* of two leaves
Entry(content, id, special) == [content |-> content, id |-> id, special |-> special]

File(type, vocab, merges, added, pre, norm) ==
    [malformed |-> FALSE, type |-> type, vocab |-> vocab, merges |-> merges, added |-> added,
     pre |-> pre, norm |-> norm, prefix |-> <<35, 35>>, cleanup |-> TRUE]

Dir(file) == [tokenizer_json |-> "there", json |-> file, legacy |-> FALSE,
              vocab |-> <<>>, lines |-> <<>>, bos |-> <<>>, eos |-> <<>>]

(* Byte-level BPE: overlapping special tokens, merges that race            *)
ByteMerges == <<<<b, b>>, <<a, b>>, <<B(32), a \o b>>, <<a \o b, a>>, <<a, b \o b>>, <<>>,
                <<B(195), B(169)>>, <<b \o b, a>>>>
ByteKeys == <<a, b, B(32), B(10), B(9), lt, apos, s, dot, B(195), B(169), B(204), B(129), B(226),
              <<101>>,
              b \o b, a \o b, B(32) \o a \o b, a \o b \o a, a \o b \o b, B(195) \o B(169),
              b \o b \o a, MCUnk>>
Specials == <<Entry(lt \o a, 40, TRUE), Entry(lt \o a \o b, 41, FALSE), Entry(lt \o lt, 42, TRUE),
              Entry(a \o lt \o b, 43, TRUE)>>
ByteFile == File("BPE", Numbered(ByteKeys), ByteMerges, Specials, Leaf("ByteLevel"), Leaf("NFC"))
(* ... some bytes and what some merges make are not in the vocabulary     *)
Truncated == File("BPE", Numbered(<<a, b, B(195), a \o b, MCUnk>>), ByteMerges, Specials,
                  Seq2(Leaf("Split"), Leaf("ByteLevel")), Seq2(Leaf("Lowercase"), Leaf("NFKC")))

(* SentencePiece with tokens for single bytes                              *)
PieceFile ==
    File("BPE",
         Numbered(<<LowerBar, a, b, LowerBar \o a, a \o b, LowerBar \o a \o b, b \o LowerBar>>
                  \o [i \in 1..14 |-> ByteToken(<<97, 98, 32, 10, 9, 60, 39, 115, 46, 195, 169,
                                                  226, 204, 129>>[i])]),
         <<<<b, LowerBar>>, <<a, b>>, <<LowerBar, a>>, <<LowerBar \o a, b>>, <<LowerBar, a \o b>>>>,
         Specials, Leaf("Metaspace"), Seq2(Leaf("Prepend"), Leaf("Replace")))

WordFile ==
    File("WordPiece",
         Numbered(<<MCCls, a, b, a \o b, <<35, 35>> \o b, <<35, 35>> \o a \o b, apos, s, dot, e,
                    <<35, 35>> \o e, lt>>),
         <<>>, <<Entry(MCSep, 40, TRUE), Entry(MCWpUnk, 41, TRUE)>>, Leaf("Bert"), Leaf("none"))

(* The slow format: no special tokens but the known names                  *)
LegacyDir ==
    [tokenizer_json |-> "absent", json |-> ByteFile, legacy |-> TRUE,
     vocab |-> Numbered(ByteKeys \o <<BosName>>),
     lines |-> <<[ignored |-> TRUE, pair |-> <<>>], [ignored |-> FALSE, pair |-> <<a, b>>],
                 [ignored |-> FALSE, pair |-> <<>>], [ignored |-> FALSE, pair |-> <<b, b>>]>>,
     bos |-> MCUnk, eos |-> MCSep]

Strings(symbols, n) == {FlattenSeq(q) : q \in BoundedSeq(symbols, n)}

Accent == <<101, 204, 129>>       \* an e and its accent, e as one character
MCNormalOf == [NFC |-> (Accent :> e) @@ (Accent \o a :> e \o a),
               NFKC |-> (Accent :> e)]

TextInputs ==
    ({Dir(ByteFile), Dir(PieceFile)} \X Strings({a, b, sp, lt, e}, 4))
    \cup ({Dir(ByteFile)} \X Strings({sp, nl, tab, apos, s, dot}, 4))
    \cup ({Dir(ByteFile), Dir(PieceFile)} \X Strings({<<195>>, <<169>>, <<226>>, a}, 3))
    \cup ({Dir(ByteFile), LegacyDir, Dir(Truncated)} \X
             (Strings({a, b}, 6) \cup Strings({a \o b, e, lt, sp}, 3) \cup {Accent, Accent \o a}))
    \cup ({Dir(WordFile)} \X Strings({a, b, <<65>>, sp, dot, apos, e}, 4))

(* Files as they may be damaged: no text to speak of                       *)
Contents == {<<>>, a, BosName, lt}
AddedOf == BoundedSeq({Entry(c, id, TRUE) : c \in Contents, id \in {0, 1, 2, 61}}, 2)
Vocabs == {<<<<a, 0>>, <<b, 1>>>>, <<<<a, 0>>, <<a, 1>>>>, <<<<a, 0>>, <<b, 0>>>>,
           <<<<MCUnk, 0>>, <<BosName, 1>>, <<a, 2>>>>, <<<<MCCls, 0>>, <<BosName, 61>>>>}
Kinds == {<<"BPE", Leaf("ByteLevel")>>, <<"BPE", Leaf("Metaspace")>>, <<"WordPiece", Leaf("Bert")>>}

FileInputs ==
    {<<Dir(File(k[1], v, <<>>, added, k[2], Leaf("none"))), a \o lt>> :
        k \in Kinds, v \in Vocabs, added \in AddedOf}
    \cup {<<[Dir(File(type, <<<<a, 0>>>>, <<>>, <<>>, pre, norm)) EXCEPT !.tokenizer_json = there,
                                                                        !.legacy = legacy,
                                                                        !.vocab = <<<<a, 0>>>>], a>> :
              type \in {"BPE", "Unigram"}, pre \in {Leaf("bad"), Seq2(Leaf("ByteLevel"), Leaf("bad"))},
              norm \in {Leaf("bad"), Leaf("NFKC")}, there \in {"there", "absent", "unreadable"},
              legacy \in BOOLEAN}

MCInputs == TextInputs \cup FileInputs
=============================================================================
