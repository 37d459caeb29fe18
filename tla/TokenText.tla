----------------------------- MODULE TokenText ------------------------------
(***************************************************************************)
(* The parts of src/src/model/tokenizer.c and detok.c that go from bytes   *)
(* to bytes: what is fed to the merging, WordPiece, and the decoders.  A   *)
(* tokenizer is a record as LoadDir of TokenizerFile makes it.             *)
(***************************************************************************)
EXTENDS Pretokenize, TokenizerFile

Space == 32
LowerBar == <<226, 150, 129>>           \* U+2581, for a space in SentencePiece
Slice(text, span) == SubSeq(text, span[1], span[2])

(* encode_byte_level: each byte as the character that stands for it.       *)
ByteLevel(bytes) == FlattenSeq([i \in DOMAIN bytes |-> EncodeCodepoint(ByteToCp[bytes[i]])])

(* encode_sentencepiece: only the spaces change.                           *)
LowerBars(bytes) ==
    FlattenSeq([i \in DOMAIN bytes |-> IF bytes[i] = Space THEN LowerBar ELSE <<bytes[i]>>])

(* The words of a segment without special tokens, each ready for merging.  *)
Words(type, segment) ==
    IF type = "sentencepiece" THEN <<LowerBars(segment)>>
    ELSE LET chars == Characters(segment)
             spans == Gpt2Pretokenize([i \in DOMAIN chars |-> ClassOf(chars[i].cp)])
         IN  [i \in DOMAIN spans |->
                ByteLevel(SubSeq(segment, chars[spans[i][1]].start, chars[spans[i][2]].end))]

(* byte_fallback_ids: the token of a byte, by the tokenizer's type.        *)
Hex(digit) == IF digit < 10 THEN 48 + digit ELSE 55 + digit
ByteToken(b) == <<60, 48, 120, Hex(b \div 16), Hex(b % 16), 62>>
FallbackToken(type, b) ==
    IF type = "sentencepiece" THEN ByteToken(b) ELSE EncodeCodepoint(ByteToCp[b])

(* bpe_emit_symbol: its own id, or per byte the fallback, <unk> or none.   *)
EmitSymbol(t, symbol) ==
    LET ofByte(b) == IF FallbackToken(t.type, b) \in DOMAIN t.vocab
                     THEN <<t.vocab[FallbackToken(t.type, b)]>>
                     ELSE IF t.unk_id >= 0 THEN <<t.unk_id>> ELSE <<>>
    IN  IF symbol \in DOMAIN t.vocab THEN <<t.vocab[symbol]>>
        ELSE FlattenSeq([i \in DOMAIN symbol |-> ofByte(symbol[i])])

IdsOf(t, symbols) == FlattenSeq([i \in DOMAIN symbols |-> EmitSymbol(t, symbols[i])])

-----------------------------------------------------------------------------
(* WordPiece                                                               *)

Lower(text) == [i \in DOMAIN text |-> Fold(text[i])]

WpSpace == {9, 10, 13, 32}
WpPunct == (33..47) \cup (58..64) \cup (91..96) \cup (123..126)

(* The end of the word at i: a run of other bytes, or one of punctuation.  *)
WpEnd(text, i) ==
    IF text[i] \in WpSpace \cup WpPunct THEN i + 1
    ELSE Min({j \in i..(Len(text) + 1) :
                j = Len(text) + 1 \/ text[j] \in WpSpace \cup WpPunct})

Key(t, word, pos, end) == (IF pos > 1 THEN t.wp_prefix ELSE <<>>) \o SubSeq(word, pos, end)

(* wp_emit_word: from pos the longest piece that is in the vocabulary and  *)
(* does not cut a character; a word with none at some pos is one unk.      *)
WpEmitWord(t, word, unk) ==
    LET ends(pos) == {e \in pos..Len(word) : /\ Key(t, word, pos, e) \in DOMAIN t.vocab
                                             /\ e < Len(word) => ~Continuation(word[e + 1])}
        piece == [pos \in DOMAIN word |->
                    IF ends(pos) = {} THEN -1 ELSE t.vocab[Key(t, word, pos, Max(ends(pos)))]]
        next == [pos \in DOMAIN word |->
                   IF ends(pos) = {} THEN Len(word) + 1 ELSE Max(ends(pos)) + 1]
        pieces == Chain(Len(word), piece, next)
    IN  IF -1 \in Range(pieces) THEN <<unk>> ELSE pieces

(* The words between the spaces, one after the other. *)
EncodeWordpiece(t, text) ==
    LET low == Lower(text)
        unk == IF t.unk_id >= 0 THEN t.unk_id ELSE 0
        end == [i \in DOMAIN low |-> WpEnd(low, i)]
        part == [i \in DOMAIN low |->
                   IF low[i] \in WpSpace THEN <<>>
                   ELSE WpEmitWord(t, SubSeq(low, i, end[i] - 1), unk)]
    IN  FlattenSeq(Chain(Len(low), part, end))

WpPrefixed(token, prefix) == prefix # <<>> /\ IsPrefix(prefix, token)

(* wp_cleanup_drops_space: . ? ! , n't 'm 's 've 're                       *)
DropsSpace(token) ==
    \E p \in {<<46>>, <<63>>, <<33>>, <<44>>, <<110, 39, 116>>, <<39, 109>>, <<39, 115>>,
              <<39, 118, 101>>, <<39, 114, 101>>} : IsPrefix(p, token)

DecodeWordpiece(t, tokens) ==
    LET kept == SelectSeq(tokens, LAMBDA id : /\ id \in DOMAIN t.id_to_token
                                              /\ id \notin {t.bos_id, t.eos_id}
                                              /\ t.id_to_token[id] \notin t.added_special)
        text[i \in 0..Len(kept)] ==
            IF i = 0 THEN <<>>
            ELSE LET token == t.id_to_token[kept[i]]
                 IN  IF WpPrefixed(token, t.wp_prefix)
                     THEN text[i - 1] \o SubSeq(token, Len(t.wp_prefix) + 1, Len(token))
                     ELSE IF text[i - 1] # <<>> /\ ~(t.wp_cleanup /\ DropsSpace(token))
                     THEN text[i - 1] \o <<Space>> \o token
                     ELSE text[i - 1] \o token
    IN  text[Len(kept)]

-----------------------------------------------------------------------------
(* The decoders, and the detokenizer that feeds them one id at a time      *)

TokensOf(t, tokens) ==
    LET known == SelectSeq(tokens, LAMBDA id : id \in DOMAIN t.id_to_token)
    IN  [i \in DOMAIN known |-> t.id_to_token[known[i]]]

DecodeByteLevel(t, tokens) ==
    LET bytes(token, c) == IF c.cp \in DOMAIN CpToByte THEN <<CpToByte[c.cp]>>
                           ELSE SubSeq(token, c.start, c.end)
        of(token) == LET cs == Characters(token)
                     IN  FlattenSeq([i \in DOMAIN cs |-> bytes(token, cs[i])])
        known == TokensOf(t, tokens)
    IN  FlattenSeq([i \in DOMAIN known |-> of(known[i])])

(* Spaces are put back when all the bytes are together. *)
Spaces(raw) ==
    LET bar(i) == i + 2 <= Len(raw) /\ SubSeq(raw, i, i + 2) = LowerBar
    IN  Chain(Len(raw), [i \in DOMAIN raw |-> IF bar(i) THEN Space ELSE raw[i]],
              [i \in DOMAIN raw |-> IF bar(i) THEN i + 3 ELSE i + 1])

(* sp_byte_fallback: the byte that a token <0xNN> stands for, if it is one. *)
ByteOf(token) ==
    {b \in Byte : /\ Len(token) = 6 /\ token[6] = 62 /\ SubSeq(token, 1, 3) = <<60, 48, 120>>
                  /\ Fold(token[4]) = Fold(Hex(b \div 16)) /\ Fold(token[5]) = Fold(Hex(b % 16))}

DecodeSentencepiece(t, tokens) ==
    LET of(token) == IF ByteOf(token) # {} THEN SetToSeq(ByteOf(token)) ELSE token
    IN  Spaces(FlattenSeq([i \in DOMAIN TokensOf(t, tokens) |-> of(TokensOf(t, tokens)[i])]))

(* tokenizer_decode *)
Decode(t, tokens) ==
    CASE t.type = "bpe" -> DecodeByteLevel(t, tokens)
      [] t.type = "wordpiece" -> DecodeWordpiece(t, tokens)
      [] t.type = "sentencepiece" -> DecodeSentencepiece(t, tokens)

(* utf8_char_len: what is no lead byte passes on its own. *)
CharLen(b) == IF Lead(b) = 0 THEN 1 ELSE Lead(b)

(* Mutant: a character that lacks its last byte is given out.              *)
CompletePrefixShort(buf) ==
    LET from[i \in 0..Len(buf)] ==
            IF i = Len(buf) \/ i + CharLen(buf[i + 1]) > Len(buf) + 1 THEN i
            ELSE from[Min({i + CharLen(buf[i + 1]), Len(buf)})]
    IN  from[0]

(* utf8_complete_prefix: the length of the whole characters at the start.  *)
CompletePrefix(buf) ==
    LET from[i \in 0..Len(buf)] ==
            IF i = Len(buf) \/ i + CharLen(buf[i + 1]) > Len(buf) THEN i
            ELSE from[i + CharLen(buf[i + 1])]
    IN  from[0]
=============================================================================
