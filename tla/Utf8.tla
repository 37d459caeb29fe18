-------------------------------- MODULE Utf8 --------------------------------
(***************************************************************************)
(* src/src/model/tok_unicode.c: UTF-8, character classes and the byte      *)
(* table of byte-level BPE.  Bytes and code points are numbers, a string   *)
(* is a sequence of bytes, and positions are counted from 1.               *)
(***************************************************************************)
EXTENDS Integers, Sequences, FiniteSets

CONSTANTS UcLetters, UcMarks, UcNumbers   \* code points >= 128 of the UCD tables in use

Byte == 0..255

(* What a loop over n positions gives, from 1 on: an item at each position *)
(* it comes to, and next is where it goes on.                              *)
Chain(n, item, next) ==
    LET from[i \in 1..(n + 1)] == IF i > n THEN <<>> ELSE <<item[i]>> \o from[next[i]]
    IN  from[1]

Lead(b) == CASE b < 128 -> 1
             [] b \in 192..223 -> 2
             [] b \in 224..239 -> 3
             [] b \in 240..247 -> 4
             [] OTHER -> 0          \* a continuation, or no UTF-8 at all

Continuation(b) == b \in 128..191

(* uc_decode_codepoint: anything malformed is U+FFFD, one byte long.       *)
Invalid == [cp |-> 65533, len |-> 1]

DecodeCodepoint(text, pos) ==
    LET n == Lead(text[pos])
        bits(i) == text[pos + i] % 64
        cp == CASE n = 1 -> text[pos]
                [] n = 2 -> (text[pos] % 32) * 64 + bits(1)
                [] n = 3 -> ((text[pos] % 16) * 64 + bits(1)) * 64 + bits(2)
                [] n = 4 -> (((text[pos] % 8) * 64 + bits(1)) * 64 + bits(2)) * 64 + bits(3)
        least == <<0, 128, 2048, 65536>>
    IN  IF \/ n = 0 \/ pos + n - 1 > Len(text)
           \/ \E i \in 1..(n - 1) : ~Continuation(text[pos + i])
           \/ cp < least[n] \/ cp \in 55296..57343 \/ cp > 1114111
        THEN Invalid
        ELSE [cp |-> cp, len |-> n]

EncodeCodepoint(cp) ==
    LET tail(shift) == 128 + ((cp \div shift) % 64) IN
    IF cp < 128 THEN <<cp>>
    ELSE IF cp < 2048 THEN <<192 + (cp \div 64), tail(1)>>
    ELSE IF cp < 65536 THEN <<224 + (cp \div 4096), tail(64), tail(1)>>
    ELSE <<240 + (cp \div 262144), tail(4096), tail(64), tail(1)>>

(* The characters of a text, each with its place; an invalid byte is one.  *)
Characters(text) ==
    LET c == [pos \in DOMAIN text |-> DecodeCodepoint(text, pos)]
    IN  Chain(Len(text),
              [pos \in DOMAIN text |->
                 [start |-> pos, end |-> pos + c[pos].len - 1, cp |-> c[pos].cp]],
              [pos \in DOMAIN text |-> pos + c[pos].len])

Valid(text) ==
    LET cs == Characters(text)
    IN  \A i \in DOMAIN cs : ~(cs[i].cp = Invalid.cp /\ cs[i].start = cs[i].end)

-----------------------------------------------------------------------------
(* Classes of the pre-tokenizer's regex                                    *)

IsLetter(cp) == cp \in 65..90 \/ cp \in 97..122 \/ cp \in UcLetters
IsMark(cp) == cp \in UcMarks
IsNumber(cp) == cp \in 48..57 \/ cp \in UcNumbers
IsWhitespace(cp) ==
    \/ cp \in 9..13 \/ cp \in {32, 133, 160, 5760} \/ cp \in 8192..8202
    \/ cp \in {8232, 8233, 8239, 8287, 12288}

(* uc_build_bytes_to_unicode: printable bytes stand for themselves, the    *)
(* others, in order, for the code points from 256.                         *)
Printable(b) == b \in 33..126 \/ b \in 161..172 \/ b \in 174..255

ByteToCp == [b \in Byte |-> IF Printable(b) THEN b
                            ELSE 256 + Cardinality({x \in 0..(b - 1) : ~Printable(x)})]

CpToByte == [cp \in {ByteToCp[b] : b \in Byte} |-> CHOOSE b \in Byte : ByteToCp[b] = cp]
=============================================================================
