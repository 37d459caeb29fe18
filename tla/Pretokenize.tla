---------------------------- MODULE Pretokenize -----------------------------
(***************************************************************************)
(* gpt2_pretokenize (src/src/model/tokenizer.c): the hand-rolled matchers  *)
(* of the pre-tokenizer's regex, and the regex itself.  A text is taken as *)
(* the sequence of the classes of its characters; a match is the position  *)
(* behind it.                                                              *)
(***************************************************************************)
EXTENDS Utf8, FiniteSetsExt

(* The lower-case forms of the letters a contraction is made of.           *)
Fold(cp) == IF cp \in 65..90 THEN cp + 32 ELSE cp

ClassOf(cp) ==
    CASE cp \in {10, 13} -> "newline"
      [] cp = 32 -> "space"
      [] cp = 39 -> "'"
      [] Fold(cp) \in {115, 116, 109, 100} -> "s"      \* s t m d
      [] Fold(cp) \in {114, 118} -> "r"                \* r v
      [] Fold(cp) = 101 -> "e"
      [] Fold(cp) = 108 -> "l"
      [] OTHER -> IF IsWhitespace(cp) THEN "white"
                  ELSE IF IsLetter(cp) THEN "letter"
                  ELSE IF IsMark(cp) THEN "mark"
                  ELSE IF IsNumber(cp) THEN "number" ELSE "other"

Letter == {"letter", "s", "r", "e", "l"}
LetterOrMark == Letter \cup {"mark"}
White == {"newline", "space", "white"}
Punct == {"'", "other"}
Newline == {"newline"}

(* The end of the longest run of characters of the classes C from i.       *)
RunEnd(t, i, C) == Min({j \in i..(Len(t) + 1) : j = Len(t) + 1 \/ t[j] \notin C})

MatchContraction(t, i) ==
    IF t[i] # "'" \/ i + 1 > Len(t) THEN i
    ELSE IF t[i + 1] = "s" THEN i + 2
    ELSE IF i + 2 <= Len(t) /\ <<t[i + 1], t[i + 2]>> \in {<<"r", "e">>, <<"l", "l">>} THEN i + 3
    ELSE i

MatchLettersRun(t, i) ==
    LET end == RunEnd(t, i + 1, LetterOrMark) IN
    IF t[i] \in LetterOrMark \/ (t[i] \notin Newline /\ end > i + 1) THEN end ELSE i

MatchSpacePunct(t, i) ==
    LET p == IF t[i] = "space" THEN i + 1 ELSE i
        end == RunEnd(t, p, Punct)
    IN  IF end = p THEN i ELSE RunEnd(t, end, Newline)

(* Mutant: the run is not given back to its last newline.                  *)
MatchWsRunWhole(t, i) ==
    LET end == RunEnd(t, i, White) IN
    IF end - 1 > i /\ end <= Len(t) THEN end - 1 ELSE end

MatchWsRun(t, i) ==
    LET end == RunEnd(t, i, White)
        newlines == {j \in i..(end - 1) : t[j] \in Newline}
    IN  IF newlines # {} THEN Max(newlines) + 1
        ELSE IF end - 1 > i /\ end <= Len(t) THEN end - 1
        ELSE end

(* One round of the loop: the patterns in their order.                     *)
MatchEnd(t, i) ==
    LET contraction == MatchContraction(t, i)
        letters == IF t[i] = "number" THEN i + 1 ELSE MatchLettersRun(t, i)
        punct == MatchSpacePunct(t, i)
        white == MatchWsRun(t, i)
    IN  IF contraction > i THEN contraction
        ELSE IF letters > i THEN letters
        ELSE IF punct > i THEN punct
        ELSE IF white > i THEN white ELSE i + 1

Gpt2Pretokenize(t) ==
    LET end == [i \in DOMAIN t |-> MatchEnd(t, i)]
    IN  Chain(Len(t), [i \in DOMAIN t |-> <<i, end[i] - 1>>], end)

-----------------------------------------------------------------------------
(* The regex, as the comment above the matchers quotes it: for each of its *)
(* alternatives, where a match from i may end.  Greedy, it takes the first *)
(* alternative that matches at all and there the longest match.            *)

All(t, i, j, C) == \A k \in i..(j - 1) : t[k] \in C

Alternatives(t, i) ==
    LET To == i..(Len(t) + 1) IN
    << {j \in To : SubSeq(t, i, j - 1) \in {<<"'", "s">>, <<"'", "r", "e">>, <<"'", "l", "l">>}},
       {j \in To : \E o \in {0, 1} : /\ j > i + o /\ All(t, i + o, j, LetterOrMark)
                                     /\ o = 1 => t[i] \notin Newline \cup Letter \cup {"number"}},
       {j \in To : j = i + 1 /\ t[i] = "number"},
       {j \in To : \E o \in {0, 1}, k \in To :
                       /\ i + o < k /\ k <= j
                       /\ o = 1 => t[i] = "space"
                       /\ All(t, i + o, k, Punct) /\ All(t, k, j, Newline)},
       {j \in To : \E k \in To : k < j /\ All(t, i, k, White) /\ All(t, k, j, Newline)},
       {j \in To : j > i /\ All(t, i, j, White) /\ (j <= Len(t) => t[j] \in White)},
       {j \in To : j > i /\ All(t, i, j, White)} >>

RegexEnd(t, i) ==
    LET a == Alternatives(t, i)
    IN  Max(a[Min({k \in DOMAIN a : a[k] # {}})])

RegexSplit(t) ==
    LET end == [i \in DOMAIN t |-> RegexEnd(t, i)]
    IN  Chain(Len(t), [i \in DOMAIN t |-> <<i, end[i] - 1>>], end)
=============================================================================
