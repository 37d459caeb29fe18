----------------------------- MODULE NaiveMerge -----------------------------
(***************************************************************************)
(* Byte-pair merging as it is defined: while two neighbours have a rank,   *)
(* scan for the pair of the lowest rank, the leftmost of those, and join   *)
(* it.  A symbol is a run of characters; it is known by its first one.     *)
(***************************************************************************)
EXTENDS Integers, Sequences

VARIABLES
    input, chars, ranks,   \* what bpe_merge is given
    heads                  \* the characters that begin a symbol

vars == <<input, chars, ranks, heads>>

Init == heads = DOMAIN chars

(* The last character of the symbol that begins with h. *)
LastOf(h) ==
    CHOOSE e \in h..Len(chars) :
        /\ e = Len(chars) \/ e + 1 \in heads
        /\ \A i \in (h + 1)..e : i \notin heads

Symbol(h) == SubSeq(input, chars[h].start, chars[LastOf(h)].end)

(* The symbol that begins with h and the one behind it. *)
Pair(h) == <<Symbol(h), Symbol(LastOf(h) + 1)>>

Ranked == {h \in heads : LastOf(h) < Len(chars) /\ Pair(h) \in DOMAIN ranks}

Join ==
    \E h \in Ranked :
        /\ \A g \in Ranked : \/ ranks[Pair(h)] < ranks[Pair(g)]
                             \/ ranks[Pair(h)] = ranks[Pair(g)] /\ h <= g
        /\ heads' = heads \ {LastOf(h) + 1}
        /\ UNCHANGED <<input, chars, ranks>>

Spec == Init /\ [][Join]_vars
=============================================================================
