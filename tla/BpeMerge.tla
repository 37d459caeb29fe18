------------------------------ MODULE BpeMerge ------------------------------
(***************************************************************************)
(* bpe_merge (src/src/model/tokenizer.c): the characters of a word are     *)
(* nodes of a linked list, and its neighbours that have a rank are         *)
(* candidates in a heap.  A merge makes candidates stale, which stay in    *)
(* the heap until they are popped.                                         *)
(*                                                                         *)
(* The heap is a set: bpe_push_cand and bpe_heap_pop keep an array in heap *)
(* order, of which only the pop of a minimum is seen, and no candidate is  *)
(* pushed twice, as one of its versions is new.  Nodes are numbered from   *)
(* 1, and 0 stands for no node.                                            *)
(***************************************************************************)
EXTENDS Integers, Sequences, FiniteSets

VARIABLES
    input, chars, ranks,   \* what it is given: a word, its characters, ranks of pairs
    nodes, heap

given == <<input, chars, ranks>>

FirstNodes ==
    [i \in DOMAIN chars |->
        [start |-> chars[i].start, end |-> chars[i].end, prev |-> i - 1,
         next |-> IF i < Len(chars) THEN i + 1 ELSE 0, ver |-> 0]]

SliceOf(ns, i) == SubSeq(input, ns[i].start, ns[i].end)

(* bpe_push_cand: the pair as it is now, if it has a rank. *)
Candidate(ns, l, r) ==
    LET pair == <<SliceOf(ns, l), SliceOf(ns, r)>> IN
    IF pair \in DOMAIN ranks
    THEN {[rank |-> ranks[pair], left |-> l, right |-> r, lver |-> ns[l].ver, rver |-> ns[r].ver]}
    ELSE {}

Seeds(ns) == UNION {Candidate(ns, i, i + 1) : i \in 1..(Len(chars) - 1)}

(* bpe_merge begins: the word is split and the heap seeded. *)
Split(word, characters, table) ==
    /\ input' = word /\ chars' = characters /\ ranks' = table
    /\ nodes' = FirstNodes' /\ heap' = Seeds(FirstNodes)'

(* Mutant: ranks alone decide.                                             *)
LessRank(c, d) == c.rank < d.rank

(* bpe_cand_less *)
Less(c, d) == c.rank < d.rank \/ (c.rank = d.rank /\ c.left < d.left)

(* The stale-candidate guard *)
Fresh(c) == nodes[c.left].ver = c.lver /\ nodes[c.right].ver = c.rver

(* The list when the right node of c is merged into the left one. *)
Merged(c) ==
    LET right == nodes[c.right]
        ns == [nodes EXCEPT ![c.left].end = right.end, ![c.left].ver = @ + 1,
                            ![c.left].next = right.next, ![c.right].ver = @ + 1]
    IN  IF right.next = 0 THEN ns ELSE [ns EXCEPT ![right.next].prev = c.left]

(* Mutant: the pair with the symbol before is not looked up again.         *)
PushedBehind(ns, l) == IF ns[l].next # 0 THEN Candidate(ns, l, ns[l].next) ELSE {}

(* The pairs of a node that has grown are looked up again. *)
Pushed(ns, l) ==
    (IF ns[l].prev # 0 THEN Candidate(ns, ns[l].prev, l) ELSE {})
    \cup (IF ns[l].next # 0 THEN Candidate(ns, l, ns[l].next) ELSE {})

(* One round of the loop: bpe_heap_pop, the guard, the merge. *)
MergeStep ==
    /\ \E c \in heap :
        /\ \A d \in heap : ~Less(d, c)
        /\ IF Fresh(c)
           THEN nodes' = Merged(c) /\ heap' = (heap \ {c}) \cup Pushed(Merged(c), c.left)
           ELSE heap' = heap \ {c} /\ UNCHANGED nodes
    /\ UNCHANGED given

-----------------------------------------------------------------------------
(* A node is in the list when the node before it says so. *)
Live(i) == nodes[i].prev = 0 \/ nodes[nodes[i].prev].next = i
Heads == {i \in DOMAIN nodes : Live(i)}

Naive == INSTANCE NaiveMerge WITH heads <- Heads

(* When the heap is empty the naive scan finds nothing either. *)
NoneLeft == heap = {} => Naive!Ranked = {}

(* bpe_cand_less promises to reproduce the naive scan, leftmost-wins       *)
(* tie-break and all: a word begins as its characters, whatever is stale   *)
(* in the heap each merge is the one that the naive scan makes next, and   *)
(* the heap is not empty before that scan is done.                         *)
MergesAreNaive ==
    /\ []NoneLeft
    /\ [][IF nodes = <<>> THEN Heads' = DOMAIN chars'
          ELSE nodes' # <<>> => [Naive!Join]_(Naive!vars)]_<<nodes, heap>>
=============================================================================
