--------------------------- MODULE TokenizerProofs ---------------------------
(***************************************************************************)
(* The heap and the linked list of bpe_merge make the merges of the naive  *)
(* scan, for every word and every table of merges, and the heap never      *)
(* needs more room than was claimed for it.                                *)
(*                                                                         *)
(* Around it the tokenizer: a loaded tokenizer is consistent, each word of *)
(* a text is merged as the naive scan would, no buffer of the encoder      *)
(* outgrows what was reserved for the segment, and the ids of a text are   *)
(* those of the reference.                                                 *)
(***************************************************************************)
EXTENDS Tokenizer, FiniteSetTheorems, SequenceTheorems, TLAPS

mergevars == <<input, chars, ranks, nodes, heap>>

(* Any word, wherever its characters are, and any table of merges.         *)
MergeInit ==
    /\ chars \in Seq([start : Nat, end : Nat, cp : Nat])
    /\ \A pair \in DOMAIN ranks : ranks[pair] \in Nat
    /\ nodes = FirstNodes /\ heap = Seeds(FirstNodes)

MergeSpec == MergeInit /\ [][MergeStep]_mergevars

N == Len(chars)

(* The last character of the symbol that node i stands for. *)
EndOf(i) == IF nodes[i].next = 0 THEN N ELSE nodes[i].next - 1

PairOf(i) == <<SliceOf(nodes, i), SliceOf(nodes, nodes[i].next)>>

MergeTypeOK ==
    /\ chars \in Seq([start : Nat, end : Nat, cp : Nat])
    /\ \A pair \in DOMAIN ranks : ranks[pair] \in Nat
    /\ nodes \in [1..N -> [start : Nat, end : Nat, prev : 0..N, next : 0..N, ver : Nat]]
    /\ heap \subseteq [rank : Nat, left : 1..N, right : 1..N, lver : Nat, rver : Nat]

(* The live nodes are a list, in the order of the characters, from the     *)
(* first one.  What left the list does not come back: its former neighbour *)
(* points behind it.                                                       *)
Linked ==
    /\ \A i \in 1..N : nodes[i].prev < i /\ (nodes[i].prev = 0 <=> i = 1)
    /\ \A i \in Heads : nodes[i].next # 0 =>
           /\ nodes[i].next > i /\ nodes[i].next \in Heads
           /\ nodes[nodes[i].next].prev = i
    /\ \A i \in Heads : i # 1 => nodes[i].prev \in Heads
    /\ \A i \in (1..N) \ Heads :
           nodes[nodes[i].prev].next = 0 \/ nodes[nodes[i].prev].next > i

(* Between a live node and the next there is no other. *)
Adjacent == \A i \in Heads : \A j \in (i + 1)..EndOf(i) : j \notin Heads

(* A live node covers the characters up to the next one. *)
Spans ==
    \A i \in Heads : nodes[i].start = chars[i].start /\ nodes[i].end = chars[EndOf(i)].end

(* A candidate whose versions are those of its nodes is two neighbours as  *)
(* they are now; already that of its left node says that they still are.   *)
Honest ==
    \A c \in heap :
        /\ c.lver <= nodes[c.left].ver /\ c.rver <= nodes[c.right].ver
        /\ c.lver = nodes[c.left].ver => c.left \in Heads /\ nodes[c.left].next = c.right
        /\ Fresh(c) => PairOf(c.left) \in DOMAIN ranks /\ c.rank = ranks[PairOf(c.left)]

(* The candidate of node i and the next. *)
Now(i) == [rank |-> ranks[PairOf(i)], left |-> i, right |-> nodes[i].next,
           lver |-> nodes[i].ver, rver |-> nodes[nodes[i].next].ver]

(* Neighbours that have a rank are in the heap as they are now. *)
Seeded == \A i \in Heads : nodes[i].next # 0 /\ PairOf(i) \in DOMAIN ranks => Now(i) \in heap

(* bpe_push_cand asserts that a push finds room in the heap, and claims    *)
(* the bound of which the scratch buffer's is more than enough.            *)
HeapFits == Cardinality(heap) <= 3 * (N - 1) \/ heap = {}

(* Each merge pushes two candidates for the one it popped and the node it  *)
(* took out.                                                               *)
Counted ==
    /\ IsFiniteSet(heap)
    /\ heap # {} => Cardinality(heap) + Cardinality(Heads) <= 2 * N - 1

MergeInv == MergeTypeOK /\ Linked /\ Adjacent /\ Spans /\ Honest /\ Seeded /\ Counted

-----------------------------------------------------------------------------
(* The naive scan, seen through the list                                   *)

LEMMA Length == ASSUME MergeTypeOK PROVE N \in Nat /\ DOMAIN chars = 1..N /\ DOMAIN nodes = 1..N
BY DEF MergeTypeOK, N

(* Heads of the list: the first node, and those the node before points to. *)
LEMMA HeadsLive ==
    ASSUME MergeTypeOK, Linked
    PROVE  \A i \in 1..N : i \in Heads <=> (i = 1 \/ nodes[nodes[i].prev].next = i)
BY Length DEF Heads, Live, Linked

(* The naive scan finds the end of a symbol where the list has it.         *)
LEMMA EndOfHead ==
    ASSUME MergeTypeOK, Linked, Adjacent, NEW h \in Heads
    PROVE  Naive!LastOf(h) = EndOf(h)
<1>1. N \in Nat /\ DOMAIN nodes = 1..N /\ h \in 1..N
  BY Length DEF Heads
<1>2. nodes[h].next \in 0..N
  BY <1>1 DEF MergeTypeOK
<1>3. nodes[h].next # 0 => nodes[h].next > h /\ nodes[h].next \in Heads
  BY DEF Linked
<1>4. \A j \in (h + 1)..EndOf(h) : j \notin Heads
  BY DEF Adjacent
<1> DEFINE Fits(e) == /\ e = N \/ e + 1 \in Heads
                      /\ \A i \in (h + 1)..e : i \notin Heads
<1>5. EndOf(h) \in h..N /\ Fits(EndOf(h))
  BY <1>1, <1>2, <1>3, <1>4 DEF EndOf
<1>6. ASSUME NEW e \in h..N, Fits(e) PROVE e = EndOf(h)
  <2>1. ~(e < EndOf(h))
    BY <1>1, <1>2, <1>5, <1>6
  <2>2. ~(EndOf(h) < e)
    BY <1>1, <1>2, <1>5, <1>6
  <2> QED
    BY <1>1, <1>5, <2>1, <2>2
<1>7. Naive!LastOf(h) = CHOOSE e \in h..N : Fits(e)
  BY DEF Naive!LastOf, N
<1> QED
  BY <1>5, <1>6, <1>7

(* Its pairs are the neighbours of the list.                               *)
LEMMA PairOfHead ==
    ASSUME MergeTypeOK, Linked, Adjacent, Spans, NEW h \in Heads
    PROVE  /\ Naive!LastOf(h) < N <=> nodes[h].next # 0
           /\ nodes[h].next # 0 => /\ Naive!LastOf(h) + 1 = nodes[h].next
                                   /\ Naive!Pair(h) = PairOf(h)
<1>1. N \in Nat /\ h \in 1..N /\ nodes[h].next \in 0..N
  BY Length DEF Heads, MergeTypeOK
<1>2. Naive!LastOf(h) = EndOf(h)
  BY EndOfHead
<1>3. ASSUME NEW i \in Heads PROVE Naive!Symbol(i) = SliceOf(nodes, i)
  BY <1>3, EndOfHead DEF Naive!Symbol, SliceOf, Spans
<1>4. nodes[h].next # 0 => nodes[h].next \in Heads
  BY DEF Linked
<1> QED
  BY <1>1, <1>2, <1>3, <1>4 DEF EndOf, Naive!Pair, PairOf

LEMMA RankedPairs ==
    ASSUME MergeTypeOK, Linked, Adjacent, Spans
    PROVE  Naive!Ranked = {h \in Heads : nodes[h].next # 0 /\ PairOf(h) \in DOMAIN ranks}
<1>1. Naive!Ranked = {h \in Heads : Naive!LastOf(h) < N /\ Naive!Pair(h) \in DOMAIN ranks}
  BY DEF Naive!Ranked, N
<1> QED
  BY <1>1, PairOfHead

-----------------------------------------------------------------------------
(* Initially                                                               *)

LEMMA FirstType ==
    ASSUME MergeInit
    PROVE  MergeTypeOK /\ nodes = FirstNodes /\ Heads = 1..N
<1>1. /\ chars \in Seq([start : Nat, end : Nat, cp : Nat])
      /\ \A pair \in DOMAIN ranks : ranks[pair] \in Nat
  BY DEF MergeInit
<1>2. /\ N \in Nat /\ DOMAIN chars = 1..N
      /\ \A i \in 1..N : chars[i].start \in Nat /\ chars[i].end \in Nat
  <2> DEFINE Character == [start : Nat, end : Nat, cp : Nat]
  <2>1. chars \in Seq(Character)
    BY <1>1
  <2> HIDE DEF Character
  <2>2. N \in Nat /\ DOMAIN chars = 1..N /\ \A i \in 1..N : chars[i] \in Character
    BY <2>1 DEF N
  <2> QED
    BY <2>2 DEF Character
<1>3. nodes = FirstNodes
  BY DEF MergeInit
<1>4. nodes \in [1..N -> [start : Nat, end : Nat, prev : 0..N, next : 0..N, ver : Nat]]
  <2>1. nodes = [i \in 1..N |-> [start |-> chars[i].start, end |-> chars[i].end, prev |-> i - 1,
                                 next |-> IF i < N THEN i + 1 ELSE 0, ver |-> 0]]
    BY <1>2, <1>3 DEF FirstNodes, N
  <2> QED
    BY <1>2, <2>1
<1>5. \A i \in 1..N : nodes[i].prev = i - 1 /\ nodes[i].next = (IF i < N THEN i + 1 ELSE 0)
                      /\ nodes[i].ver = 0
  BY <1>2, <1>3 DEF FirstNodes, N
<1>6. heap \subseteq [rank : Nat, left : 1..N, right : 1..N, lver : Nat, rver : Nat]
  <2>1. SUFFICES ASSUME NEW c \in heap
                 PROVE  c \in [rank : Nat, left : 1..N, right : 1..N, lver : Nat, rver : Nat]
    OBVIOUS
  <2>2. PICK i \in 1..(N - 1) : c \in Candidate(nodes, i, i + 1)
    BY <1>3 DEF MergeInit, Seeds, N
  <2>3. i \in 1..N /\ i + 1 \in 1..N /\ nodes[i].ver = 0 /\ nodes[i + 1].ver = 0
    BY <1>2, <1>5
  <2>4. PICK rank \in Nat : c = [rank |-> rank, left |-> i, right |-> i + 1,
                                lver |-> 0, rver |-> 0]
    <3> DEFINE pair == <<SliceOf(nodes, i), SliceOf(nodes, i + 1)>>
    <3>1. pair \in DOMAIN ranks /\ c = [rank |-> ranks[pair], left |-> i, right |-> i + 1,
                                        lver |-> 0, rver |-> 0]
      BY <2>2, <2>3 DEF Candidate
    <3>2. ranks[pair] \in Nat
      BY <1>1, <3>1
    <3> QED
      BY <3>1, <3>2
  <2> QED
    BY <2>3, <2>4
<1>7. MergeTypeOK
  BY <1>1, <1>4, <1>6 DEF MergeTypeOK
<1>8. Heads = 1..N
  <2>1. DOMAIN nodes = 1..N
    BY <1>4
  <2>2. ASSUME NEW i \in 1..N PROVE Live(i)
    BY <1>2, <1>5 DEF Live
  <2> QED
    BY <2>1, <2>2 DEF Heads
<1> QED
  BY <1>3, <1>7, <1>8

LEMMA FirstInv == ASSUME MergeInit PROVE MergeInv
<1>1. MergeTypeOK /\ nodes = FirstNodes /\ Heads = 1..N
  BY FirstType
<1>2. N \in Nat /\ DOMAIN chars = 1..N
  BY <1>1, Length
<1>3. \A i \in 1..N : /\ nodes[i].prev = i - 1 /\ nodes[i].next = (IF i < N THEN i + 1 ELSE 0)
                      /\ nodes[i].ver = 0
                      /\ nodes[i].start = chars[i].start /\ nodes[i].end = chars[i].end
  BY <1>1, <1>2 DEF FirstNodes, N
<1>4. heap = UNION {Candidate(nodes, i, i + 1) : i \in 1..(N - 1)}
  BY <1>1 DEF MergeInit, Seeds, N
<1>5. Linked
  BY <1>1, <1>2, <1>3 DEF Linked
<1>6. ASSUME NEW i \in 1..N PROVE EndOf(i) = i
  <2>1. nodes[i].next = IF i < N THEN i + 1 ELSE 0
    BY <1>3
  <2> QED
    BY <1>2, <2>1 DEF EndOf
<1>7. Adjacent
  BY <1>1, <1>2, <1>6 DEF Adjacent
<1>8. Spans
  BY <1>1, <1>2, <1>3, <1>6 DEF Spans
<1>9. ASSUME NEW c \in heap
      PROVE  \E i \in 1..(N - 1) :
                 /\ PairOf(i) \in DOMAIN ranks
                 /\ c = [rank |-> ranks[PairOf(i)], left |-> i, right |-> i + 1,
                         lver |-> 0, rver |-> 0]
  <2>1. PICK i \in 1..(N - 1) : c \in Candidate(nodes, i, i + 1)
    BY <1>4
  <2>2. nodes[i].next = i + 1 /\ nodes[i].ver = 0 /\ nodes[i + 1].ver = 0
    BY <1>2, <1>3
  <2> QED
    BY <2>1, <2>2 DEF Candidate, PairOf
<1>10. Honest
  <2>1. SUFFICES ASSUME NEW c \in heap
                 PROVE  /\ c.lver <= nodes[c.left].ver /\ c.rver <= nodes[c.right].ver
                        /\ c.left \in Heads /\ nodes[c.left].next = c.right
                        /\ PairOf(c.left) \in DOMAIN ranks /\ c.rank = ranks[PairOf(c.left)]
    BY DEF Honest
  <2> QED
    BY <1>1, <1>2, <1>3, <1>9
<1>11. Seeded
  <2>1. SUFFICES ASSUME NEW i \in 1..N, nodes[i].next # 0, PairOf(i) \in DOMAIN ranks
                 PROVE  Now(i) \in heap
    BY <1>1 DEF Seeded
  <2>2. i \in 1..(N - 1) /\ nodes[i].next = i + 1
    BY <1>2, <1>3, <2>1
  <2>3. Now(i) \in Candidate(nodes, i, i + 1)
    BY <2>1, <2>2 DEF Now, Candidate, PairOf
  <2> QED
    BY <1>4, <2>2, <2>3
<1>12. Counted
  <2> DEFINE lefts == [c \in heap |-> c.left]
  <2>1. lefts \in Injection(heap, 1..(N - 1))
    <3>1. ASSUME NEW c \in heap PROVE c.left \in 1..(N - 1)
      BY <1>9
    <3>2. ASSUME NEW c \in heap, NEW d \in heap, c.left = d.left PROVE c = d
      <4>1. PICK i \in 1..(N - 1) : c = [rank |-> ranks[PairOf(i)], left |-> i, right |-> i + 1,
                                        lver |-> 0, rver |-> 0]
        BY <1>9
      <4>2. PICK j \in 1..(N - 1) : d = [rank |-> ranks[PairOf(j)], left |-> j, right |-> j + 1,
                                        lver |-> 0, rver |-> 0]
        BY <1>9
      <4>3. i = j
        BY <3>2, <4>1, <4>2
      <4> QED
        BY <4>1, <4>2, <4>3
    <3>3. lefts \in [heap -> 1..(N - 1)]
      BY <3>1
    <3> QED
      BY <3>2, <3>3 DEF Injection, IsInjective
  <2>2. IsFiniteSet(1..(N - 1)) /\ (N >= 1 => Cardinality(1..(N - 1)) = N - 1)
    BY <1>2, FS_Interval
  <2>3. IsFiniteSet(heap) /\ Cardinality(heap) <= Cardinality(1..(N - 1))
    BY <2>1, <2>2, FS_Injection
  <2>4. Cardinality(Heads) = N
    BY <1>1, <1>2, FS_Interval
  <2>5. heap # {} => N >= 1
    BY <1>2, <1>9
  <2>6. Cardinality(heap) \in Nat
    BY <2>3, FS_CardinalityType
  <2> QED
    BY <1>2, <2>2, <2>3, <2>4, <2>5, <2>6 DEF Counted
<1> QED
  BY <1>1, <1>5, <1>7, <1>8, <1>10, <1>11, <1>12 DEF MergeInv

-----------------------------------------------------------------------------
(* A merge                                                                 *)

(* What is popped and not stale is two neighbours of the list, of the      *)
(* lowest rank, the leftmost of those.                                     *)
LEMMA PoppedPair ==
    ASSUME MergeInv, NEW c \in heap, Fresh(c), \A d \in heap : ~Less(d, c)
    PROVE  /\ c.left \in 1..N /\ c.right \in 1..N /\ c.left < c.right
           /\ c.left \in Heads /\ c.right \in Heads
           /\ nodes[c.left].next = c.right /\ nodes[c.right].prev = c.left
           /\ nodes[c.right].next \in 0..N
           /\ nodes[c.right].next # 0 => /\ nodes[c.right].next > c.right
                                        /\ nodes[c.right].next \in Heads
                                        /\ nodes[nodes[c.right].next].prev = c.right
           /\ PairOf(c.left) \in DOMAIN ranks
           /\ \A i \in Heads : nodes[i].next # 0 /\ PairOf(i) \in DOMAIN ranks =>
                  \/ ranks[PairOf(c.left)] < ranks[PairOf(i)]
                  \/ ranks[PairOf(c.left)] = ranks[PairOf(i)] /\ c.left <= i
<1> USE DEF MergeInv
<1>1. c.left \in 1..N /\ c.right \in 1..N
  BY DEF MergeTypeOK
<1>2. N \in Nat /\ DOMAIN nodes = 1..N
  BY Length
<1>3. c.lver = nodes[c.left].ver
  BY DEF Fresh
<1>4. /\ c.left \in Heads /\ nodes[c.left].next = c.right
      /\ PairOf(c.left) \in DOMAIN ranks /\ c.rank = ranks[PairOf(c.left)]
  BY <1>3 DEF Honest
<1>5. c.right > c.left /\ c.right \in Heads /\ nodes[c.right].prev = c.left
  BY <1>1, <1>4 DEF Linked
<1>6. nodes[c.right].next \in 0..N
  BY <1>1 DEF MergeTypeOK
<1>7. nodes[c.right].next # 0 => /\ nodes[c.right].next > c.right
                                /\ nodes[c.right].next \in Heads
                                /\ nodes[nodes[c.right].next].prev = c.right
  BY <1>5 DEF Linked
<1>8. ASSUME NEW i \in Heads, nodes[i].next # 0, PairOf(i) \in DOMAIN ranks
      PROVE  \/ c.rank < ranks[PairOf(i)]
             \/ c.rank = ranks[PairOf(i)] /\ c.left <= i
  <2>1. Now(i) \in heap
    BY <1>8 DEF Seeded
  <2>2. ~Less(Now(i), c)
    BY <2>1
  <2>3. ranks[PairOf(i)] \in Nat /\ c.rank \in Nat /\ i \in 1..N
    BY <1>2, <1>4, <1>8 DEF MergeTypeOK, Heads
  <2>4. Now(i).rank = ranks[PairOf(i)] /\ Now(i).left = i
    BY DEF Now
  <2> QED
    BY <1>1, <1>2, <2>2, <2>3, <2>4 DEF Less
<1> QED
  BY <1>1, <1>2, <1>4, <1>5, <1>6, <1>7, <1>8

(* The new list, node by node.                                             *)
LEMMA MergedNodes ==
    ASSUME MergeInv, NEW c \in heap, Fresh(c), \A d \in heap : ~Less(d, c),
           nodes' = Merged(c), UNCHANGED given
    PROVE  /\ nodes' \in [1..N -> [start : Nat, end : Nat, prev : 0..N, next : 0..N, ver : Nat]]
           /\ \A i \in 1..N :
                  /\ nodes'[i].start = nodes[i].start
                  /\ nodes'[i].end = IF i = c.left THEN nodes[c.right].end ELSE nodes[i].end
                  /\ nodes'[i].next = IF i = c.left THEN nodes[c.right].next ELSE nodes[i].next
                  /\ nodes'[i].prev = IF i = nodes[c.right].next THEN c.left ELSE nodes[i].prev
                  /\ nodes'[i].ver = IF i \in {c.left, c.right} THEN nodes[i].ver + 1
                                     ELSE nodes[i].ver
<1> DEFINE l == c.left  r == c.right  rn == nodes[c.right].next
           Node == [start : Nat, end : Nat, prev : 0..N, next : 0..N, ver : Nat]
           ns == [nodes EXCEPT ![l].end = nodes[r].end, ![l].ver = @ + 1, ![l].next = rn,
                               ![r].ver = @ + 1]
<1>1. /\ l \in 1..N /\ r \in 1..N /\ l < r /\ rn \in 0..N /\ (rn # 0 => rn > r)
  BY PoppedPair
<1>2. N \in Nat /\ nodes \in [1..N -> Node]
  BY Length DEF MergeInv, MergeTypeOK
<1>3. \A i \in 1..N : /\ nodes[i].start \in Nat /\ nodes[i].end \in Nat /\ nodes[i].prev \in 0..N
                      /\ nodes[i].next \in 0..N /\ nodes[i].ver \in Nat
  BY <1>2
<1>4. nodes' = IF rn = 0 THEN ns ELSE [ns EXCEPT ![rn].prev = l]
  BY DEF Merged
<1> DEFINE left == [nodes[l] EXCEPT !.end = nodes[r].end, !.ver = @ + 1, !.next = rn]
           right == [nodes[r] EXCEPT !.ver = @ + 1]
<1>5. /\ DOMAIN ns = 1..N /\ ns = [i \in 1..N |-> ns[i]]
      /\ ns[l] = left /\ ns[r] = right
      /\ \A i \in (1..N) \ {l, r} : ns[i] = nodes[i]
  <2>1. DOMAIN nodes = 1..N /\ l # r
    BY <1>1, <1>2
  <2> QED
    BY <1>1, <2>1
<1>6. /\ left \in Node /\ right \in Node
      /\ left.start = nodes[l].start /\ left.end = nodes[r].end /\ left.next = rn
      /\ left.prev = nodes[l].prev /\ left.ver = nodes[l].ver + 1
      /\ right.start = nodes[r].start /\ right.end = nodes[r].end /\ right.next = rn
      /\ right.prev = nodes[r].prev /\ right.ver = nodes[r].ver + 1
  <2>1. nodes[l] \in Node /\ nodes[r] \in Node
    BY <1>1, <1>2
  <2>2. PICK x \in Nat, y \in Nat, p \in 0..N, q \in 0..N, v \in Nat :
            nodes[l] = [start |-> x, end |-> y, prev |-> p, next |-> q, ver |-> v]
    BY <2>1
  <2>3. PICK x2 \in Nat, y2 \in Nat, p2 \in 0..N, v2 \in Nat :
            nodes[r] = [start |-> x2, end |-> y2, prev |-> p2, next |-> rn, ver |-> v2]
    BY <2>1
  <2>4. left = [start |-> x, end |-> y2, prev |-> p, next |-> rn, ver |-> v + 1]
    <3>1. nodes[r].end = y2
      BY <2>3
    <3>2. left = [[start |-> x, end |-> y, prev |-> p, next |-> q, ver |-> v]
                  EXCEPT !.end = y2, !.ver = @ + 1, !.next = rn]
      BY <2>2, <3>1
    <3> HIDE DEF left, rn
    <3> QED
      BY <3>2
  <2>5. right = [start |-> x2, end |-> y2, prev |-> p2, next |-> rn, ver |-> v2 + 1]
    BY <2>3
  <2> HIDE DEF left, right
  <2>6. left \in Node /\ right \in Node
    BY <1>1, <2>4, <2>5
  <2> QED
    BY <2>2, <2>3, <2>4, <2>5, <2>6
<1> HIDE DEF ns, left, right, Node
<1>7. \A i \in 1..N : ns[i] \in Node
  BY <1>1, <1>2, <1>5, <1>6
<1>8. \A i \in 1..N : nodes'[i] = IF i = rn THEN [ns[i] EXCEPT !.prev = l] ELSE ns[i]
  <2> HIDE DEF l, r, rn
  <2>1. CASE rn = 0
    BY <1>4, <2>1
  <2>2. CASE rn # 0
    <3>1. nodes' = [ns EXCEPT ![rn].prev = l] /\ rn \in 1..N
      BY <1>1, <1>4, <2>2
    <3>2. DOMAIN ns = 1..N
      BY <1>5
    <3> QED
      BY <3>1, <3>2
  <2> QED
    BY <2>1, <2>2
<1>9. ASSUME NEW i \in 1..N
      PROVE  /\ nodes'[i] \in Node
             /\ nodes'[i].start = ns[i].start /\ nodes'[i].end = ns[i].end
             /\ nodes'[i].next = ns[i].next /\ nodes'[i].ver = ns[i].ver
             /\ nodes'[i].prev = IF i = rn THEN l ELSE ns[i].prev
  <2>1. ns[i] \in Node /\ l \in 0..N
    BY <1>1, <1>2, <1>7
  <2>2. CASE i = rn
    <3>1. nodes'[i] = [ns[i] EXCEPT !.prev = l]
      BY <1>8, <2>2
    <3> QED
      BY <2>1, <2>2, <3>1 DEF Node
  <2> QED
    BY <1>8, <2>1, <2>2
<1>10. nodes' \in [1..N -> Node]
  <2>1. nodes' = [i \in 1..N |-> nodes'[i]]
    BY <1>1, <1>4, <1>5
  <2> QED
    BY <1>9, <2>1
<1>11. ASSUME NEW i \in 1..N
       PROVE  /\ nodes'[i].start = nodes[i].start
              /\ nodes'[i].end = IF i = l THEN nodes[r].end ELSE nodes[i].end
              /\ nodes'[i].next = IF i = l THEN rn ELSE nodes[i].next
              /\ nodes'[i].prev = IF i = rn THEN l ELSE nodes[i].prev
              /\ nodes'[i].ver = IF i \in {l, r} THEN nodes[i].ver + 1 ELSE nodes[i].ver
  <2>1. CASE i = l
    BY <1>1, <1>5, <1>6, <1>9, <2>1
  <2>2. CASE i = r
    BY <1>1, <1>5, <1>6, <1>9, <2>2
  <2>3. CASE i \notin {l, r}
    BY <1>1, <1>5, <1>9, <2>3
  <2> QED
    BY <2>1, <2>2, <2>3
<1> QED
  BY <1>10, <1>11 DEF Node

(* The right node leaves the list, and no other.                           *)
LEMMA MergedHeads ==
    ASSUME MergeInv, NEW c \in heap, Fresh(c), \A d \in heap : ~Less(d, c),
           nodes' = Merged(c), UNCHANGED given
    PROVE  Heads' = Heads \ {c.right} /\ Heads \subseteq 1..N
<1> DEFINE l == c.left  r == c.right  rn == nodes[c.right].next
<1>1. /\ l \in 1..N /\ r \in 1..N /\ l < r /\ l \in Heads /\ r \in Heads
      /\ nodes[l].next = r /\ nodes[r].prev = l /\ rn \in 0..N
      /\ rn # 0 => rn > r /\ rn \in Heads /\ nodes[rn].prev = r
  BY PoppedPair
<1>2. /\ DOMAIN nodes' = 1..N
      /\ \A i \in 1..N :
             /\ nodes'[i].next = IF i = l THEN rn ELSE nodes[i].next
             /\ nodes'[i].prev = IF i = rn THEN l ELSE nodes[i].prev
  BY MergedNodes
<1>3. /\ N \in Nat /\ DOMAIN nodes = 1..N
      /\ \A i \in 1..N : nodes[i].prev \in 0..N /\ nodes[i].next \in 0..N
  BY Length DEF MergeInv, MergeTypeOK
<1>4. /\ \A i \in 1..N : nodes[i].prev < i /\ (nodes[i].prev = 0 <=> i = 1)
      /\ \A i \in (1..N) \ Heads :
             nodes[nodes[i].prev].next = 0 \/ nodes[nodes[i].prev].next > i
  BY DEF MergeInv, Linked
<1>5. ASSUME NEW i \in 1..N PROVE Live(i)' <=> Live(i) /\ i # r
  <2>1. nodes[i].prev \in 0..N /\ (nodes[i].prev # 0 => nodes[i].prev \in 1..N)
    BY <1>3
  <2>2. Live(i)' <=> nodes'[i].prev = 0 \/ nodes'[nodes'[i].prev].next = i
    BY DEF Live
  <2>3. Live(i) <=> nodes[i].prev = 0 \/ nodes[nodes[i].prev].next = i
    BY DEF Live
  <2>4. CASE i = r
    BY <1>1, <1>2, <1>3, <2>2, <2>4
  <2>5. CASE i = rn
    <3>1. Live(i)
      BY <1>1, <1>3, <2>5 DEF Heads
    <3> QED
      BY <1>1, <1>2, <1>3, <2>2, <2>5, <3>1
  <2>6. CASE i # r /\ i # rn /\ nodes[i].prev # l
    BY <1>1, <1>2, <1>3, <2>1, <2>2, <2>3, <2>6
  <2>7. CASE i # r /\ i # rn /\ nodes[i].prev = l
    <3>1. ~Live(i)
      BY <1>1, <2>3, <2>7
    <3>2. r > i
      BY <1>1, <1>3, <1>4, <2>7, <3>1 DEF Heads
    <3>3. ~Live(i)'
      BY <1>1, <1>2, <1>3, <2>2, <2>7, <3>2
    <3> QED
      BY <3>1, <3>3
  <2> QED
    BY <2>4, <2>5, <2>6, <2>7
<1>6. Heads' = {i \in 1..N : Live(i)'}
  BY <1>2 DEF Heads
<1> QED
  BY <1>3, <1>5, <1>6 DEF Heads

(* The symbols other than the left one are as they were.                   *)
LEMMA MergedPairs ==
    ASSUME MergeInv, NEW c \in heap, Fresh(c), \A d \in heap : ~Less(d, c),
           nodes' = Merged(c), UNCHANGED given
    PROVE  /\ \A i \in 1..N : i # c.left => SliceOf(nodes, i)' = SliceOf(nodes, i)
           /\ \A i \in 1..N : i # c.left /\ nodes[i].next # c.left /\ nodes[i].next # 0 =>
                  nodes'[i].next = nodes[i].next /\ PairOf(i)' = PairOf(i)
<1> USE DEF given
<1>1. /\ c.left \in 1..N /\ c.right \in 1..N /\ nodes[c.left].next = c.right
      /\ c.left \in Heads
  BY PoppedPair
<1>2. \A i \in 1..N :
          /\ nodes'[i].start = nodes[i].start
          /\ nodes'[i].end = IF i = c.left THEN nodes[c.right].end ELSE nodes[i].end
          /\ nodes'[i].next = IF i = c.left THEN nodes[c.right].next ELSE nodes[i].next
  BY MergedNodes
<1>3. \A i \in 1..N : i # c.left => SliceOf(nodes, i)' = SliceOf(nodes, i)
  BY <1>2 DEF SliceOf
<1>4. ASSUME NEW i \in 1..N, i # c.left, nodes[i].next # c.left, nodes[i].next # 0
      PROVE  nodes'[i].next = nodes[i].next /\ PairOf(i)' = PairOf(i)
  <2>1. nodes'[i].next = nodes[i].next
    BY <1>2, <1>4
  <2>2. nodes[i].next \in 1..N
    <3>1. nodes[i].next \in 0..N
      BY DEF MergeInv, MergeTypeOK
    <3> QED
      BY <1>4, <3>1, Length DEF MergeInv
  <2>3. /\ SliceOf(nodes, i)' = SliceOf(nodes, i)
        /\ SliceOf(nodes, nodes[i].next)' = SliceOf(nodes, nodes[i].next)
    BY <1>2, <1>4, <2>1, <2>2 DEF SliceOf
  <2> QED
    BY <2>1, <2>3 DEF PairOf
<1> QED
  BY <1>3, <1>4

LEMMA MergedLinked ==
    ASSUME MergeInv, NEW c \in heap, Fresh(c), \A d \in heap : ~Less(d, c),
           nodes' = Merged(c), UNCHANGED given
    PROVE  Linked' /\ Adjacent' /\ Spans'
<1> DEFINE l == c.left  r == c.right  rn == nodes[c.right].next
<1>1. /\ l \in 1..N /\ r \in 1..N /\ l < r /\ l \in Heads /\ r \in Heads
      /\ nodes[l].next = r /\ nodes[r].prev = l /\ rn \in 0..N
      /\ rn # 0 => rn > r /\ rn \in Heads /\ nodes[rn].prev = r
  BY PoppedPair
<1>2. \A i \in 1..N :
          /\ nodes'[i].start = nodes[i].start
          /\ nodes'[i].end = IF i = l THEN nodes[r].end ELSE nodes[i].end
          /\ nodes'[i].next = IF i = l THEN rn ELSE nodes[i].next
          /\ nodes'[i].prev = IF i = rn THEN l ELSE nodes[i].prev
  BY MergedNodes
<1>3. Heads' = Heads \ {r} /\ Heads \subseteq 1..N /\ N' = N /\ chars' = chars
  BY MergedHeads DEF N, given
<1>4. /\ N \in Nat
      /\ \A i \in 1..N : nodes[i].prev \in 0..N /\ nodes[i].next \in 0..N
  BY Length DEF MergeInv, MergeTypeOK
<1>5. Linked
  BY DEF MergeInv
<1>6. \A i \in 1..N : nodes'[i].prev < i /\ (nodes'[i].prev = 0 <=> i = 1)
  BY <1>1, <1>2, <1>4, <1>5 DEF Linked
<1>7. ASSUME NEW i \in Heads', nodes'[i].next # 0
      PROVE  /\ nodes'[i].next > i /\ nodes'[i].next \in Heads'
             /\ nodes'[nodes'[i].next].prev = i
  <2>1. i \in Heads /\ i # r /\ i \in 1..N
    BY <1>3
  <2>2. CASE i = l
    BY <1>1, <1>2, <1>3, <1>4, <1>7, <2>2
  <2>3. CASE i # l
    <3>1. nodes'[i].next = nodes[i].next
      BY <1>2, <2>1, <2>3
    <3>2. nodes[i].next > i /\ nodes[i].next \in Heads /\ nodes[nodes[i].next].prev = i
      BY <1>5, <1>7, <2>1, <3>1 DEF Linked
    <3>3. nodes[i].next # r /\ nodes[i].next # rn
      BY <1>1, <2>1, <2>3, <3>1, <3>2, <1>7
    <3>4. nodes[i].next \in 1..N
      BY <1>3, <3>2
    <3>5. nodes'[nodes[i].next].prev = nodes[nodes[i].next].prev
      BY <1>2, <3>3, <3>4
    <3> QED
      BY <1>3, <3>1, <3>2, <3>3, <3>5
  <2> QED
    BY <2>2, <2>3
<1>8. ASSUME NEW i \in Heads', i # 1 PROVE nodes'[i].prev \in Heads'
  <2>1. i \in Heads /\ i # r /\ i \in 1..N /\ nodes[i].prev \in Heads
    BY <1>3, <1>5, <1>8 DEF Linked
  <2>2. CASE i = rn
    BY <1>1, <1>2, <1>3, <2>1, <2>2
  <2>3. CASE i # rn
    <3>1. nodes'[i].prev = nodes[i].prev
      BY <1>2, <2>1, <2>3
    <3>2. Live(i) /\ nodes[i].prev # 0
      BY <1>5, <1>8, <2>1 DEF Heads, Linked
    <3>3. nodes[i].prev # r
      BY <2>3, <3>2 DEF Live
    <3> QED
      BY <1>3, <2>1, <3>1, <3>3
  <2> QED
    BY <2>2, <2>3
<1>9. ASSUME NEW i \in (1..N) \ Heads'
      PROVE  nodes'[nodes'[i].prev].next = 0 \/ nodes'[nodes'[i].prev].next > i
  <2>1. CASE i = r
    BY <1>1, <1>2, <1>4, <2>1
  <2>2. CASE i # r
    <3>1. i \notin Heads /\ i \in 1..N
      BY <1>3, <2>2
    <3>2. nodes[nodes[i].prev].next = 0 \/ nodes[nodes[i].prev].next > i
      BY <1>5, <3>1 DEF Linked
    <3>3. nodes'[i].prev = nodes[i].prev
      <4>1. i # rn
        BY <1>1, <1>4, <3>1
      <4> QED
        BY <1>2, <3>1, <4>1
    <3>4. nodes[i].prev \in 1..N
      <4>1. i # 1
        BY <1>4, <3>1, Length, HeadsLive DEF MergeInv
      <4>2. nodes[i].prev # 0
        BY <1>5, <3>1, <4>1 DEF Linked
      <4> QED
        BY <1>4, <3>1, <4>2
    <3> QED
      BY <1>1, <1>2, <1>4, <3>1, <3>2, <3>3, <3>4
  <2> QED
    BY <2>1, <2>2
<1>10. Linked'
  BY <1>3, <1>6, <1>7, <1>8, <1>9 DEF Linked
<1>11. ASSUME NEW i \in Heads'
       PROVE  /\ i \in Heads /\ i \in 1..N
              /\ EndOf(i)' = IF i = l THEN EndOf(r) ELSE EndOf(i)
  BY <1>1, <1>2, <1>3, <1>11 DEF EndOf
<1>12. Adjacent'
  <2>1. SUFFICES ASSUME NEW i \in Heads', NEW j \in (i + 1)..EndOf(i)' PROVE j \notin Heads'
    BY DEF Adjacent
  <2>2. CASE i = l
    <3>1. j \in (l + 1)..EndOf(l) \/ j = r \/ j \in (r + 1)..EndOf(r)
      <4>1. j \in (l + 1)..EndOf(r)
        BY <1>11, <2>1, <2>2
      <4>2. EndOf(l) = r - 1
        BY <1>1 DEF EndOf
      <4> HIDE DEF l, r
      <4>3. EndOf(r) \in Int /\ r \in Int /\ l \in Int
        BY <1>1, <1>4 DEF EndOf
      <4> QED
        BY <4>1, <4>2, <4>3
    <3> QED
      BY <1>1, <1>3, <3>1 DEF MergeInv, Adjacent
  <2>3. CASE i # l
    BY <1>3, <1>11, <2>1, <2>3 DEF MergeInv, Adjacent
  <2> QED
    BY <2>2, <2>3
<1>13. Spans'
  <2>1. SUFFICES ASSUME NEW i \in Heads'
                 PROVE  nodes'[i].start = chars[i].start /\ nodes'[i].end = chars[EndOf(i)'].end
    BY <1>3 DEF Spans
  <2>2. /\ nodes[i].start = chars[i].start /\ nodes[i].end = chars[EndOf(i)].end
        /\ nodes[r].end = chars[EndOf(r)].end
    BY <1>1, <1>11 DEF MergeInv, Spans
  <2> QED
    BY <1>1, <1>2, <1>11, <2>2
<1> QED
  BY <1>10, <1>12, <1>13

(* What a merge pushes: its node's pairs, as they are after it.            *)
LEMMA PushedPairs ==
    ASSUME MergeInv, NEW c \in heap, Fresh(c), \A d \in heap : ~Less(d, c),
           nodes' = Merged(c), UNCHANGED given
    PROVE  Pushed(nodes', c.left) =
             {Now(i)' : i \in {j \in Heads' : /\ nodes'[j].next # 0 /\ PairOf(j)' \in DOMAIN ranks
                                              /\ j = c.left \/ nodes'[j].next = c.left}}
<1> DEFINE l == c.left
           Around == {j \in Heads' : /\ nodes'[j].next # 0 /\ PairOf(j)' \in DOMAIN ranks
                                     /\ j = l \/ nodes'[j].next = l}
<1> USE DEF given
<1>1. /\ l \in 1..N /\ l \in Heads' /\ N' = N /\ Heads' \subseteq 1..N /\ N \in Nat
      /\ DOMAIN nodes' = 1..N
  BY PoppedPair, MergedHeads, MergedNodes, Length DEF N, MergeInv
<1>2. Linked'
  BY MergedLinked
<1>3. \A i, k : Candidate(nodes', i, k) =
          IF <<SliceOf(nodes', i), SliceOf(nodes', k)>> \in DOMAIN ranks
          THEN {[rank |-> ranks[<<SliceOf(nodes', i), SliceOf(nodes', k)>>], left |-> i, right |-> k,
                 lver |-> nodes'[i].ver, rver |-> nodes'[k].ver]}
          ELSE {}
  BY DEF Candidate
<1>4. \A i : /\ PairOf(i)' = <<SliceOf(nodes', i), SliceOf(nodes', nodes'[i].next)>>
             /\ Now(i)' = [rank |-> ranks[PairOf(i)'], left |-> i, right |-> nodes'[i].next,
                           lver |-> nodes'[i].ver, rver |-> nodes'[nodes'[i].next].ver]
  BY DEF PairOf, Now, SliceOf
<1>5. \A i : Candidate(nodes', i, nodes'[i].next) =
          IF PairOf(i)' \in DOMAIN ranks THEN {Now(i)'} ELSE {}
  BY <1>3, <1>4
<1>6. nodes'[l].prev # 0 => nodes'[l].prev \in Heads' /\ nodes'[nodes'[l].prev].next = l
  <2>1. l # 1 => nodes'[l].prev \in Heads'
    BY <1>1, <1>2 DEF Linked
  <2>2. nodes'[l].prev = 0 <=> l = 1
    BY <1>1, <1>2 DEF Linked
  <2>3. nodes'[l].prev # 0 => nodes'[nodes'[l].prev].next = l
    BY <1>1 DEF Heads, Live
  <2> QED
    BY <2>1, <2>2, <2>3
<1>7. \A j \in Heads' : nodes'[j].next = l => j = nodes'[l].prev /\ nodes'[l].prev # 0
  <2>1. SUFFICES ASSUME NEW j \in Heads', nodes'[j].next = l
                 PROVE  j = nodes'[l].prev /\ nodes'[l].prev # 0
    OBVIOUS
  <2>2. nodes'[j].next # 0 /\ j # 0
    BY <1>1, <2>1
  <2>3. nodes'[nodes'[j].next].prev = j
    BY <1>2, <2>2 DEF Linked
  <2> QED
    BY <2>1, <2>2, <2>3
<1> DEFINE before == IF nodes'[l].prev # 0 THEN Candidate(nodes', nodes'[l].prev, l) ELSE {}
           behind == IF nodes'[l].next # 0 THEN Candidate(nodes', l, nodes'[l].next) ELSE {}
<1>8. before = {Now(i)' : i \in {j \in Around : nodes'[j].next = l}}
  <2>1. CASE nodes'[l].prev = 0
    BY <1>7, <2>1
  <2>2. CASE nodes'[l].prev # 0
    <3>0. PICK p : p = nodes'[l].prev
      OBVIOUS
    <3>1. p \in Heads' /\ nodes'[p].next = l /\ nodes'[p].next # 0
      BY <1>1, <1>6, <2>2, <3>0
    <3>2. before = IF PairOf(p)' \in DOMAIN ranks THEN {Now(p)'} ELSE {}
      BY <1>5, <2>2, <3>0, <3>1
    <3>3. {j \in Around : nodes'[j].next = l} = IF PairOf(p)' \in DOMAIN ranks THEN {p} ELSE {}
      BY <1>7, <3>0, <3>1
    <3> HIDE DEF before, Around
    <3> QED
      BY <3>2, <3>3
  <2> QED
    BY <2>1, <2>2
<1>9. behind = {Now(i)' : i \in {j \in Around : j = l}}
  <2>1. {j \in Around : j = l} =
          IF nodes'[l].next # 0 /\ PairOf(l)' \in DOMAIN ranks THEN {l} ELSE {}
    BY <1>1
  <2>2. behind = IF nodes'[l].next # 0 /\ PairOf(l)' \in DOMAIN ranks THEN {Now(l)'} ELSE {}
    BY <1>5
  <2> HIDE DEF behind, Around
  <2> QED
    BY <2>1, <2>2
<1>10. Pushed(nodes', l) = before \cup behind
  BY DEF Pushed
<1>11. Around = {j \in Around : nodes'[j].next = l} \cup {j \in Around : j = l}
  OBVIOUS
<1>12. {Now(i)' : i \in Around} = before \cup behind
  <2> HIDE DEF Around, before, behind
  <2> QED
    BY <1>8, <1>9, <1>11
<1> QED
  BY <1>10, <1>12

LEMMA TwoPushed ==
    ASSUME NEW ns, NEW l
    PROVE  IsFiniteSet(Pushed(ns, l)) /\ Cardinality(Pushed(ns, l)) \in 0..2
<1> DEFINE before == IF ns[l].prev # 0 THEN Candidate(ns, ns[l].prev, l) ELSE {}
           behind == IF ns[l].next # 0 THEN Candidate(ns, l, ns[l].next) ELSE {}
<1>1. \A i, k : Candidate(ns, i, k) = {} \/ \E x : Candidate(ns, i, k) = {x}
  BY DEF Candidate
<1>2. before = {} \/ \E x : before = {x}
  BY <1>1
<1>3. behind = {} \/ \E x : behind = {x}
  BY <1>1
<1>4. Pushed(ns, l) = before \cup behind
  BY DEF Pushed
<1> HIDE DEF before, behind
<1>5. /\ IsFiniteSet(before) /\ Cardinality(before) \in 0..1
      /\ IsFiniteSet(behind) /\ Cardinality(behind) \in 0..1
  <2>1. IsFiniteSet({}) /\ Cardinality({}) \in 0..1
    BY FS_EmptySet
  <2>2. ASSUME NEW x PROVE IsFiniteSet({x}) /\ Cardinality({x}) \in 0..1
    <3>1. IsFiniteSet({x}) /\ Cardinality({x}) = 1
      BY FS_Singleton, Zenon
    <3> QED
      BY <3>1
  <2>3. IsFiniteSet(before) /\ Cardinality(before) \in 0..1
    BY <1>2, <2>1, <2>2
  <2>4. IsFiniteSet(behind) /\ Cardinality(behind) \in 0..1
    BY <1>3, <2>1, <2>2
  <2> QED
    BY <2>3, <2>4
<1>6. /\ IsFiniteSet(before \cup behind) /\ IsFiniteSet(before \cap behind)
      /\ Cardinality(before \cup behind) =
             Cardinality(before) + Cardinality(behind) - Cardinality(before \cap behind)
  BY <1>5, FS_Union, FS_Intersection
<1>7. Cardinality(before \cap behind) \in Nat /\ Cardinality(before \cup behind) \in Nat
  BY <1>6, FS_CardinalityType
<1> QED
  BY <1>4, <1>5, <1>6, <1>7

(* No candidate is pushed twice: one of its versions is new.  So the heap  *)
(* may be a set, and its cardinality is the length of the array.           *)
LEMMA PushedOnce ==
    ASSUME MergeInv, NEW c \in heap, Fresh(c), \A d \in heap : ~Less(d, c),
           nodes' = Merged(c), UNCHANGED given
    PROVE  Pushed(nodes', c.left) \cap heap = {}
<1> DEFINE l == c.left
<1>1. SUFFICES ASSUME NEW i \in Heads', i = l \/ nodes'[i].next = l, nodes'[i].next # 0,
                      Now(i)' \in heap
               PROVE  FALSE
  <2> DEFINE Around == {j \in Heads' : /\ nodes'[j].next # 0 /\ PairOf(j)' \in DOMAIN ranks
                                       /\ j = l \/ nodes'[j].next = l}
  <2>1. Pushed(nodes', l) = {Now(i)' : i \in Around}
    BY PushedPairs
  <2>2. \A i \in Around : i \in Heads' /\ nodes'[i].next # 0 /\ (i = l \/ nodes'[i].next = l)
    OBVIOUS
  <2> HIDE DEF Around
  <2> QED
    BY <1>1, <2>1, <2>2
<1>2. /\ Now(i)'.left = i /\ Now(i)'.right = nodes'[i].next
      /\ Now(i)'.lver = nodes'[i].ver /\ Now(i)'.rver = nodes'[nodes'[i].next].ver
  BY DEF Now
<1>3. l \in 1..N /\ nodes'[l].ver = nodes[l].ver + 1 /\ nodes[l].ver \in Nat
  BY PoppedPair, MergedNodes DEF MergeInv, MergeTypeOK
<1>4. Now(i)'.lver <= nodes[i].ver /\ Now(i)'.rver <= nodes[nodes'[i].next].ver
  BY <1>1, <1>2 DEF MergeInv, Honest
<1> QED
  BY <1>1, <1>2, <1>3, <1>4

(* One popped, at most two pushed, one node out of the list.               *)
LEMMA MergedCount ==
    ASSUME MergeInv, NEW c \in heap, Fresh(c), \A d \in heap : ~Less(d, c),
           nodes' = Merged(c), heap' = (heap \ {c}) \cup Pushed(Merged(c), c.left),
           UNCHANGED given
    PROVE  Counted'
<1> DEFINE pushed == Pushed(Merged(c), c.left)
<1>1. N \in Nat /\ N' = N
  BY Length DEF MergeInv, N, given
<1>2. IsFiniteSet(heap) /\ Cardinality(heap) + Cardinality(Heads) <= 2 * N - 1
  BY DEF MergeInv, Counted
<1>3. IsFiniteSet(heap \ {c}) /\ Cardinality(heap \ {c}) = Cardinality(heap) - 1
  BY <1>2, FS_RemoveElement
<1>4. IsFiniteSet(pushed) /\ Cardinality(pushed) \in 0..2
  BY TwoPushed
<1>5. heap' = (heap \ {c}) \cup pushed
  OBVIOUS
<1> HIDE DEF pushed
<1>6. /\ IsFiniteSet(heap')
      /\ Cardinality(heap') = Cardinality(heap \ {c}) + Cardinality(pushed)
                              - Cardinality((heap \ {c}) \cap pushed)
      /\ IsFiniteSet((heap \ {c}) \cap pushed)
  BY <1>3, <1>4, <1>5, FS_Union, FS_Intersection
<1>7. /\ Cardinality((heap \ {c}) \cap pushed) \in Nat /\ Cardinality(heap') \in Nat
      /\ Cardinality(heap) \in Nat
  BY <1>2, <1>6, FS_CardinalityType
<1>8. Heads' = Heads \ {c.right} /\ c.right \in Heads /\ Heads \subseteq 1..N
  BY MergedHeads, PoppedPair
<1>9. IsFiniteSet(Heads)
  <2>1. IsFiniteSet(1..N)
    BY <1>1, FS_Interval
  <2> QED
    BY <1>8, <2>1, FS_Subset
<1>10. Cardinality(Heads') = Cardinality(Heads) - 1 /\ Cardinality(Heads) \in Nat
  BY <1>8, <1>9, FS_RemoveElement, FS_CardinalityType
<1> QED
  BY <1>1, <1>2, <1>3, <1>4, <1>6, <1>7, <1>10 DEF Counted

LEMMA MergedHeap ==
    ASSUME MergeInv, NEW c \in heap, Fresh(c), \A d \in heap : ~Less(d, c),
           nodes' = Merged(c), heap' = (heap \ {c}) \cup Pushed(Merged(c), c.left),
           UNCHANGED given
    PROVE  MergeTypeOK' /\ Honest' /\ Seeded'
<1> DEFINE l == c.left  r == c.right  rn == nodes[c.right].next
           Around == {j \in Heads' : /\ nodes'[j].next # 0 /\ PairOf(j)' \in DOMAIN ranks
                                     /\ j = l \/ nodes'[j].next = l}
<1>1. /\ l \in 1..N /\ r \in 1..N /\ l < r /\ l \in Heads /\ r \in Heads
      /\ nodes[l].next = r /\ nodes[r].prev = l
  BY PoppedPair
<1>2. \A i \in 1..N :
          /\ nodes'[i].next = IF i = l THEN rn ELSE nodes[i].next
          /\ nodes'[i].ver = IF i \in {l, r} THEN nodes[i].ver + 1 ELSE nodes[i].ver
  BY MergedNodes
<1>3. /\ Heads' = Heads \ {r} /\ Heads \subseteq 1..N /\ N' = N /\ chars' = chars
      /\ ranks' = ranks
  BY MergedHeads DEF N, given
<1>4. \A i \in 1..N : nodes[i].next \in 0..N /\ nodes[i].ver \in Nat
  BY Length DEF MergeInv, MergeTypeOK
<1>5. heap' = (heap \ {c}) \cup {Now(i)' : i \in Around}
  BY PushedPairs
<1>6. nodes' \in [1..N -> [start : Nat, end : Nat, prev : 0..N, next : 0..N, ver : Nat]]
  BY MergedNodes
<1>7. \A i : Now(i)' = [rank |-> ranks[PairOf(i)'], left |-> i, right |-> nodes'[i].next,
                        lver |-> nodes'[i].ver, rver |-> nodes'[nodes'[i].next].ver]
  BY <1>3 DEF Now
<1>8. ASSUME NEW i \in Around
      PROVE  /\ i \in 1..N /\ nodes'[i].next \in 1..N /\ i \in Heads'
             /\ nodes'[i].ver \in Nat /\ nodes'[nodes'[i].next].ver \in Nat
             /\ PairOf(i)' \in DOMAIN ranks /\ ranks[PairOf(i)'] \in Nat
  <2>1. i \in 1..N /\ nodes'[i].next # 0 /\ PairOf(i)' \in DOMAIN ranks /\ i \in Heads'
    BY <1>3
  <2>2. nodes'[i].next \in 0..N
    BY <1>6, <2>1
  <2>3. N \in Nat
    BY Length DEF MergeInv
  <2>4. nodes'[i].next \in 1..N
    BY <2>1, <2>2, <2>3
  <2>5. \A k \in 1..N : nodes'[k].ver \in Nat
    BY <1>6
  <2> QED
    BY <2>1, <2>4, <2>5 DEF MergeInv, MergeTypeOK
<1>9. MergeTypeOK'
  <2> DEFINE Cand == [rank : Nat, left : 1..N, right : 1..N, lver : Nat, rver : Nat]
  <2>1. ASSUME NEW i \in Around PROVE Now(i)' \in Cand
    BY <1>7, <1>8
  <2>2. heap \subseteq Cand
    BY DEF MergeInv, MergeTypeOK
  <2> HIDE DEF Cand, Around
  <2>3. heap' \subseteq Cand
    BY <1>5, <2>1, <2>2
  <2> QED
    BY <1>3, <1>6, <2>3 DEF MergeInv, MergeTypeOK, Cand
<1>10. \A i \in 1..N : i # l /\ nodes[i].next # l /\ nodes[i].next # 0 =>
           nodes'[i].next = nodes[i].next /\ PairOf(i)' = PairOf(i)
  BY MergedPairs
<1>11. ASSUME NEW d \in heap'
       PROVE  /\ d.lver <= nodes'[d.left].ver /\ d.rver <= nodes'[d.right].ver
              /\ d.lver = nodes'[d.left].ver => d.left \in Heads' /\ nodes'[d.left].next = d.right
              /\ Fresh(d)' => PairOf(d.left)' \in DOMAIN ranks /\ d.rank = ranks[PairOf(d.left)']
  <2>1. CASE d \in heap
    <3>1. d.left \in 1..N /\ d.right \in 1..N /\ d.lver \in Nat /\ d.rver \in Nat
      BY <2>1 DEF MergeInv, MergeTypeOK
    <3>2. /\ d.lver <= nodes[d.left].ver /\ d.rver <= nodes[d.right].ver
          /\ d.lver = nodes[d.left].ver => d.left \in Heads /\ nodes[d.left].next = d.right
          /\ Fresh(d) => PairOf(d.left) \in DOMAIN ranks /\ d.rank = ranks[PairOf(d.left)]
      BY <2>1 DEF MergeInv, Honest
    <3>3. d.lver <= nodes'[d.left].ver /\ d.rver <= nodes'[d.right].ver
      BY <1>2, <1>4, <3>1, <3>2
    <3>4. ASSUME d.lver = nodes'[d.left].ver
          PROVE  /\ d.left \notin {l, r} /\ d.lver = nodes[d.left].ver
                 /\ d.left \in Heads' /\ nodes'[d.left].next = d.right
      <4>1. d.left \notin {l, r}
        BY <1>2, <1>4, <3>1, <3>2, <3>4
      <4> QED
        BY <1>2, <1>3, <3>1, <3>2, <3>4, <4>1
    <3>5. ASSUME Fresh(d)'
          PROVE  PairOf(d.left)' \in DOMAIN ranks /\ d.rank = ranks[PairOf(d.left)']
      <4>1. nodes'[d.left].ver = d.lver /\ nodes'[d.right].ver = d.rver
        BY <3>5 DEF Fresh
      <4>2. d.right \notin {l, r} /\ nodes[d.right].ver = d.rver
        BY <1>2, <1>4, <3>1, <3>2, <4>1
      <4>3. Fresh(d)
        BY <3>4, <4>1, <4>2 DEF Fresh
      <4>4. d.left # l /\ nodes[d.left].next = d.right /\ d.right # 0
        BY <3>1, <3>2, <3>4, <4>1
      <4> QED
        BY <1>10, <3>1, <3>2, <4>2, <4>3, <4>4
    <3> QED
      BY <3>3, <3>4, <3>5
  <2>2. CASE \E i \in Around : d = Now(i)'
    <3>1. PICK i \in Around : d = Now(i)'
      BY <2>2
    <3>2. /\ d.rank = ranks[PairOf(i)'] /\ d.left = i /\ d.right = nodes'[i].next
          /\ d.lver = nodes'[i].ver /\ d.rver = nodes'[nodes'[i].next].ver
      BY <1>7, <3>1
    <3> QED
      BY <1>8, <3>2
  <2> HIDE DEF Around
  <2> QED
    BY <1>5, <2>1, <2>2
<1>12. Honest'
  BY <1>3, <1>11 DEF Honest
<1>13. ASSUME NEW i \in Heads', nodes'[i].next # 0, PairOf(i)' \in DOMAIN ranks
       PROVE  Now(i)' \in heap'
  <2>1. CASE i = l \/ nodes'[i].next = l
    BY <1>5, <1>13, <2>1
  <2>2. CASE i # l /\ nodes'[i].next # l
    <3>1. i \in 1..N /\ i \in Heads /\ i # r
      BY <1>3
    <3>2. nodes'[i].next = nodes[i].next
      BY <1>2, <2>2, <3>1
    <3>3. PairOf(i)' = PairOf(i)
      BY <1>10, <1>13, <2>2, <3>1, <3>2
    <3>4. nodes[i].next \in Heads /\ nodes[nodes[i].next].prev = i
      BY <1>13, <3>1, <3>2 DEF MergeInv, Linked
    <3>5. nodes[i].next # r /\ nodes[i].next # l /\ nodes[i].next \in 1..N
      BY <1>1, <1>3, <2>2, <3>2, <3>4
    <3>6. nodes'[i].ver = nodes[i].ver /\ nodes'[nodes[i].next].ver = nodes[nodes[i].next].ver
      BY <1>2, <2>2, <3>1, <3>5
    <3>7. Now(i)' = Now(i)
      BY <1>7, <3>2, <3>3, <3>6 DEF Now
    <3>8. Now(i) \in heap
      BY <1>13, <3>1, <3>2, <3>3 DEF MergeInv, Seeded
    <3>9. Now(i) # c
      BY <2>2 DEF Now
    <3> HIDE DEF Around
    <3> QED
      BY <1>5, <3>7, <3>8, <3>9
  <2> QED
    BY <2>1, <2>2
<1>14. Seeded'
  BY <1>3, <1>13 DEF Seeded
<1> QED
  BY <1>9, <1>12, <1>14

(* A stale candidate is dropped, and was nobody's.                         *)
LEMMA StaleDropped ==
    ASSUME MergeInv, NEW c \in heap, ~Fresh(c), heap' = heap \ {c}, nodes' = nodes, UNCHANGED given
    PROVE  MergeInv' /\ Heads' = Heads
<1>1. Heads' = Heads /\ N' = N /\ ranks' = ranks /\ chars' = chars /\ input' = input
  BY DEF Heads, Live, N, given
<1>2. \A i : /\ EndOf(i)' = EndOf(i) /\ PairOf(i)' = PairOf(i) /\ Now(i)' = Now(i)
             /\ \A d : Fresh(d)' = Fresh(d)
  BY <1>1 DEF EndOf, PairOf, Now, Fresh, SliceOf
<1>3. heap' \subseteq heap
  OBVIOUS
<1>4. MergeTypeOK'
  BY <1>1, <1>3 DEF MergeInv, MergeTypeOK
<1>5. Linked' /\ Adjacent' /\ Spans'
  BY <1>1, <1>2 DEF MergeInv, Linked, Adjacent, Spans
<1>6. Honest'
  BY <1>1, <1>2, <1>3 DEF MergeInv, Honest
<1>7. Seeded'
  <2>1. SUFFICES ASSUME NEW i \in Heads, nodes[i].next # 0, PairOf(i) \in DOMAIN ranks
                 PROVE  Now(i) \in heap'
    BY <1>1, <1>2 DEF Seeded
  <2>2. Now(i) \in heap
    BY <2>1 DEF MergeInv, Seeded
  <2>3. Fresh(Now(i))
    BY DEF Fresh, Now
  <2> QED
    BY <2>2, <2>3
<1>8. Counted'
  <2>1. /\ IsFiniteSet(heap) /\ IsFiniteSet(heap') /\ Cardinality(heap') = Cardinality(heap) - 1
        /\ Cardinality(heap) + Cardinality(Heads) <= 2 * N - 1
    BY FS_RemoveElement DEF MergeInv, Counted
  <2>2. N \in Nat /\ Heads \subseteq 1..N
    BY Length DEF MergeInv, Heads
  <2>3. IsFiniteSet(1..N)
    BY <2>2, FS_Interval
  <2>4. Cardinality(heap) \in Nat /\ Cardinality(Heads) \in Nat
    BY <2>1, <2>2, <2>3, FS_CardinalityType, FS_Subset
  <2> QED
    BY <1>1, <2>1, <2>2, <2>4 DEF Counted
<1> QED
  BY <1>1, <1>4, <1>5, <1>6, <1>7, <1>8 DEF MergeInv

LEMMA StepKeepsInv ==
    ASSUME MergeInv, [MergeStep]_mergevars PROVE MergeInv'
<1>1. CASE UNCHANGED mergevars
  <2>1. /\ input' = input /\ chars' = chars /\ ranks' = ranks /\ nodes' = nodes /\ heap' = heap
        /\ N' = N /\ Heads' = Heads
    BY <1>1 DEF mergevars, N, Heads, Live
  <2>2. \A i : EndOf(i)' = EndOf(i) /\ PairOf(i)' = PairOf(i) /\ Now(i)' = Now(i)
    BY <2>1 DEF EndOf, PairOf, Now, SliceOf
  <2>3. \A d : Fresh(d)' = Fresh(d)
    BY <2>1 DEF Fresh
  <2>4. MergeTypeOK' /\ Linked' /\ Adjacent' /\ Spans'
    BY <2>1, <2>2 DEF MergeInv, MergeTypeOK, Linked, Adjacent, Spans
  <2>5. Honest' /\ Seeded' /\ Counted'
    BY <2>1, <2>2, <2>3 DEF MergeInv, Honest, Seeded, Counted
  <2> QED
    BY <2>4, <2>5 DEF MergeInv
<1>2. CASE MergeStep
  <2>1. PICK c \in heap :
            /\ \A d \in heap : ~Less(d, c)
            /\ IF Fresh(c)
               THEN nodes' = Merged(c) /\ heap' = (heap \ {c}) \cup Pushed(Merged(c), c.left)
               ELSE heap' = heap \ {c} /\ UNCHANGED nodes
    BY <1>2 DEF MergeStep, given
  <2>2. UNCHANGED given
    BY <1>2 DEF MergeStep
  <2>3. CASE Fresh(c)
    BY <2>1, <2>2, <2>3, MergedLinked, MergedHeap, MergedCount DEF MergeInv
  <2>4. CASE ~Fresh(c)
    BY <2>1, <2>2, <2>4, StaleDropped
  <2> QED
    BY <2>3, <2>4
<1> QED
  BY <1>1, <1>2

(* A merge is the join that the naive scan makes, and a stale candidate    *)
(* none.                                                                   *)
LEMMA StepIsJoin ==
    ASSUME MergeInv, [MergeStep]_mergevars PROVE [Naive!Join]_(Naive!vars)
<1>1. CASE UNCHANGED mergevars
  BY <1>1 DEF mergevars, Naive!vars, Heads, Live
<1>2. CASE MergeStep
  <2>1. PICK c \in heap :
            /\ \A d \in heap : ~Less(d, c)
            /\ IF Fresh(c)
               THEN nodes' = Merged(c) /\ heap' = (heap \ {c}) \cup Pushed(Merged(c), c.left)
               ELSE heap' = heap \ {c} /\ UNCHANGED nodes
    BY <1>2 DEF MergeStep, given
  <2>2. UNCHANGED given
    BY <1>2 DEF MergeStep
  <2>3. CASE ~Fresh(c)
    BY <2>1, <2>2, <2>3, StaleDropped DEF given, Naive!vars
  <2>4. CASE Fresh(c)
    <3>1. Heads' = Heads \ {c.right}
      BY <2>1, <2>2, <2>4, MergedHeads
    <3>2. /\ c.left \in Heads /\ c.right \in 1..N /\ nodes[c.left].next = c.right
          /\ PairOf(c.left) \in DOMAIN ranks
          /\ \A i \in Heads : nodes[i].next # 0 /\ PairOf(i) \in DOMAIN ranks =>
                  \/ ranks[PairOf(c.left)] < ranks[PairOf(i)]
                  \/ ranks[PairOf(c.left)] = ranks[PairOf(i)] /\ c.left <= i
      BY <2>1, <2>4, PoppedPair
    <3>3. nodes[c.left].next # 0
      BY <3>2, Length DEF MergeInv
    <3>4. Naive!Ranked = {h \in Heads : nodes[h].next # 0 /\ PairOf(h) \in DOMAIN ranks}
      BY RankedPairs DEF MergeInv
    <3>5. \A h \in Naive!Ranked : Naive!Pair(h) = PairOf(h)
      BY <3>4, PairOfHead DEF MergeInv
    <3>6. Naive!LastOf(c.left) + 1 = c.right
      BY <3>2, <3>3, PairOfHead DEF MergeInv
    <3>7. c.left \in Naive!Ranked
      BY <3>2, <3>3, <3>4
    <3>8. \A g \in Naive!Ranked :
              \/ ranks[Naive!Pair(c.left)] < ranks[Naive!Pair(g)]
              \/ ranks[Naive!Pair(c.left)] = ranks[Naive!Pair(g)] /\ c.left <= g
      BY <3>2, <3>4, <3>5, <3>7
    <3> QED
      BY <2>2, <3>1, <3>6, <3>7, <3>8 DEF Naive!Join, given
  <2> QED
    BY <2>3, <2>4
<1> QED
  BY <1>1, <1>2

-----------------------------------------------------------------------------
LEMMA Invariant == MergeSpec => []MergeInv
<1>1. MergeInit => MergeInv
  BY FirstInv
<1>2. MergeInv /\ [MergeStep]_mergevars => MergeInv'
  BY StepKeepsInv
<1> QED
  BY <1>1, <1>2, PTL DEF MergeSpec

(* bpe_merge implements the naive scan of the word.                        *)
THEOREM BpeImplementsScan == MergeSpec => Naive!Spec
<1>1. MergeInit => Naive!Init
  <2>1. SUFFICES ASSUME MergeInit PROVE Naive!Init
    OBVIOUS
  <2>2. Heads = 1..N /\ DOMAIN chars = 1..N
    BY <2>1, FirstType, Length
  <2> QED
    BY <2>2 DEF Naive!Init
<1>2. MergeInv /\ [MergeStep]_mergevars => [Naive!Join]_(Naive!vars)
  BY StepIsJoin
<1> QED
  BY <1>1, <1>2, Invariant, PTL DEF MergeSpec, Naive!Spec

(* bpe_merge: every merge is the next one of the naive scan, by the lowest *)
(* rank and then the leftmost, whatever stale candidates the heap holds,   *)
(* and the heap is not empty before that scan is done.                     *)
THEOREM BpeMergesAreNaive == MergeSpec => MergesAreNaive
<1> DEFINE Step == IF nodes = <<>> THEN Heads' = DOMAIN chars'
                   ELSE nodes' # <<>> => [Naive!Join]_(Naive!vars)
<1>1. MergeInv => NoneLeft
  BY RankedPairs DEF MergeInv, Seeded, NoneLeft
<1>2. ASSUME MergeInv, [MergeStep]_mergevars PROVE [Step]_<<nodes, heap>>
  <2>1. CASE nodes = <<>>
    <3>1. DOMAIN nodes = {}
      BY <2>1
    <3>2. N \in Nat /\ 1..N = {}
      BY <1>2, <3>1, Length DEF MergeInv
    <3>3. heap = {}
      BY <1>2, <3>2 DEF MergeInv, MergeTypeOK
    <3>4. UNCHANGED mergevars
      BY <1>2, <3>3 DEF MergeStep
    <3> QED
      BY <3>4 DEF mergevars
  <2>2. CASE nodes # <<>>
    BY <1>2, <2>2, StepIsJoin
  <2> QED
    BY <2>1, <2>2
<1>3. MergeInv /\ [MergeStep]_mergevars => [Step]_<<nodes, heap>>
  BY <1>2
<1> QED
  BY <1>1, <1>3, Invariant, PTL DEF MergeSpec, MergesAreNaive

(* bpe_push_cand: the claimed bound of the candidates holds.               *)
THEOREM BpeHeapFits == MergeSpec => []HeapFits
<1>1. ASSUME MergeInv PROVE HeapFits
  <2>1. SUFFICES ASSUME heap # {} PROVE Cardinality(heap) <= 3 * (N - 1)
    BY DEF HeapFits
  <2>2. /\ IsFiniteSet(heap) /\ Cardinality(heap) + Cardinality(Heads) <= 2 * N - 1
    BY <1>1, <2>1 DEF MergeInv, Counted
  <2>3. N \in Nat /\ Heads \subseteq 1..N /\ DOMAIN nodes = 1..N
    BY <1>1, Length DEF MergeInv, Heads
  <2>4. PICK c \in heap : TRUE
    BY <2>1
  <2>5. N >= 1
    BY <1>1, <2>3, <2>4 DEF MergeInv, MergeTypeOK
  <2>6. 1 \in Heads
    BY <1>1, <2>3, <2>5, HeadsLive DEF MergeInv
  <2>7. IsFiniteSet(1..N)
    BY <2>3, FS_Interval
  <2>8. IsFiniteSet(Heads)
    BY <2>3, <2>7, FS_Subset
  <2>9. Cardinality(heap) \in Nat /\ Cardinality(Heads) \in Nat /\ Cardinality(Heads) # 0
    BY <2>2, <2>6, <2>8, FS_CardinalityType, FS_EmptySet
  <2> QED
    BY <2>2, <2>3, <2>5, <2>9
<1> QED
  BY <1>1, Invariant, PTL

-----------------------------------------------------------------------------
(* Induction over bounded sets of numbers                                  *)

LEMMA Greatest ==
    ASSUME NEW b \in Nat, NEW C \in SUBSET (0..b), C # {}
    PROVE  \E i \in C : \A j \in C : j <= i
<1> DEFINE Above(i) == (i + 1)..b
           T == {Above(i) : i \in C}
           R == StrictSubsetOrdering(0..b)
<1>1. IsWellFoundedOn(R, FiniteSubsetsOf(0..b))
  BY FS_StrictSubsetOrderingWellFounded
<1>2. T \subseteq FiniteSubsetsOf(0..b) /\ T # {}
  <2>1. \A i \in C : i \in 0..b /\ Above(i) \in SUBSET (0..b) /\ IsFiniteSet(Above(i))
    BY FS_Interval
  <2> QED BY <2>1 DEF FiniteSubsetsOf
<1>3. PICK X \in T : \A Y \in T : ~(<<Y, X>> \in R)
  <2> HIDE DEF R, T
  <2> QED BY <1>1, <1>2, WFMin
<1>4. PICK i \in C : X = Above(i)
  OBVIOUS
<1>5. \A j \in C : j <= i
  <2> SUFFICES ASSUME NEW j \in C, j > i PROVE FALSE
    OBVIOUS
  <2>1. i \in 0..b /\ j \in 0..b
    OBVIOUS
  <2>2. Above(j) \subseteq Above(i) /\ j \in Above(i) /\ j \notin Above(j)
    BY <2>1
  <2>3. <<Above(j), X>> \in R
    BY <2>1, <2>2, <1>4 DEF StrictSubsetOrdering
  <2> QED BY <2>3, <1>3
<1> QED BY <1>5

LEMMA Smallest ==
    ASSUME NEW b \in Nat, NEW C \in SUBSET (0..b), C # {}
    PROVE  Min(C) \in C /\ \A j \in C : Min(C) <= j
<1> DEFINE D == {b - i : i \in C}
<1>1. D \in SUBSET (0..b) /\ D # {}
  <2>1. \A i \in C : b - i \in 0..b
    OBVIOUS
  <2> QED BY <2>1
<1>2. PICK d \in D : \A e \in D : e <= d
  <2> HIDE DEF D
  <2> QED BY <1>1, Greatest
<1>3. PICK i \in C : d = b - i
  BY <1>2
<1>4. ASSUME NEW j \in C PROVE i <= j
  <2>1. b - j \in D /\ i \in 0..b /\ j \in 0..b
    OBVIOUS
  <2>2. b - j <= b - i
    BY <1>2, <1>3, <2>1
  <2> QED BY <2>1, <2>2
<1>5. i \in C /\ \A j \in C : i <= j
  BY <1>4
<1> QED BY <1>5 DEF Min

(* Numbers that go on from each to the next are all of them.               *)
LEMMA UpTo ==
    ASSUME NEW len \in Nat, NEW T \in SUBSET (0..len), 0 \in T,
           \A i \in 0..(len - 1) : i \in T => i + 1 \in T
    PROVE  T = 0..len
<1> DEFINE C == {j \in T : 0..j \subseteq T}
<1>1. C \in SUBSET (0..len) /\ C # {}
  <2>1. 0..0 = {0}
    OBVIOUS
  <2>2. 0 \in C
    BY <2>1
  <2> QED BY <2>2
<1>2. PICK i \in C : \A j \in C : j <= i
  <2> HIDE DEF C
  <2> QED BY <1>1, Greatest
<1>3. CASE i = len
  BY <1>2, <1>3
<1>4. CASE i \in 0..(len - 1)
  <2>1. i + 1 \in T /\ 0..(i + 1) = 0..i \cup {i + 1}
    BY <1>4
  <2>2. i + 1 \in C
    BY <2>1
  <2> QED BY <1>2, <1>4, <2>2
<1> QED BY <1>2, <1>3, <1>4

-----------------------------------------------------------------------------
(* Loading                                                                 *)

Bounded(I) == \E n \in Nat : I \subseteq 1..n

(* str_u32_map_put: of the entries of a key the last counts.               *)
LEMMA LastEntry ==
    ASSUME NEW I, Bounded(I), NEW key, NEW value
    PROVE  /\ \A i \in I : key[i] \in DOMAIN MapOf(I, key, value)
           /\ \A k \in DOMAIN MapOf(I, key, value) :
                  \E i \in I : key[i] = k /\ MapOf(I, key, value)[k] = value[i]
<1>0. PICK n \in Nat : I \subseteq 1..n
  BY DEF Bounded
<1>1. DOMAIN MapOf(I, key, value) = {key[i] : i \in I}
  BY DEF MapOf
<1>2. ASSUME NEW k \in DOMAIN MapOf(I, key, value)
      PROVE  \E i \in I : key[i] = k /\ MapOf(I, key, value)[k] = value[i]
  <2> DEFINE S == {i \in I : key[i] = k}
  <2>1. PICK e \in I : key[e] = k
    BY <1>1
  <2>2. e \in S /\ \A i \in S : i \in 0..n
    BY <1>0, <2>1
  <2>3. PICK i \in S : \A j \in S : j <= i
    <3> HIDE DEF S
    <3>1. S \in SUBSET (0..n) /\ S # {}
      BY <2>2
    <3> QED BY <3>1, Greatest
  <2>4. LastOf(S) \in S
    <3> HIDE DEF S
    <3> QED BY <2>3 DEF LastOf
  <2>5. MapOf(I, key, value)[k] = value[LastOf(S)]
    BY <1>1 DEF MapOf
  <2> QED BY <2>4, <2>5
<1> QED BY <1>1, <1>2

(* What the proofs need to know of a file's contents.                      *)
Listed(f) ==
    /\ \E n \in Nat : DOMAIN f.vocab = 1..n
    /\ \E n \in Nat : DOMAIN f.added = 1..n

(* The maps of the vocabulary, entry by entry.                             *)
LEMMA BaseMaps ==
    ASSUME NEW f, Listed(f)
    PROVE  /\ \A i \in DOMAIN f.vocab : /\ f.vocab[i][1] \in DOMAIN BaseVocab(f)
                                        /\ f.vocab[i][2] \in DOMAIN BaseToken(f)
           /\ \A k \in DOMAIN BaseVocab(f) : \E i \in DOMAIN f.vocab :
                  f.vocab[i][1] = k /\ BaseVocab(f)[k] = f.vocab[i][2]
           /\ \A id \in DOMAIN BaseToken(f) : \E i \in DOMAIN f.vocab :
                  f.vocab[i][2] = id /\ BaseToken(f)[id] = f.vocab[i][1]
<1> DEFINE V == DOMAIN f.vocab
<1>1. Bounded(V)
  BY DEF Listed, Bounded
<1>2. \A i \in V : Keys(f)[i] = f.vocab[i][1] /\ Ids(f)[i] = f.vocab[i][2]
  BY DEF Keys, Ids
<1>3. BaseVocab(f) = MapOf(V, Keys(f), Ids(f)) /\ BaseToken(f) = MapOf(V, Ids(f), Keys(f))
  BY DEF BaseVocab, BaseToken
<1> HIDE DEF V
<1>4. /\ \A i \in V : Keys(f)[i] \in DOMAIN BaseVocab(f)
      /\ \A k \in DOMAIN BaseVocab(f) : \E i \in V : Keys(f)[i] = k /\ BaseVocab(f)[k] = Ids(f)[i]
  BY <1>1, <1>3, LastEntry
<1>5. /\ \A i \in V : Ids(f)[i] \in DOMAIN BaseToken(f)
      /\ \A k \in DOMAIN BaseToken(f) : \E i \in V : Ids(f)[i] = k /\ BaseToken(f)[k] = Keys(f)[i]
  BY <1>1, <1>3, LastEntry
<1>6. /\ \A i \in V : f.vocab[i][1] \in DOMAIN BaseVocab(f) /\ f.vocab[i][2] \in DOMAIN BaseToken(f)
      /\ \A k \in DOMAIN BaseVocab(f) : \E i \in V : f.vocab[i][1] = k /\ BaseVocab(f)[k] = f.vocab[i][2]
      /\ \A id \in DOMAIN BaseToken(f) : \E i \in V : f.vocab[i][2] = id /\ BaseToken(f)[id] = f.vocab[i][1]
  BY <1>2, <1>4, <1>5
<1> QED BY <1>6 DEF V

(* The maps that the added tokens have joined.                             *)
LEMMA AddedMaps ==
    ASSUME NEW f, Listed(f), AddedConsistent(f)
    PROVE  /\ \A i \in Added(f) :
                  /\ f.added[i].content \in DOMAIN SpecialTokens(f)
                  /\ SpecialTokens(f)[f.added[i].content] = f.added[i].id
                  /\ f.added[i].id \in DOMAIN IdToToken(f)
                  /\ IdToToken(f)[f.added[i].id] = f.added[i].content
                  /\ f.added[i].content \in DOMAIN Vocab(f)
                  /\ Vocab(f)[f.added[i].content] = f.added[i].id
           /\ \A k \in DOMAIN SpecialTokens(f) : \E i \in Added(f) : f.added[i].content = k
           /\ \A k \in DOMAIN BaseVocab(f) : k \in DOMAIN Vocab(f) /\ Vocab(f)[k] = BaseVocab(f)[k]
           /\ \A id \in DOMAIN BaseToken(f) :
                  id \in DOMAIN IdToToken(f) /\ IdToToken(f)[id] = BaseToken(f)[id]
           /\ \A k \in DOMAIN Vocab(f) :
                  k \in DOMAIN BaseVocab(f) \/ \E i \in Added(f) : f.added[i].content = k
           /\ \A id \in DOMAIN IdToToken(f) :
                  id \in DOMAIN BaseToken(f) \/ \E i \in Added(f) : f.added[i].id = id
<1> DEFINE A == Added(f)
           AddedToken == MapOf(A, AddedIds(f), AddedContents(f))
<1>1. Bounded(A)
  BY DEF Listed, Added, Bounded
<1>2. \A i \in A : AddedContents(f)[i] = f.added[i].content /\ AddedIds(f)[i] = f.added[i].id
  BY DEF AddedContents, AddedIds, Added
<1>3. \A i \in A : /\ f.added[i].content \in DOMAIN BaseVocab(f)
                          => BaseVocab(f)[f.added[i].content] = f.added[i].id
                   /\ f.added[i].id \in DOMAIN BaseToken(f)
                          => BaseToken(f)[f.added[i].id] = f.added[i].content
                   /\ \A j \in A : (f.added[j].id = f.added[i].id)
                                     <=> (f.added[j].content = f.added[i].content)
  BY DEF AddedConsistent
<1>4. SpecialTokens(f) = MapOf(A, AddedContents(f), AddedIds(f))
  BY DEF SpecialTokens
<1>5. /\ IdToToken(f) = Over(AddedToken, BaseToken(f))
      /\ Vocab(f) = Over(BaseVocab(f), SpecialTokens(f))
  BY DEF IdToToken, Vocab
<1> HIDE DEF A
<1>6. /\ \A i \in A : AddedContents(f)[i] \in DOMAIN SpecialTokens(f)
      /\ \A k \in DOMAIN SpecialTokens(f) :
             \E i \in A : AddedContents(f)[i] = k /\ SpecialTokens(f)[k] = AddedIds(f)[i]
  BY <1>1, <1>4, LastEntry
<1>7. /\ \A i \in A : AddedIds(f)[i] \in DOMAIN AddedToken
      /\ \A k \in DOMAIN AddedToken :
             \E i \in A : AddedIds(f)[i] = k /\ AddedToken[k] = AddedContents(f)[i]
  BY <1>1, LastEntry DEF AddedToken
<1> HIDE DEF AddedToken
<1>8. \A i \in A : /\ f.added[i].content \in DOMAIN SpecialTokens(f)
                   /\ SpecialTokens(f)[f.added[i].content] = f.added[i].id
                   /\ f.added[i].id \in DOMAIN AddedToken
                   /\ AddedToken[f.added[i].id] = f.added[i].content
  BY <1>2, <1>3, <1>6, <1>7
<1>9. /\ \A k \in DOMAIN SpecialTokens(f) : \E i \in A : f.added[i].content = k
      /\ \A id \in DOMAIN AddedToken : \E i \in A : f.added[i].id = id
  BY <1>2, <1>6, <1>7
<1>10. /\ DOMAIN IdToToken(f) = DOMAIN AddedToken \cup DOMAIN BaseToken(f)
       /\ \A id \in DOMAIN AddedToken : IdToToken(f)[id] = AddedToken[id]
       /\ \A id \in DOMAIN BaseToken(f) : id \notin DOMAIN AddedToken => IdToToken(f)[id] = BaseToken(f)[id]
  BY <1>5 DEF Over
<1>11. /\ DOMAIN Vocab(f) = DOMAIN BaseVocab(f) \cup DOMAIN SpecialTokens(f)
       /\ \A k \in DOMAIN BaseVocab(f) : Vocab(f)[k] = BaseVocab(f)[k]
       /\ \A k \in DOMAIN SpecialTokens(f) : k \notin DOMAIN BaseVocab(f) => Vocab(f)[k] = SpecialTokens(f)[k]
  BY <1>5 DEF Over
<1>12. \A i \in A : /\ f.added[i].id \in DOMAIN IdToToken(f)
                    /\ IdToToken(f)[f.added[i].id] = f.added[i].content
                    /\ f.added[i].content \in DOMAIN Vocab(f)
                    /\ Vocab(f)[f.added[i].content] = f.added[i].id
  BY <1>3, <1>8, <1>10, <1>11
<1>13. \A id \in DOMAIN BaseToken(f) :
           id \in DOMAIN IdToToken(f) /\ IdToToken(f)[id] = BaseToken(f)[id]
  BY <1>3, <1>8, <1>9, <1>10
<1> QED BY <1>8, <1>9, <1>10, <1>11, <1>12, <1>13 DEF A

(* Whatever name is resolved, its id can be decoded.                       *)
LEMMA ResolvedIds ==
    ASSUME NEW f, Listed(f), AddedConsistent(f)
    PROVE  /\ \A name : Resolve(f, name) \in DOMAIN IdToToken(f) \cup {-1}
           /\ \A names : FirstOf(f, names) \in DOMAIN IdToToken(f) \cup {-1}
           /\ UnkId(f) \in DOMAIN IdToToken(f) \cup {-1}
           /\ \A k \in DOMAIN Vocab(f) : Vocab(f)[k] \in DOMAIN IdToToken(f)
<1>1. \A k \in DOMAIN BaseVocab(f) : BaseVocab(f)[k] \in DOMAIN IdToToken(f)
  BY BaseMaps, AddedMaps
<1>2. \A k \in DOMAIN SpecialTokens(f) : SpecialTokens(f)[k] \in DOMAIN IdToToken(f)
  BY AddedMaps
<1>3. \A k \in DOMAIN Vocab(f) : Vocab(f)[k] \in DOMAIN IdToToken(f)
  BY <1>1, <1>2, AddedMaps
<1>4. \A name : Resolve(f, name) \in DOMAIN IdToToken(f) \cup {-1}
  BY <1>2, <1>3 DEF Resolve
<1>5. \A names : FirstOf(f, names) \in DOMAIN IdToToken(f) \cup {-1}
  BY <1>4 DEF FirstOf
<1>6. UnkId(f) \in DOMAIN IdToToken(f) \cup {-1}
  BY <1>1, <1>3 DEF UnkId
<1> QED BY <1>3, <1>4, <1>5, <1>6

(* A vocabulary without doubles: the two directions agree.                 *)
LEMMA BothDirections ==
    ASSUME NEW f, Listed(f), AddedConsistent(f),
           \A i, j \in DOMAIN f.vocab :
               i # j => f.vocab[i][1] # f.vocab[j][1] /\ f.vocab[i][2] # f.vocab[j][2]
    PROVE  /\ \A k \in DOMAIN Vocab(f) : IdToToken(f)[Vocab(f)[k]] = k
           /\ \A id \in DOMAIN IdToToken(f) : Vocab(f)[IdToToken(f)[id]] = id
<1>1. \A k \in DOMAIN BaseVocab(f) :
          BaseVocab(f)[k] \in DOMAIN BaseToken(f) /\ BaseToken(f)[BaseVocab(f)[k]] = k
  BY BaseMaps
<1>2. \A id \in DOMAIN BaseToken(f) :
          BaseToken(f)[id] \in DOMAIN BaseVocab(f) /\ BaseVocab(f)[BaseToken(f)[id]] = id
  BY BaseMaps
<1>3. ASSUME NEW k \in DOMAIN Vocab(f) PROVE IdToToken(f)[Vocab(f)[k]] = k
  BY <1>1, AddedMaps
<1>4. ASSUME NEW id \in DOMAIN IdToToken(f) PROVE Vocab(f)[IdToToken(f)[id]] = id
  BY <1>2, AddedMaps
<1> QED BY <1>3, <1>4

LEMMA FileListed == ASSUME NEW d \in Directory PROVE Listed(FileOf(d))
<1>1. CASE d.tokenizer_json = "there"
  <2>1. d.json \in Json
    BY DEF Directory
  <2> DEFINE Entry == Text \X Int
             Member == [content : Text, id : Int, special : BOOLEAN]
  <2>2. d.json.vocab \in Seq(Entry) /\ d.json.added \in Seq(Member)
    BY <2>1 DEF Json
  <2> HIDE DEF Entry, Member
  <2>3. FileOf(d) = d.json
    BY <1>1 DEF FileOf
  <2> QED BY <2>2, <2>3 DEF Listed
<1>2. CASE d.tokenizer_json # "there"
  <2> DEFINE Entry == Text \X Int
             names == BosNames \o EosNames \o ExtraNames
             known == {i \in DOMAIN names : Entries(d, names[i]) # {}}
  <2>1. d.vocab \in Seq(Entry)
    BY DEF Directory
  <2>2. FileOf(d) = Legacy(d)
    BY <1>2 DEF FileOf
  <2>3. FileOf(d).vocab = d.vocab
    BY <2>2 DEF Legacy
  <2>4. DOMAIN FileOf(d).added = 1..Cardinality(known)
    <3>1. DOMAIN FileOf(d).added = DOMAIN Named(d)
      BY <2>2 DEF Legacy
    <3>2. Named(d) = Kept(names, known)
      BY DEF Named
    <3> HIDE DEF names, known
    <3>3. DOMAIN Kept(names, known) = 1..Cardinality(known)
      BY DEF Kept
    <3> QED BY <3>1, <3>2, <3>3
  <2>5. Cardinality(known) \in Nat
    <3> HIDE DEF Entry
    <3>1. names \in Seq(Text)
      <4> HIDE DEF names
      <4>1. BosNames \in Seq(Text) /\ EosNames \in Seq(Text) /\ ExtraNames \in Seq(Text)
        BY NamesAssumption
      <4>2. BosNames \o EosNames \in Seq(Text)
        BY <4>1
      <4> QED BY <4>1, <4>2 DEF names
    <3>2. Len(names) \in Nat /\ DOMAIN names = 1..Len(names)
      <4> HIDE DEF names
      <4> QED BY <3>1
    <3>3. known \subseteq 1..Len(names)
      BY <3>2
    <3>4. IsFiniteSet(1..Len(names))
      BY <3>2, FS_Interval
    <3> HIDE DEF known, names
    <3>5. IsFiniteSet(known)
      BY <3>3, <3>4, FS_Subset
    <3> QED BY <3>5, FS_CardinalityType
  <2> HIDE DEF known, Entry
  <2>6. \E n \in Nat : DOMAIN d.vocab = 1..n
    BY <2>1
  <2> QED BY <2>3, <2>4, <2>5, <2>6 DEF Listed
<1> QED BY <1>1, <1>2

-----------------------------------------------------------------------------
(* A tokenizer is what its directory gives, for good.                      *)
Loaded ==
    /\ dir \in Directory
    /\ tok = None \/ (LoadsDir(dir) /\ tok = LoadDir(dir))

LEMMA LoadedInv == Spec => []Loaded
<1>1. Init => Loaded
  BY InputsAssumption DEF Init, Loaded
<1>2. ASSUME Loaded, [Next]_vars PROVE Loaded'
  <2>1. CASE Load
    <3>1. CASE LoadsDir(dir)
      BY <1>2, <2>1, <3>1 DEF Loaded, Load
    <3>2. CASE ~LoadsDir(dir)
      BY <1>2, <2>1, <3>2 DEF Loaded, Load
    <3> QED BY <3>1, <3>2
  <2>2. CASE UNCHANGED <<dir, tok>>
    BY <1>2, <2>2 DEF Loaded
  <2>3. ~Load => UNCHANGED <<dir, tok>>
    BY <1>2 DEF Next, vars, EncodeWhole, Scan, EmitSpecial, SplitWord, Merge, EmitWord, Encoded, Feed,
                Flush, DecodeWhole
  <2> QED BY <2>1, <2>2, <2>3
<1>3. Loaded /\ [Next]_vars => Loaded'
  BY <1>2
<1> QED BY <1>1, <1>3, PTL DEF Spec

(* tokenizer_load_json and tokenizer_load_dir: whatever the directory      *)
(* holds, the ids that were resolved can be decoded, a special token's     *)
(* back to itself, and where the vocabulary has no doubles, encoding and   *)
(* decoding agree.                                                         *)
THEOREM LoadIsConsistent == Spec => []LoadConsistent
<1>1. ASSUME Loaded PROVE LoadConsistent
  <2> SUFFICES ASSUME tok # None PROVE LoadConsistent
    BY DEF LoadConsistent
  <2> DEFINE f == FileOf(dir)
  <2>1. LoadsDir(dir) /\ tok = LoadDir(dir)
    BY <1>1 DEF Loaded
  <2>2. Listed(f) /\ AddedConsistent(f)
    BY <1>1, <2>1, FileListed DEF Loaded, LoadsDir, Accepted
  <2>3. /\ tok.vocab = Vocab(f) /\ tok.special_tokens = SpecialTokens(f)
        /\ tok.id_to_token = IdToToken(f) /\ tok.unk_id = UnkId(f)
        /\ tok.bos_id = Override(f, dir.bos, BosId(f)) /\ tok.eos_id = Override(f, dir.eos, EosId(f))
    BY <2>1 DEF LoadDir, LoadJson
  <2> HIDE DEF f
  <2>4. \A k \in DOMAIN SpecialTokens(f) :
            /\ IdToToken(f)[SpecialTokens(f)[k]] = k
            /\ Vocab(f)[k] = SpecialTokens(f)[k]
    BY <2>2, AddedMaps
  <2>5. /\ Override(f, dir.bos, BosId(f)) \in DOMAIN IdToToken(f) \cup {-1}
        /\ Override(f, dir.eos, EosId(f)) \in DOMAIN IdToToken(f) \cup {-1}
    BY <2>2, ResolvedIds DEF Override, BosId, EosId
  <2>6. UnkId(f) \in DOMAIN IdToToken(f) \cup {-1}
    BY <2>2, ResolvedIds
  <2>7. \A k \in DOMAIN Vocab(f) : Vocab(f)[k] \in DOMAIN IdToToken(f)
    BY <2>2, ResolvedIds
  <2>8. (\A i, j \in DOMAIN f.vocab :
            i # j => f.vocab[i][1] # f.vocab[j][1] /\ f.vocab[i][2] # f.vocab[j][2])
        => /\ \A k \in DOMAIN Vocab(f) : IdToToken(f)[Vocab(f)[k]] = k
           /\ \A id \in DOMAIN IdToToken(f) : Vocab(f)[IdToToken(f)[id]] = id
    BY <2>2, BothDirections
  <2> QED BY <2>3, <2>4, <2>5, <2>6, <2>7, <2>8 DEF LoadConsistent, f
<1> QED BY <1>1, LoadedInv, PTL

-----------------------------------------------------------------------------
(* Loops over a text                                                       *)

Forward(n, next) == \A i \in 1..n : next[i] \in (i + 1)..(n + 1)

(* s has the items of the positions at[1] = i, at[2], ... up to n.         *)
Walks(s, i, n, item, next) ==
    \E m \in Nat : \E at \in [1..(m + 1) -> 1..(n + 1)] :
        /\ m <= n + 1 - i /\ at[1] = i /\ at[m + 1] = n + 1
        /\ \A k \in 1..m : at[k] <= n /\ at[k + 1] = next[at[k]]
        /\ s = [k \in 1..m |-> item[at[k]]]

(* What Chain computes from position low on.                               *)
IsFrom(g, low, n, item, next) ==
    g = [i \in low..(n + 1) |-> IF i > n THEN <<>> ELSE <<item[i]>> \o g[next[i]]]

LEMMA FromExists ==
    ASSUME NEW n, n \in Nat, NEW item, NEW next, Forward(n, next)
    PROVE  \E g : IsFrom(g, 1, n, item, next)
<1> DEFINE T == {k \in 0..n : \E g : IsFrom(g, n + 1 - k, n, item, next)}
<1>1. 0 \in T
  <2> DEFINE g == [i \in (n + 1)..(n + 1) |-> <<>>]
  <2>1. n + 1 - 0 = n + 1 /\ \A i \in (n + 1)..(n + 1) : i > n
    OBVIOUS
  <2>2. g = [i \in (n + 1)..(n + 1) |-> IF i > n THEN <<>> ELSE <<item[i]>> \o g[next[i]]]
    BY <2>1
  <2>3. IsFrom(g, n + 1 - 0, n, item, next)
    BY <2>1, <2>2 DEF IsFrom
  <2> QED BY <2>3
<1>2. ASSUME NEW k \in 0..(n - 1), k \in T PROVE k + 1 \in T
  <2> DEFINE low == n + 1 - k
  <2>1. PICK g : IsFrom(g, low, n, item, next)
    BY <1>2
  <2>2. /\ low \in 2..(n + 1) /\ n + 1 - (k + 1) = low - 1 /\ low - 1 \in 1..n
    BY <1>2
  <2> HIDE DEF low
  <2> DEFINE h == [i \in (low - 1)..(n + 1) |->
                     IF i = low - 1 THEN <<item[low - 1]>> \o g[next[low - 1]] ELSE g[i]]
  <2>3. \A i \in low..(n + 1) : g[i] = IF i > n THEN <<>> ELSE <<item[i]>> \o g[next[i]]
    BY <2>1 DEF IsFrom
  <2>4. ASSUME NEW i \in (low - 1)..(n + 1)
        PROVE  h[i] = IF i > n THEN <<>> ELSE <<item[i]>> \o h[next[i]]
    <3>1. i <= n => next[i] \in (i + 1)..(n + 1) /\ next[i] \in low..(n + 1)
      BY <2>2 DEF Forward
    <3>2. \A j \in low..(n + 1) : h[j] = g[j]
      BY <2>2
    <3>3. CASE i = low - 1
      <4>1. h[i] = <<item[i]>> \o g[next[i]] /\ i <= n
        BY <2>2, <3>3
      <4> HIDE DEF h
      <4>2. next[i] \in low..(n + 1) /\ ~(i > n)
        <5>1. next[i] \in low..(n + 1)
          BY <3>1, <4>1
        <5>2. i \in Int /\ ~(i > n)
          BY <2>2, <3>3
        <5> QED BY <5>1, <5>2
      <4>3. h[next[i]] = g[next[i]]
        BY <3>2, <4>2
      <4>4. h[i] = <<item[i]>> \o h[next[i]]
        BY <4>1, <4>3
      <4> QED BY <4>2, <4>4
    <3>4. CASE i # low - 1
      <4>1. i \in low..(n + 1)
        BY <2>2, <3>4
      <4> HIDE DEF h
      <4>2. h[i] = IF i > n THEN <<>> ELSE <<item[i]>> \o g[next[i]]
        BY <2>3, <3>2, <4>1
      <4>3. i \in Int /\ n \in Int /\ (~(i > n) => i <= n)
        BY <2>2, <4>1
      <4>4. ~(i > n) => h[next[i]] = g[next[i]]
        BY <3>1, <3>2, <4>3
      <4> QED BY <4>2, <4>4
    <3> QED BY <3>3, <3>4
  <2>5. h = [i \in (low - 1)..(n + 1) |-> h[i]]
    OBVIOUS
  <2> HIDE DEF h
  <2>6. h = [i \in (low - 1)..(n + 1) |-> IF i > n THEN <<>> ELSE <<item[i]>> \o h[next[i]]]
    BY <2>4, <2>5
  <2>7. IsFrom(h, low - 1, n, item, next)
    BY <2>6 DEF IsFrom
  <2>8. IsFrom(h, n + 1 - (k + 1), n, item, next)
    BY <2>2, <2>7
  <2>9. k + 1 \in 0..n
    BY <1>2
  <2> QED BY <2>8, <2>9
<1>3. n \in T
  <2>1. T \in SUBSET (0..n)
    OBVIOUS
  <2> HIDE DEF T
  <2> QED BY <1>1, <1>2, <2>1, UpTo
<1> QED BY <1>3

(* One item before a walk is a walk.                                       *)
LEMMA WalksBefore ==
    ASSUME NEW n, n \in Nat, NEW item, NEW next, Forward(n, next), NEW i \in 1..n, NEW s,
           Walks(s, next[i], n, item, next)
    PROVE  Walks(<<item[i]>> \o s, i, n, item, next)
<1>0. PICK m \in Nat : \E at \in [1..(m + 1) -> 1..(n + 1)] :
          /\ m <= n + 1 - next[i] /\ at[1] = next[i] /\ at[m + 1] = n + 1
          /\ \A k \in 1..m : at[k] <= n /\ at[k + 1] = next[at[k]]
          /\ s = [k \in 1..m |-> item[at[k]]]
  BY DEF Walks
<1>1. PICK at \in [1..(m + 1) -> 1..(n + 1)] :
          /\ m <= n + 1 - next[i] /\ at[1] = next[i] /\ at[m + 1] = n + 1
          /\ \A k \in 1..m : at[k] <= n /\ at[k + 1] = next[at[k]]
          /\ s = [k \in 1..m |-> item[at[k]]]
  BY <1>0
<1> DEFINE new == [k \in 1..(m + 2) |-> IF k = 1 THEN i ELSE at[k - 1]]
           S == {item[k] : k \in 1..(n + 1)}
<1>2. new \in [1..((m + 1) + 1) -> 1..(n + 1)]
  <2>1. (m + 1) + 1 = m + 2 /\ \A k \in 1..(m + 2) : k # 1 => k - 1 \in 1..(m + 1)
    BY <1>1
  <2> QED BY <2>1
<1>3. new[1] = i /\ \A k \in 1..(m + 1) : new[k + 1] = at[k]
  <2>1. \A k \in 1..(m + 1) : k + 1 \in 1..(m + 2) /\ k + 1 # 1 /\ (k + 1) - 1 = k
    BY <1>1
  <2> QED BY <1>1, <2>1
<1> HIDE DEF new
<1>4. new[(m + 1) + 1] = n + 1
  BY <1>1, <1>3
<1>5. ASSUME NEW k \in 1..(m + 1) PROVE new[k] <= n /\ new[k + 1] = next[new[k]]
  <2>1. CASE k = 1
    BY <1>1, <1>3, <2>1
  <2>2. CASE k # 1
    <3>1. k - 1 \in 1..m /\ (k - 1) + 1 = k /\ k - 1 \in 1..(m + 1)
      BY <1>1, <2>2
    <3>2. new[k] = at[k - 1] /\ new[k + 1] = at[k]
      BY <1>3, <3>1
    <3> QED BY <1>1, <3>1, <3>2
  <2> QED BY <2>1, <2>2
<1>6. \A k \in 1..(m + 1) : at[k] \in 1..(n + 1) /\ item[at[k]] \in S
  BY <1>1
<1>7. item[i] \in S
  OBVIOUS
<1> HIDE DEF S
<1>8. s \in Seq(S) /\ Len(s) = m /\ \A k \in 1..m : s[k] = item[at[k]]
  BY <1>1, <1>6
<1> DEFINE t == <<item[i]>> \o s
<1>9. t \in Seq(S) /\ Len(t) = m + 1 /\ t[1] = item[i] /\ \A k \in 1..m : t[k + 1] = s[k]
  BY <1>7, <1>8
<1> HIDE DEF t
<1>10. t = [k \in 1..(m + 1) |-> t[k]]
  BY <1>9
<1>11. ASSUME NEW k \in 1..(m + 1) PROVE t[k] = item[new[k]]
  <2>1. CASE k = 1
    BY <1>3, <1>9, <2>1
  <2>2. CASE k # 1
    <3>1. k - 1 \in 1..m /\ (k - 1) + 1 = k /\ k - 1 \in 1..(m + 1)
      BY <1>1, <2>2
    <3>2. t[k] = s[k - 1] /\ new[k] = at[k - 1]
      BY <1>3, <1>9, <3>1
    <3> QED BY <1>8, <3>1, <3>2
  <2> QED BY <2>1, <2>2
<1>12. t = [k \in 1..(m + 1) |-> item[new[k]]]
  BY <1>10, <1>11
<1>13. m + 1 \in Nat /\ m + 1 <= n + 1 - i
  <2>1. next[i] \in (i + 1)..(n + 1)
    BY DEF Forward
  <2> QED BY <1>1, <2>1
<1> QED BY <1>2, <1>3, <1>4, <1>5, <1>12, <1>13 DEF Walks, t

LEMMA ChainWalks ==
    ASSUME NEW n, n \in Nat, NEW item, NEW next, Forward(n, next)
    PROVE  Walks(Chain(n, item, next), 1, n, item, next)
<1> DEFINE from == CHOOSE g : IsFrom(g, 1, n, item, next)
           T == {k \in 0..n : \A j \in 0..k : Walks(from[n + 1 - j], n + 1 - j, n, item, next)}
<1>1. IsFrom(from, 1, n, item, next)
  BY FromExists
<1>2. Chain(n, item, next) = from[1]
  BY DEF Chain, IsFrom
<1> HIDE DEF from
<1>3. from[n + 1] = <<>> /\ \A i \in 1..n : from[i] = <<item[i]>> \o from[next[i]]
  <2>1. \A i \in 1..(n + 1) : from[i] = IF i > n THEN <<>> ELSE <<item[i]>> \o from[next[i]]
    BY <1>1 DEF IsFrom
  <2>2. n + 1 \in 1..(n + 1) /\ n + 1 > n /\ \A i \in 1..n : i \in 1..(n + 1) /\ ~(i > n)
    OBVIOUS
  <2> QED BY <2>1, <2>2
<1>4. 0 \in T
  <2>1. from[n + 1] = <<>>
    BY <1>3
  <2> DEFINE at == [k \in 1..(0 + 1) |-> n + 1]
  <2>2. /\ at \in [1..(0 + 1) -> 1..(n + 1)] /\ at[1] = n + 1 /\ at[0 + 1] = n + 1
        /\ 0 \in Nat /\ 0 <= n + 1 - (n + 1)
        /\ \A k \in 1..0 : at[k] <= n /\ at[k + 1] = next[at[k]]
        /\ from[n + 1] = [k \in 1..0 |-> item[at[k]]]
    BY <2>1
  <2> HIDE DEF at
  <2>3. Walks(from[n + 1], n + 1, n, item, next)
    BY <2>2 DEF Walks
  <2>4. n + 1 - 0 = n + 1 /\ \A j \in 0..0 : j = 0
    OBVIOUS
  <2> QED BY <2>3, <2>4
<1>5. ASSUME NEW k \in 0..(n - 1), k \in T PROVE k + 1 \in T
  <2> DEFINE i == n + 1 - (k + 1)
  <2>1. i \in 1..n /\ next[i] \in (i + 1)..(n + 1)
    BY DEF Forward
  <2>2. n + 1 - next[i] \in 0..k /\ n + 1 - (n + 1 - next[i]) = next[i]
    BY <2>1
  <2>3. Walks(from[next[i]], next[i], n, item, next)
    <3> HIDE DEF i
    <3>1. \A j \in 0..k : Walks(from[n + 1 - j], n + 1 - j, n, item, next)
      BY <1>5
    <3> QED BY <2>2, <3>1
  <2>4. from[i] = <<item[i]>> \o from[next[i]]
    BY <1>3, <2>1
  <2> HIDE DEF i
  <2>5. Walks(from[i], i, n, item, next)
    BY <2>1, <2>3, <2>4, WalksBefore
  <2>6. \A j \in 0..(k + 1) : j \in 0..k \/ j = k + 1
    BY <1>5
  <2>7. \A j \in 0..(k + 1) : Walks(from[n + 1 - j], n + 1 - j, n, item, next)
    BY <1>5, <2>5, <2>6 DEF i
  <2> QED BY <2>7
<1>6. n \in T
  <2>1. T \in SUBSET (0..n)
    OBVIOUS
  <2> HIDE DEF T
  <2> QED BY <1>4, <1>5, <2>1, UpTo
<1>7. Walks(from[n + 1 - n], n + 1 - n, n, item, next)
  BY <1>6
<1> QED BY <1>2, <1>7

(* A loop that comes to an end, with the number of its rounds.             *)
LEMMA ChainItems ==
    ASSUME NEW n, n \in Nat, NEW item, NEW next, Forward(n, next)
    PROVE  \E at :
               LET c == Chain(n, item, next)
                   m == Len(c)
               IN  /\ m \in 0..n /\ c = [k \in 1..m |-> c[k]]
                   /\ at[1] = 1 /\ at[m + 1] = n + 1
                   /\ \A k \in 1..m : /\ at[k] \in 1..n /\ at[k + 1] = next[at[k]]
                                      /\ c[k] = item[at[k]]
<1> DEFINE c == Chain(n, item, next)
<1>1. Walks(c, 1, n, item, next)
  BY ChainWalks
<1> HIDE DEF c
<1>2. PICK m \in Nat : \E at \in [1..(m + 1) -> 1..(n + 1)] :
          /\ m <= n + 1 - 1 /\ at[1] = 1 /\ at[m + 1] = n + 1
          /\ \A k \in 1..m : at[k] <= n /\ at[k + 1] = next[at[k]]
          /\ c = [k \in 1..m |-> item[at[k]]]
  BY <1>1 DEF Walks
<1>3. PICK at \in [1..(m + 1) -> 1..(n + 1)] :
          /\ m <= n + 1 - 1 /\ at[1] = 1 /\ at[m + 1] = n + 1
          /\ \A k \in 1..m : at[k] <= n /\ at[k + 1] = next[at[k]]
          /\ c = [k \in 1..m |-> item[at[k]]]
  BY <1>2
<1>4. Len(c) = m /\ m \in 0..n
  BY <1>3
<1>5. \A k \in 1..m : at[k] \in 1..n /\ at[k + 1] = next[at[k]] /\ c[k] = item[at[k]]
  BY <1>3
<1>6. c = [k \in 1..m |-> c[k]]
  BY <1>3
<1> QED BY <1>3, <1>4, <1>5, <1>6 DEF c

LEMMA TextBytes ==
    ASSUME NEW t \in Text
    PROVE  Len(t) \in Nat /\ DOMAIN t = 1..Len(t) /\ \A k \in 1..Len(t) : t[k] \in 0..255 /\ t[k] \in Nat
<1>1. t \in Seq(Byte)
  BY DEF Text
<1>2. Len(t) \in Nat /\ DOMAIN t = 1..Len(t) /\ \A k \in 1..Len(t) : t[k] \in Byte
  BY <1>1
<1>3. \A b \in Byte : b \in 0..255 /\ b \in Nat
  BY DEF Byte
<1> QED BY <1>2, <1>3

(* A decoded character is one to four bytes of the text, or U+FFFD.        *)
LEMMA DecodedLength ==
    ASSUME NEW t \in Text, NEW i \in 1..Len(t)
    PROVE  /\ DecodeCodepoint(t, i).len \in 1..4
           /\ i + DecodeCodepoint(t, i).len \in (i + 1)..(Len(t) + 1)
           /\ DecodeCodepoint(t, i).cp \in Nat
<1> DEFINE n == Lead(t[i])
           bits(k) == t[i + k] % 64
           cp == CASE n = 1 -> t[i]
                   [] n = 2 -> (t[i] % 32) * 64 + bits(1)
                   [] n = 3 -> ((t[i] % 16) * 64 + bits(1)) * 64 + bits(2)
                   [] n = 4 -> (((t[i] % 8) * 64 + bits(1)) * 64 + bits(2)) * 64 + bits(3)
           least == <<0, 128, 2048, 65536>>
           bad == \/ n = 0 \/ i + n - 1 > Len(t)
                  \/ \E k \in 1..(n - 1) : ~Continuation(t[i + k])
                  \/ cp < least[n] \/ cp \in 55296..57343 \/ cp > 1114111
           c == DecodeCodepoint(t, i)
<1>1. Len(t) \in Nat /\ \A k \in 1..Len(t) : t[k] \in Nat
  BY TextBytes
<1>2. t[i] \in Nat /\ n \in 0..4
  <2>1. t[i] \in Nat
    BY <1>1
  <2>2. \A b : Lead(b) \in 0..4
    BY DEF Lead
  <2> QED BY <2>1, <2>2
<1>3. c = IF bad THEN Invalid ELSE [cp |-> cp, len |-> n]
  BY DEF DecodeCodepoint
<1>4. CASE c = Invalid
  BY <1>1, <1>4 DEF Invalid
<1>5. CASE ~bad
  <2>1. n \in 1..4 /\ i + n - 1 <= Len(t)
    <3>1. n # 0 /\ ~(i + n - 1 > Len(t))
      <4> HIDE DEF n, cp
      <4> QED BY <1>5
    <3> HIDE DEF n
    <3> QED BY <1>1, <1>2, <3>1
  <2>2. c = [cp |-> cp, len |-> n]
    <3> HIDE DEF bad, cp, n, c
    <3> QED BY <1>3, <1>5
  <2>3. \A k \in 1..3 : k <= n - 1 => bits(k) \in Nat
    <3> SUFFICES ASSUME NEW k \in 1..3, k <= n - 1 PROVE bits(k) \in Nat
      OBVIOUS
    <3> HIDE DEF n
    <3>1. i + k \in 1..Len(t)
      BY <1>1, <2>1
    <3>2. PICK j \in 1..Len(t) : j = i + k
      BY <3>1
    <3>3. t[j] \in Nat
      BY <1>1
    <3>4. t[i + k] \in Nat
      BY <3>2, <3>3
    <3> QED BY <3>4
  <2>4. t[i] % 32 \in Nat /\ t[i] % 16 \in Nat /\ t[i] % 8 \in Nat
    BY <1>2
  <2>5. cp \in Nat
    <3>1. \A x, y \in Nat : x * 64 + y \in Nat
      OBVIOUS
    <3> HIDE DEF n, bits
    <3>2. CASE n = 1
      BY <1>2, <3>2
    <3>3. CASE n = 2
      <4>1. bits(1) \in Nat
        BY <2>3, <3>3
      <4> QED BY <2>4, <3>1, <3>3, <4>1
    <3>4. CASE n = 3
      <4>1. bits(1) \in Nat /\ bits(2) \in Nat
        BY <2>3, <3>4
      <4>2. (t[i] % 16) * 64 + bits(1) \in Nat
        BY <2>4, <3>1, <4>1
      <4>3. ((t[i] % 16) * 64 + bits(1)) * 64 + bits(2) \in Nat
        BY <3>1, <4>1, <4>2
      <4> QED BY <3>4, <4>3
    <3>5. CASE n = 4
      <4>1. bits(1) \in Nat /\ bits(2) \in Nat /\ bits(3) \in Nat
        BY <2>3, <3>5
      <4>2. (t[i] % 8) * 64 + bits(1) \in Nat
        BY <2>4, <3>1, <4>1
      <4>3. ((t[i] % 8) * 64 + bits(1)) * 64 + bits(2) \in Nat
        BY <3>1, <4>1, <4>2
      <4>4. (((t[i] % 8) * 64 + bits(1)) * 64 + bits(2)) * 64 + bits(3) \in Nat
        BY <3>1, <4>1, <4>3
      <4> QED BY <3>5, <4>4
    <3> QED BY <2>1, <3>2, <3>3, <3>4, <3>5
  <2> HIDE DEF n, cp, c
  <2>6. c.len = n /\ c.cp = cp
    BY <2>2
  <2>7. i + n \in (i + 1)..(Len(t) + 1)
    BY <1>1, <2>1
  <2> QED BY <2>1, <2>5, <2>6, <2>7 DEF c
<1> HIDE DEF bad, cp, n, c
<1>6. bad => c = Invalid
  BY <1>3
<1> QED BY <1>4, <1>5, <1>6 DEF c

(* The characters of a text follow one another, from its first byte to its *)
(* last.                                                                   *)
LEMMA CharactersCover ==
    ASSUME NEW t, t \in Text
    PROVE  LET cs == Characters(t)
               n == Len(cs)
           IN  /\ n \in 0..Len(t) /\ cs \in Seq([start : Nat, end : Nat, cp : Nat])
               /\ (t # <<>>) => n >= 1 /\ cs[1].start = 1 /\ cs[n].end = Len(t)
               /\ \A k \in 1..n : /\ cs[k].start \in 1..Len(t)
                                  /\ cs[k].end \in cs[k].start..Len(t)
               /\ \A k \in 1..(n - 1) : cs[k + 1].start = cs[k].end + 1
<1> DEFINE cs == Characters(t)
           l == Len(t)
           c == [i \in DOMAIN t |-> DecodeCodepoint(t, i)]
           item == [i \in DOMAIN t |-> [start |-> i, end |-> i + c[i].len - 1, cp |-> c[i].cp]]
           next == [i \in DOMAIN t |-> i + c[i].len]
<1>1. l \in Nat /\ DOMAIN t = 1..l
  BY DEF Text
<1>2. \A i \in 1..l : c[i].len \in 1..4 /\ i + c[i].len \in (i + 1)..(l + 1) /\ c[i].cp \in Nat
  BY <1>1, DecodedLength
<1>3. cs = Chain(l, item, next)
  BY DEF Characters
<1> HIDE DEF c
<1>4. \A i \in 1..l : /\ next[i] = i + c[i].len
                      /\ item[i] = [start |-> i, end |-> i + c[i].len - 1, cp |-> c[i].cp]
  BY <1>1
<1> HIDE DEF item, next, l
<1>5. Forward(l, next)
  BY <1>2, <1>4 DEF Forward
<1>6. PICK at :
          /\ Len(cs) \in 0..l /\ cs = [k \in 1..Len(cs) |-> cs[k]]
          /\ at[1] = 1 /\ at[Len(cs) + 1] = l + 1
          /\ \A k \in 1..Len(cs) : /\ at[k] \in 1..l /\ at[k + 1] = next[at[k]]
                                   /\ cs[k] = item[at[k]]
  BY <1>1, <1>3, <1>5, ChainItems
<1> HIDE DEF cs
<1> DEFINE n == Len(cs)
           Character == [start : Nat, end : Nat, cp : Nat]
<1>7. \A k \in 1..n : /\ cs[k].start = at[k] /\ cs[k].end = at[k + 1] - 1
                      /\ at[k + 1] \in (at[k] + 1)..(l + 1) /\ cs[k] \in Character
  <2> SUFFICES ASSUME NEW k \in 1..n
               PROVE  /\ cs[k].start = at[k] /\ cs[k].end = at[k + 1] - 1
                      /\ at[k + 1] \in (at[k] + 1)..(l + 1) /\ cs[k] \in Character
    OBVIOUS
  <2>1. at[k] \in 1..l /\ at[k + 1] = next[at[k]] /\ cs[k] = item[at[k]]
    BY <1>6
  <2>2. PICK i \in 1..l : i = at[k]
    BY <2>1
  <2>3. /\ cs[k] = [start |-> i, end |-> i + c[i].len - 1, cp |-> c[i].cp]
        /\ at[k + 1] = i + c[i].len
    BY <1>4, <2>1, <2>2
  <2>4. c[i].len \in 1..4 /\ i + c[i].len \in (i + 1)..(l + 1) /\ c[i].cp \in Nat
    BY <1>2
  <2>5. PICK e \in Nat : e = i + c[i].len - 1
    BY <2>4
  <2>6. cs[k] = [start |-> i, end |-> e, cp |-> c[i].cp]
    BY <2>3, <2>5
  <2>7. cs[k] \in Character /\ cs[k].start = i /\ cs[k].end = e
    BY <2>4, <2>6
  <2>8. e = at[k + 1] - 1 /\ at[k + 1] \in (i + 1)..(l + 1)
    <3>1. i \in Nat /\ c[i].len \in Nat
      BY <1>1, <2>4
    <3>2. e + 1 = i + c[i].len
      BY <2>5, <3>1
    <3> QED BY <2>3, <2>4, <2>5, <3>2
  <2> QED BY <2>2, <2>7, <2>8
<1>8. cs \in Seq(Character)
  <2> HIDE DEF Character
  <2> QED BY <1>1, <1>6, <1>7
<1>9. \A k \in 1..n : cs[k].start \in 1..l /\ cs[k].end \in cs[k].start..l
  BY <1>1, <1>6, <1>7
<1>10. \A k \in 1..(n - 1) : cs[k + 1].start = cs[k].end + 1
  <2> SUFFICES ASSUME NEW k \in 1..(n - 1) PROVE cs[k + 1].start = cs[k].end + 1
    OBVIOUS
  <2>1. k \in 1..n /\ k + 1 \in 1..n /\ n \in Nat
    BY <1>1, <1>6
  <2>2. at[k + 1] \in 1..l
    BY <1>6, <2>1
  <2> QED BY <1>1, <1>7, <2>1, <2>2
<1>11. ASSUME t # <<>> PROVE n >= 1 /\ cs[1].start = 1 /\ cs[n].end = l
  <2>1. l # 0
    BY <1>1, <1>11 DEF Text, l
  <2>2. n \in Nat /\ n # 0
    BY <1>1, <1>6, <2>1
  <2>3. 1 \in 1..n /\ n \in 1..n
    BY <2>2
  <2>4. cs[1].start = at[1] /\ cs[n].end = at[n + 1] - 1
    BY <1>7, <2>3
  <2> QED BY <1>1, <1>6, <2>2, <2>4
<1> QED BY <1>6, <1>8, <1>9, <1>10, <1>11 DEF cs, l

-----------------------------------------------------------------------------
(* Sequences laid end to end                                               *)

(* The parts up to the i-th have room[i] elements at most.                 *)
Roomy(ss, room) ==
    /\ room[0] = 0
    /\ \A i \in 1..Len(ss) : room[i] \in Nat /\ room[i - 1] + Len(ss[i]) <= room[i]

(* What FlattenSeq computes up to position n.                              *)
IsFlat(g, n, ss) == g = [i \in 1..n |-> IF i = 1 THEN ss[i] ELSE g[i - 1] \o ss[i]]

LEMMA FlatExists ==
    ASSUME NEW S, NEW ss \in Seq(Seq(S))
    PROVE  \E g : IsFlat(g, Len(ss), ss)
<1> DEFINE T == {k \in 0..Len(ss) : \E g : IsFlat(g, k, ss)}
<1>0. Len(ss) \in Nat
  OBVIOUS
<1>1. 0 \in T
  <2> DEFINE g == [i \in 1..0 |-> <<>>]
  <2>1. g = [i \in 1..0 |-> IF i = 1 THEN ss[i] ELSE g[i - 1] \o ss[i]]
    <3>1. \A i \in 1..0 : FALSE
      OBVIOUS
    <3> QED BY <3>1
  <2>2. IsFlat(g, 0, ss)
    BY <2>1 DEF IsFlat
  <2> QED BY <1>0, <2>2
<1>2. ASSUME NEW k \in 0..(Len(ss) - 1), k \in T PROVE k + 1 \in T
  <2>1. PICK g : IsFlat(g, k, ss)
    BY <1>2
  <2>2. k \in Nat /\ k + 1 \in 0..Len(ss) /\ (k + 1) - 1 = k
    BY <1>0
  <2> DEFINE h == [i \in 1..(k + 1) |-> IF i = k + 1 THEN (IF k = 0 THEN ss[1] ELSE g[k] \o ss[k + 1])
                                        ELSE g[i]]
  <2>3. \A i \in 1..k : g[i] = IF i = 1 THEN ss[i] ELSE g[i - 1] \o ss[i]
    BY <2>1 DEF IsFlat
  <2>4. /\ h[k + 1] = IF k = 0 THEN ss[1] ELSE g[k] \o ss[k + 1]
        /\ \A i \in 1..k : h[i] = g[i]
        /\ h = [i \in 1..(k + 1) |-> h[i]]
    <3>1. k + 1 \in 1..(k + 1) /\ \A i \in 1..k : i \in 1..(k + 1) /\ i # k + 1
      BY <2>2
    <3> QED BY <3>1
  <2> HIDE DEF h
  <2>5. ASSUME NEW i \in 1..(k + 1) PROVE h[i] = IF i = 1 THEN ss[i] ELSE h[i - 1] \o ss[i]
    <3>1. CASE i = k + 1
      <4>1. CASE k = 0
        BY <2>4, <3>1, <4>1
      <4>2. CASE k # 0
        <5>1. k \in 1..k /\ i # 1 /\ i - 1 = k
          BY <2>2, <3>1, <4>2
        <5> QED BY <2>4, <3>1, <4>2, <5>1
      <4> QED BY <4>1, <4>2
    <3>2. CASE i # k + 1
      <4>1. i \in 1..k /\ (i # 1 => i - 1 \in 1..k)
        BY <2>2, <3>2
      <4> QED BY <2>3, <2>4, <4>1
    <3> QED BY <3>1, <3>2
  <2>6. h = [i \in 1..(k + 1) |-> IF i = 1 THEN ss[i] ELSE h[i - 1] \o ss[i]]
    BY <2>4, <2>5
  <2>7. IsFlat(h, k + 1, ss)
    BY <2>6 DEF IsFlat
  <2> QED BY <2>2, <2>7
<1>3. Len(ss) \in T
  <2>1. T \in SUBSET (0..Len(ss))
    OBVIOUS
  <2> HIDE DEF T
  <2>2. T = 0..Len(ss)
    BY <1>0, <1>1, <1>2, <2>1, UpTo
  <2> QED BY <1>0, <2>2
<1> QED BY <1>3

(* The parts together are no longer than the room there is for each.       *)
LEMMA Flattened ==
    ASSUME NEW S, NEW ss \in Seq(Seq(S)), NEW room, Roomy(ss, room)
    PROVE  FlattenSeq(ss) \in Seq(S) /\ Len(FlattenSeq(ss)) <= room[Len(ss)]
<1>0. Len(ss) \in Nat /\ \A i \in 1..Len(ss) : ss[i] \in Seq(S)
  <2> DEFINE Q == Seq(S)
  <2>1. ss \in Seq(Q)
    OBVIOUS
  <2> HIDE DEF Q
  <2>2. Len(ss) \in Nat /\ \A i \in 1..Len(ss) : ss[i] \in Q
    BY <2>1
  <2> QED BY <2>2 DEF Q
<1>1. CASE Len(ss) = 0
  <2>1. ss = <<>>
    BY <1>1
  <2>2. FlattenSeq(ss) = <<>>
    BY <1>1, <2>1 DEF FlattenSeq
  <2> QED BY <1>1, <2>2 DEF Roomy
<1>2. CASE Len(ss) # 0
  <2> DEFINE g == CHOOSE h : IsFlat(h, Len(ss), ss)
             T == {k \in 0..Len(ss) : k # 0 => g[k] \in Seq(S) /\ Len(g[k]) <= room[k]}
  <2>1. IsFlat(g, Len(ss), ss)
    BY FlatExists
  <2>2. FlattenSeq(ss) = g[Len(ss)]
    BY <1>2 DEF FlattenSeq, IsFlat
  <2> HIDE DEF g
  <2>3. \A i \in 1..Len(ss) : g[i] = IF i = 1 THEN ss[i] ELSE g[i - 1] \o ss[i]
    BY <2>1 DEF IsFlat
  <2>4. ASSUME NEW k \in 0..(Len(ss) - 1), k \in T PROVE k + 1 \in T
    <3>1. k + 1 \in 1..Len(ss) /\ (k + 1) - 1 = k
      BY <1>0
    <3>2. ss[k + 1] \in Seq(S) /\ Len(ss[k + 1]) \in Nat
      BY <1>0, <3>1
    <3>3. room[k + 1] \in Nat /\ room[k] + Len(ss[k + 1]) <= room[k + 1]
      BY <3>1 DEF Roomy
    <3>4. CASE k = 0
      <4>1. g[k + 1] = ss[k + 1]
        BY <2>3, <3>1, <3>4
      <4>2. room[k] = 0
        BY <3>4 DEF Roomy
      <4>3. Len(g[k + 1]) <= room[k + 1]
        BY <3>2, <3>3, <4>1, <4>2
      <4> QED BY <3>1, <3>2, <4>1, <4>3
    <3>5. CASE k # 0
      <4>1. g[k + 1] = g[k] \o ss[k + 1]
        <5>1. k + 1 # 1
          BY <1>0, <3>5
        <5> QED BY <2>3, <3>1, <5>1
      <4>2. g[k] \in Seq(S) /\ Len(g[k]) <= room[k] /\ Len(g[k]) \in Nat
        BY <2>4, <3>5
      <4>3. k \in 1..Len(ss)
        BY <1>0, <3>5
      <4>4. room[k] \in Nat
        BY <4>3 DEF Roomy
      <4>5. g[k + 1] \in Seq(S) /\ Len(g[k + 1]) = Len(g[k]) + Len(ss[k + 1])
        BY <3>2, <4>1, <4>2
      <4>6. \A a, b, c, d \in Nat : a <= c /\ c + b <= d => a + b <= d
        OBVIOUS
      <4>7. Len(g[k]) + Len(ss[k + 1]) <= room[k + 1]
        BY <3>2, <3>3, <4>2, <4>4, <4>6
      <4>8. k + 1 \in 0..Len(ss)
        BY <1>0
      <4> QED BY <4>5, <4>7, <4>8
    <3> QED BY <3>4, <3>5
  <2>5. 0 \in T
    BY <1>0
  <2>6. Len(ss) \in T
    <3>1. T \in SUBSET (0..Len(ss))
      OBVIOUS
    <3> HIDE DEF T
    <3>2. T = 0..Len(ss)
      BY <1>0, <2>4, <2>5, <3>1, UpTo
    <3> QED BY <1>0, <3>2
  <2> QED BY <1>2, <2>2, <2>6
<1> QED BY <1>1, <1>2

LEMMA Largest ==
    ASSUME NEW a \in Nat, NEW b \in Nat
    PROVE  Max({a, b, 1}) \in Nat /\ Max({a, b, 1}) >= a /\ Max({a, b, 1}) >= b
<1> DEFINE S == {a, b, 1}
<1>1. \E x \in S : \A y \in S : x >= y
  <2>1. CASE a >= b /\ a >= 1
    BY <2>1
  <2>2. CASE b >= a /\ b >= 1
    BY <2>2
  <2>3. CASE 1 >= a /\ 1 >= b
    BY <2>3
  <2> QED BY <2>1, <2>2, <2>3
<1>2. Max(S) \in S /\ \A y \in S : Max(S) >= y
  <2> HIDE DEF S
  <2> QED BY <1>1 DEF Max
<1> QED BY <1>2

-----------------------------------------------------------------------------
(* What is fed to the merging                                              *)

(* A code point that has two bytes at most. *)
Short(cp) == cp \in Nat /\ cp < 2048

LEMMA EncodedBytes ==
    ASSUME NEW cp, Short(cp)
    PROVE  EncodeCodepoint(cp) \in Text /\ Len(EncodeCodepoint(cp)) <= 2
<1>0. cp \in Nat /\ cp < 2048
  BY DEF Short
<1>1. \A b \in Nat : b < 256 => b \in Byte
  BY DEF Byte
<1>2. CASE cp < 128
  <2>1. EncodeCodepoint(cp) = <<cp>>
    BY <1>2 DEF EncodeCodepoint
  <2>2. cp \in Byte
    BY <1>0, <1>1, <1>2
  <2> QED BY <2>1, <2>2 DEF Text
<1>3. CASE ~(cp < 128)
  <2> DEFINE lead == 192 + (cp \div 64)
             tail == 128 + ((cp \div 1) % 64)
  <2>1. EncodeCodepoint(cp) = <<lead, tail>>
    BY <1>0, <1>3 DEF EncodeCodepoint
  <2>2. cp \div 64 \in Nat /\ cp \div 64 < 32 /\ cp \div 1 \in Nat
    BY <1>0
  <2>3. (cp \div 1) % 64 \in Nat /\ (cp \div 1) % 64 < 64
    BY <2>2
  <2>4. lead \in Byte /\ tail \in Byte
    BY <1>1, <2>2, <2>3
  <2> HIDE DEF lead, tail
  <2> QED BY <2>1, <2>4 DEF Text
<1> QED BY <1>2, <1>3

LEMMA StandIn == ASSUME NEW b \in Byte PROVE Short(ByteToCp[b])
<1> DEFINE before == {x \in 0..(b - 1) : ~Printable(x)}
<1>1. b \in Nat /\ b < 256
  BY DEF Byte
<1>2. ByteToCp[b] = IF Printable(b) THEN b ELSE 256 + Cardinality(before)
  BY DEF ByteToCp
<1>3. IsFiniteSet(0..(b - 1)) /\ Cardinality(0..(b - 1)) = b
  <2>1. b - 1 \in Int /\ 0 \in Int
    BY <1>1
  <2>2. IsFiniteSet(0..(b - 1)) /\ Cardinality(0..(b - 1)) = IF 0 > b - 1 THEN 0 ELSE b - 1 - 0 + 1
    BY <2>1, FS_Interval
  <2>3. (IF 0 > b - 1 THEN 0 ELSE b - 1 - 0 + 1) = b
    BY <1>1
  <2> QED BY <2>2, <2>3
<1>4. before \subseteq 0..(b - 1)
  OBVIOUS
<1> HIDE DEF before
<1>5. IsFiniteSet(before) /\ Cardinality(before) <= b
  BY <1>3, <1>4, FS_Subset
<1>6. Cardinality(before) \in Nat
  BY <1>5, FS_CardinalityType
<1> QED BY <1>1, <1>2, <1>5, <1>6 DEF Short

LEMMA StandInText ==
    ASSUME NEW b \in Byte
    PROVE  EncodeCodepoint(ByteToCp[b]) \in Text /\ Len(EncodeCodepoint(ByteToCp[b])) <= 2
BY StandIn, EncodedBytes

(* Parts of the same length at most.                                       *)
LEMMA Even ==
    ASSUME NEW S, NEW ss \in Seq(Seq(S)), NEW most \in {1, 2, 3},
           \A i \in 1..Len(ss) : Len(ss[i]) <= most
    PROVE  FlattenSeq(ss) \in Seq(S) /\ Len(FlattenSeq(ss)) <= most * Len(ss)
<1> DEFINE room == [i \in 0..Len(ss) |-> most * i]
<1>1. Len(ss) \in Nat /\ \A i \in 1..Len(ss) : Len(ss[i]) \in Nat
  <2> DEFINE Q == Seq(S)
  <2>1. ss \in Seq(Q)
    OBVIOUS
  <2> HIDE DEF Q
  <2>2. Len(ss) \in Nat /\ \A i \in 1..Len(ss) : ss[i] \in Q
    BY <2>1
  <2>3. \A q \in Q : Len(q) \in Nat
    BY DEF Q
  <2> QED BY <2>2, <2>3
<1>2. room[0] = 0 /\ room[Len(ss)] = most * Len(ss)
  <2>1. 0 \in 0..Len(ss) /\ Len(ss) \in 0..Len(ss) /\ most * 0 = 0
    BY <1>1
  <2> QED BY <2>1
<1>3. ASSUME NEW i \in 1..Len(ss) PROVE room[i] \in Nat /\ room[i - 1] + Len(ss[i]) <= room[i]
  <2>1. i \in 0..Len(ss) /\ i - 1 \in 0..Len(ss)
    BY <1>1
  <2>2. room[i] = most * i /\ room[i - 1] = most * (i - 1)
    BY <2>1
  <2>3. Len(ss[i]) \in Nat /\ Len(ss[i]) <= most
    BY <1>1
  <2> HIDE DEF room
  <2>4. most * (i - 1) + most = most * i /\ most * i \in Nat /\ most * (i - 1) \in Nat
    <3>1. CASE most = 1
      BY <2>1, <3>1
    <3>2. CASE most = 2
      BY <2>1, <3>2
    <3>3. CASE most = 3
      BY <2>1, <3>3
    <3> QED BY <3>1, <3>2, <3>3
  <2>5. \A a, b, c, d \in Nat : a <= c /\ b + c = d => b + a <= d
    OBVIOUS
  <2> QED BY <2>2, <2>3, <2>4, <2>5
<1> HIDE DEF room
<1>4. Roomy(ss, room)
  BY <1>2, <1>3 DEF Roomy
<1>5. FlattenSeq(ss) \in Seq(S) /\ Len(FlattenSeq(ss)) <= room[Len(ss)]
  BY <1>4, Flattened
<1> QED BY <1>2, <1>5

LEMMA ByteLevelFits ==
    ASSUME NEW t \in Text
    PROVE  ByteLevel(t) \in Text /\ Len(ByteLevel(t)) <= 2 * Len(t)
<1> DEFINE ss == [i \in DOMAIN t |-> EncodeCodepoint(ByteToCp[t[i]])]
<1>1. t \in Seq(Byte) /\ Len(t) \in Nat /\ DOMAIN t = 1..Len(t)
  BY DEF Text
<1>2. \A i \in 1..Len(t) : ss[i] \in Text /\ Len(ss[i]) <= 2
  <2> SUFFICES ASSUME NEW i \in 1..Len(t) PROVE ss[i] \in Text /\ Len(ss[i]) <= 2
    OBVIOUS
  <2>1. PICK b \in Byte : b = t[i]
    BY <1>1
  <2>3. EncodeCodepoint(ByteToCp[b]) \in Text /\ Len(EncodeCodepoint(ByteToCp[b])) <= 2
    BY StandInText
  <2>4. ss[i] = EncodeCodepoint(ByteToCp[b])
    BY <1>1, <2>1
  <2> HIDE DEF ss
  <2> QED BY <2>3, <2>4
<1>3. ss = [i \in 1..Len(t) |-> ss[i]] /\ ByteLevel(t) = FlattenSeq(ss)
  BY <1>1 DEF ByteLevel
<1> HIDE DEF ss
<1>4. ss \in Seq(Text) /\ Len(ss) = Len(t)
  BY <1>1, <1>2, <1>3
<1>5. \A i \in 1..Len(ss) : Len(ss[i]) <= 2
  BY <1>2, <1>4
<1>6. ss \in Seq(Seq(Byte))
  BY <1>4 DEF Text
<1>7. FlattenSeq(ss) \in Seq(Byte) /\ Len(FlattenSeq(ss)) <= 2 * Len(ss)
  BY <1>5, <1>6, Even
<1> QED BY <1>3, <1>4, <1>7 DEF Text

LEMMA LowerBarsFits ==
    ASSUME NEW t \in Text
    PROVE  LowerBars(t) \in Text /\ Len(LowerBars(t)) <= 3 * Len(t)
<1> DEFINE ss == [i \in DOMAIN t |-> IF t[i] = Space THEN LowerBar ELSE <<t[i]>>]
<1>1. t \in Seq(Byte) /\ Len(t) \in Nat /\ DOMAIN t = 1..Len(t)
  BY DEF Text
<1>2. LowerBar \in Text /\ Len(LowerBar) <= 3
  <2>1. 226 \in Byte /\ 150 \in Byte /\ 129 \in Byte
    BY DEF Byte
  <2> QED BY <2>1 DEF LowerBar, Text
<1>3. \A i \in 1..Len(t) : ss[i] \in Text /\ Len(ss[i]) <= 3
  <2> SUFFICES ASSUME NEW i \in 1..Len(t) PROVE ss[i] \in Text /\ Len(ss[i]) <= 3
    OBVIOUS
  <2>1. t[i] \in Byte
    BY <1>1
  <2>2. <<t[i]>> \in Text /\ Len(<<t[i]>>) = 1
    BY <2>1 DEF Text
  <2>3. ss[i] = LowerBar \/ ss[i] = <<t[i]>>
    BY <1>1
  <2> HIDE DEF ss
  <2>4. CASE ss[i] = LowerBar
    BY <1>2, <2>4
  <2>5. CASE ss[i] = <<t[i]>>
    <3>1. Len(ss[i]) = 1
      BY <2>2, <2>5
    <3> QED BY <2>2, <2>5, <3>1
  <2> QED BY <2>3, <2>4, <2>5
<1>4. ss = [i \in 1..Len(t) |-> ss[i]] /\ LowerBars(t) = FlattenSeq(ss)
  BY <1>1 DEF LowerBars
<1> HIDE DEF ss
<1>5. ss \in Seq(Text) /\ Len(ss) = Len(t)
  BY <1>1, <1>3, <1>4
<1>6. \A i \in 1..Len(ss) : Len(ss[i]) <= 3
  BY <1>3, <1>5
<1>7. ss \in Seq(Seq(Byte))
  BY <1>5 DEF Text
<1>8. FlattenSeq(ss) \in Seq(Byte) /\ Len(FlattenSeq(ss)) <= 3 * Len(ss)
  BY <1>6, <1>7, Even
<1> QED BY <1>4, <1>5, <1>8 DEF Text

LEMMA RunBounds ==
    ASSUME NEW t, NEW C, Len(t) \in Nat, NEW i \in 1..(Len(t) + 1)
    PROVE  RunEnd(t, i, C) \in i..(Len(t) + 1)
<1> DEFINE S == {j \in i..(Len(t) + 1) : j = Len(t) + 1 \/ t[j] \notin C}
<1>1. S \in SUBSET (0..(Len(t) + 1)) /\ Len(t) + 1 \in S /\ Len(t) + 1 \in Nat
  OBVIOUS
<1>2. RunEnd(t, i, C) = Min(S) /\ S \subseteq i..(Len(t) + 1)
  BY DEF RunEnd
<1> HIDE DEF S
<1>3. Min(S) \in S
  BY <1>1, Smallest
<1> QED BY <1>2, <1>3

(* gpt2_pretokenize: each round goes on, and none beyond the end.          *)
LEMMA MatchAdvances ==
    ASSUME NEW t, Len(t) \in Nat, NEW i \in 1..Len(t)
    PROVE  MatchEnd(t, i) \in (i + 1)..(Len(t) + 1)
<1> DEFINE l == Len(t) + 1
           letters == IF t[i] = "number" THEN i + 1 ELSE MatchLettersRun(t, i)
<1>1. MatchContraction(t, i) \in i..l
  BY DEF MatchContraction
<1>2. letters \in i..l
  <2>1. RunEnd(t, i + 1, LetterOrMark) \in (i + 1)..l
    BY RunBounds
  <2> QED BY <2>1 DEF MatchLettersRun
<1>3. MatchSpacePunct(t, i) \in i..l
  <2> DEFINE p == IF t[i] = "space" THEN i + 1 ELSE i
             end == RunEnd(t, p, Punct)
  <2>1. p \in i..l
    OBVIOUS
  <2>2. MatchSpacePunct(t, i) = IF end = p THEN i ELSE RunEnd(t, end, Newline)
    BY DEF MatchSpacePunct
  <2> HIDE DEF p
  <2>3. end \in p..l
    BY <2>1, RunBounds
  <2> HIDE DEF end
  <2>4. RunEnd(t, end, Newline) \in end..l
    BY <2>1, <2>3, RunBounds
  <2> QED BY <2>1, <2>2, <2>3, <2>4
<1>4. MatchWsRun(t, i) \in i..l
  <2> DEFINE end == RunEnd(t, i, White)
             newlines == {j \in i..(end - 1) : t[j] \in Newline}
  <2>1. end \in i..l
    BY RunBounds
  <2>2. MatchWsRun(t, i) = IF newlines # {} THEN Max(newlines) + 1
                           ELSE IF end - 1 > i /\ end <= Len(t) THEN end - 1 ELSE end
    BY DEF MatchWsRun
  <2>3. newlines \in SUBSET (0..l) /\ newlines \subseteq i..(end - 1)
    BY <2>1
  <2> HIDE DEF end, newlines
  <2>4. ASSUME newlines # {} PROVE Max(newlines) \in newlines
    <3>0. l \in Nat
      OBVIOUS
    <3> HIDE DEF l
    <3>1. \E x \in newlines : \A y \in newlines : y <= x
      BY <2>3, <2>4, <3>0, Greatest
    <3>2. \E x \in newlines : \A y \in newlines : x >= y
      BY <2>3, <3>1
    <3> QED BY <3>2 DEF Max
  <2>5. newlines # {} => Max(newlines) \in i..(end - 1)
    BY <2>3, <2>4
  <2> QED BY <2>1, <2>2, <2>5
<1> HIDE DEF letters
<1>5. MatchEnd(t, i) = IF MatchContraction(t, i) > i THEN MatchContraction(t, i)
                       ELSE IF letters > i THEN letters
                       ELSE IF MatchSpacePunct(t, i) > i THEN MatchSpacePunct(t, i)
                       ELSE IF MatchWsRun(t, i) > i THEN MatchWsRun(t, i) ELSE i + 1
  BY DEF MatchEnd, letters
<1> QED BY <1>1, <1>2, <1>3, <1>4, <1>5

LEMMA PartOf ==
    ASSUME NEW t \in Text, NEW a \in 1..(Len(t) + 1), NEW b \in (a - 1)..Len(t)
    PROVE  SubSeq(t, a, b) \in Text /\ Len(SubSeq(t, a, b)) = b - a + 1
<1>1. t \in Seq(Byte)
  BY DEF Text
<1> HIDE DEF Byte
<1>2. Len(t) \in Nat /\ a \in Nat /\ b \in Int
  BY <1>1
<1>3. SubSeq(t, a, b) \in Seq(Byte) /\ Len(SubSeq(t, a, b)) = b - a + 1
  BY <1>1, <1>2
<1> QED BY <1>3 DEF Text

(* A later character ends behind where an earlier one begins.              *)
LEMMA CharactersInOrder ==
    ASSUME NEW t \in Text, NEW a \in 1..Len(Characters(t)), NEW b \in a..Len(Characters(t))
    PROVE  Characters(t)[b].end \in Characters(t)[a].start..Len(t)
<1> DEFINE cs == Characters(t)
           n == Len(cs)
           T == {d \in 0..(n - a) : cs[a].start <= cs[a + d].end}
<1>1. /\ n \in Nat /\ Len(t) \in Nat
      /\ \A k \in 1..n : cs[k].start \in 1..Len(t) /\ cs[k].end \in cs[k].start..Len(t)
      /\ \A k \in 1..(n - 1) : cs[k + 1].start = cs[k].end + 1
  BY CharactersCover, TextBytes
<1> HIDE DEF cs
<1>2. n - a \in Nat /\ a \in 1..n /\ b \in a..n
  BY <1>1 DEF cs
<1>3. 0 \in T
  BY <1>1, <1>2
<1>4. ASSUME NEW d \in 0..(n - a - 1), d \in T PROVE d + 1 \in T
  <2>1. a + d \in 1..(n - 1) /\ (a + d) + 1 = a + (d + 1) /\ a + (d + 1) \in 1..n /\ a + d \in 1..n
    BY <1>1, <1>2
  <2>2. PICK j \in 1..(n - 1) : j = a + d
    BY <2>1
  <2>3. cs[j + 1].start = cs[j].end + 1 /\ j \in 1..n /\ j + 1 \in 1..n
    BY <1>1
  <2>4. /\ cs[a].start \in 1..Len(t) /\ cs[j].start \in 1..Len(t) /\ cs[j].end \in cs[j].start..Len(t)
        /\ cs[j + 1].start \in 1..Len(t) /\ cs[j + 1].end \in cs[j + 1].start..Len(t)
    BY <1>1, <1>2, <2>3
  <2>5. cs[a].start <= cs[j].end
    BY <1>4, <2>2
  <2>6. cs[a].start <= cs[j + 1].end
    <3>1. PICK x \in Nat : x = cs[a].start
      BY <1>1, <2>4
    <3>2. PICK y \in Nat : y = cs[j].end
      BY <1>1, <2>4
    <3>3. PICK s \in Nat : s = cs[j + 1].start
      BY <1>1, <2>4
    <3>4. PICK z \in Nat : z = cs[j + 1].end /\ s <= z
      BY <1>1, <2>4, <3>3
    <3>5. s = y + 1 /\ x <= y
      BY <2>3, <2>5, <3>1, <3>2, <3>3
    <3>6. x <= z
      BY <3>4, <3>5
    <3> QED BY <3>1, <3>4, <3>6
  <2>7. d + 1 \in 0..(n - a)
    BY <1>2
  <2> QED BY <2>1, <2>2, <2>6, <2>7
<1>5. b - a \in T
  <2>1. T \in SUBSET (0..(n - a))
    OBVIOUS
  <2> HIDE DEF T
  <2>2. \A d \in 0..((n - a) - 1) : d \in T => d + 1 \in T
    BY <1>4
  <2>3. T = 0..(n - a)
    BY <1>2, <1>3, <2>1, <2>2, UpTo
  <2> QED BY <1>1, <1>2, <2>3
<1>6. cs[a].start <= cs[b].end
  <2>1. a + (b - a) = b
    BY <1>1, <1>2
  <2> QED BY <1>5, <2>1
<1>7. b \in 1..n
  BY <1>1, <1>2
<1>8. cs[a].start \in 1..Len(t) /\ cs[b].end \in cs[b].start..Len(t) /\ cs[b].start \in 1..Len(t)
  BY <1>1, <1>2, <1>7
<1>9. cs[b].end \in cs[a].start..Len(t)
  <2> HIDE DEF n
  <2> QED BY <1>1, <1>6, <1>8
<1> QED BY <1>9 DEF cs

(* The spans of gpt2_pretokenize follow one another, from the first        *)
(* character to the last.                                                  *)
LEMMA SpansCover ==
    ASSUME NEW t, NEW n \in Nat, t = [i \in 1..n |-> t[i]]
    PROVE  \E at :
               LET spans == Gpt2Pretokenize(t)
                   m == Len(spans)
               IN  /\ m \in 0..n /\ spans = [k \in 1..m |-> spans[k]]
                   /\ at[1] = 1 /\ at[m + 1] = n + 1
                   /\ \A k \in 1..m : /\ at[k] \in 1..n /\ at[k + 1] \in (at[k] + 1)..(n + 1)
                                      /\ spans[k] = <<at[k], at[k + 1] - 1>>
<1> DEFINE end == [i \in DOMAIN t |-> MatchEnd(t, i)]
           item == [i \in DOMAIN t |-> <<i, end[i] - 1>>]
           spans == Gpt2Pretokenize(t)
<1>1. DOMAIN t = 1..n /\ Len(t) = n
  OBVIOUS
<1>2. spans = Chain(n, item, end)
  BY <1>1 DEF Gpt2Pretokenize
<1>3. \A i \in 1..n : end[i] = MatchEnd(t, i) /\ item[i] = <<i, end[i] - 1>>
  BY <1>1
<1> HIDE DEF end, item, spans
<1>4. Forward(n, end)
  <2>1. \A i \in 1..n : MatchEnd(t, i) \in (i + 1)..(n + 1)
    BY <1>1, MatchAdvances
  <2> QED BY <1>3, <2>1 DEF Forward
<1>5. PICK at :
          /\ Len(spans) \in 0..n /\ spans = [k \in 1..Len(spans) |-> spans[k]]
          /\ at[1] = 1 /\ at[Len(spans) + 1] = n + 1
          /\ \A k \in 1..Len(spans) : /\ at[k] \in 1..n /\ at[k + 1] = end[at[k]]
                                      /\ spans[k] = item[at[k]]
  BY <1>2, <1>4, ChainItems
<1>6. \A k \in 1..Len(spans) : /\ at[k] \in 1..n /\ at[k + 1] \in (at[k] + 1)..(n + 1)
                               /\ spans[k] = <<at[k], at[k + 1] - 1>>
  <2> SUFFICES ASSUME NEW k \in 1..Len(spans)
               PROVE  /\ at[k] \in 1..n /\ at[k + 1] \in (at[k] + 1)..(n + 1)
                      /\ spans[k] = <<at[k], at[k + 1] - 1>>
    OBVIOUS
  <2>1. at[k] \in 1..n /\ at[k + 1] = end[at[k]] /\ spans[k] = item[at[k]]
    BY <1>5
  <2>2. end[at[k]] \in (at[k] + 1)..(n + 1)
    BY <1>4, <2>1 DEF Forward
  <2> QED BY <1>3, <2>1, <2>2
<1> QED BY <1>5, <1>6 DEF spans

(* encode_bpe and encode_sentencepiece: the words of a gap together are no *)
(* longer than the expansion that was reserved for it.                     *)
LEMMA WordsFit ==
    ASSUME NEW type, NEW gap \in Text, gap # <<>>
    PROVE  /\ Words(type, gap) \in Seq(Text)
           /\ \E room : /\ Roomy(Words(type, gap), room)
                        /\ room[Len(Words(type, gap))] <= Expansion(type) * Len(gap)
<1>0. Len(gap) \in Nat
  BY TextBytes
<1>1. CASE type = "sentencepiece"
  <2> DEFINE word == LowerBars(gap)
             room == [i \in 0..1 |-> IF i = 0 THEN 0 ELSE Len(word)]
  <2>1. word \in Text /\ Len(word) <= 3 * Len(gap) /\ Len(word) \in Nat
    BY LowerBarsFits, TextBytes
  <2>2. Words(type, gap) = <<word>>
    BY <1>1 DEF Words
  <2>3. Expansion(type) = 3
    BY <1>1 DEF Expansion
  <2> HIDE DEF word
  <2>4. room[0] = 0 /\ room[1] = Len(word)
    OBVIOUS
  <2> HIDE DEF room
  <2>5. <<word>> \in Seq(Text) /\ Len(<<word>>) = 1 /\ <<word>>[1] = word
    BY <2>1
  <2>6. Roomy(<<word>>, room)
    <3> SUFFICES ASSUME NEW i \in 1..1
                 PROVE  room[i] \in Nat /\ room[i - 1] + Len(<<word>>[i]) <= room[i]
      BY <2>4, <2>5 DEF Roomy
    <3>1. i = 1 /\ i - 1 = 0
      OBVIOUS
    <3> QED BY <2>1, <2>4, <2>5, <3>1
  <2> QED BY <2>1, <2>2, <2>3, <2>4, <2>5, <2>6
<1>2. CASE type # "sentencepiece"
  <2> DEFINE cs == Characters(gap)
             n == Len(cs)
             classes == [i \in DOMAIN cs |-> ClassOf(cs[i].cp)]
             spans == Gpt2Pretokenize(classes)
             m == Len(spans)
             word(k) == ByteLevel(SubSeq(gap, cs[spans[k][1]].start, cs[spans[k][2]].end))
             words == Words(type, gap)
  <2>1. words = [k \in DOMAIN spans |-> word(k)]
    BY <1>2 DEF Words
  <2>2. /\ n \in Nat /\ n >= 1 /\ DOMAIN cs = 1..n
        /\ cs[1].start = 1 /\ cs[n].end = Len(gap)
        /\ \A k \in 1..n : cs[k].start \in 1..Len(gap) /\ cs[k].end \in cs[k].start..Len(gap)
        /\ \A k \in 1..(n - 1) : cs[k + 1].start = cs[k].end + 1
    <3> DEFINE Character == [start : Nat, end : Nat, cp : Nat]
    <3>1. cs \in Seq(Character)
      BY CharactersCover
    <3> HIDE DEF Character, cs
    <3>2. n \in Nat /\ DOMAIN cs = 1..n
      BY <3>1
    <3> QED BY <3>2, CharactersCover DEF cs
  <2>3. classes = [i \in 1..n |-> classes[i]]
    BY <2>2
  <2>4. PICK at :
            /\ m \in 0..n /\ spans = [k \in 1..m |-> spans[k]]
            /\ at[1] = 1 /\ at[m + 1] = n + 1
            /\ \A k \in 1..m : /\ at[k] \in 1..n /\ at[k + 1] \in (at[k] + 1)..(n + 1)
                               /\ spans[k] = <<at[k], at[k + 1] - 1>>
    <3> HIDE DEF classes, n
    <3> QED BY <2>2, <2>3, SpansCover
  <2> DEFINE last(k) == cs[at[k + 1] - 1].end
             room == [k \in 0..m |-> IF k = 0 THEN 0 ELSE 2 * last(k)]
  <2>5. DOMAIN spans = 1..m /\ m \in Nat
    BY <2>2, <2>4
  <2>6. \A a \in 1..n, b \in 1..n : a <= b => cs[b].end \in cs[a].start..Len(gap)
    BY CharactersInOrder
  <2> HIDE DEF cs, n, spans, words
  <2>7. \A k \in 1..m : /\ last(k) \in Nat /\ last(k) <= Len(gap) /\ word(k) \in Text
                        /\ Len(word(k)) \in Nat
                        /\ Len(word(k)) <= 2 * (last(k) - cs[at[k]].start + 1)
    <3> SUFFICES ASSUME NEW k \in 1..m
                 PROVE  /\ last(k) \in Nat /\ last(k) <= Len(gap) /\ word(k) \in Text
                        /\ Len(word(k)) \in Nat
                        /\ Len(word(k)) <= 2 * (last(k) - cs[at[k]].start + 1)
      OBVIOUS
    <3>1. PICK a \in 1..n : a = at[k]
      BY <2>4
    <3>2. PICK b \in 1..n : b = at[k + 1] - 1 /\ a <= b
      BY <2>2, <2>4, <3>1
    <3>3. spans[k][1] = a /\ spans[k][2] = b
      BY <2>4, <3>1, <3>2
    <3>4. cs[a].start \in 1..Len(gap) /\ cs[b].end \in cs[a].start..Len(gap)
      BY <2>2, <2>6, <3>2
    <3>5. PICK s \in 1..Len(gap) : s = cs[a].start
      BY <3>4
    <3>6. PICK e \in s..Len(gap) : e = cs[b].end
      BY <3>4, <3>5
    <3>7. SubSeq(gap, s, e) \in Text /\ Len(SubSeq(gap, s, e)) = e - s + 1
      BY <1>0, PartOf
    <3>8. /\ ByteLevel(SubSeq(gap, s, e)) \in Text
          /\ Len(ByteLevel(SubSeq(gap, s, e))) <= 2 * Len(SubSeq(gap, s, e))
      BY <3>7, ByteLevelFits
    <3>9. word(k) = ByteLevel(SubSeq(gap, s, e)) /\ last(k) = e /\ cs[at[k]].start = s
      BY <3>1, <3>2, <3>3, <3>5, <3>6
    <3>10. Len(word(k)) \in Nat
      BY <3>8, <3>9, TextBytes
    <3> HIDE DEF last, word
    <3> QED BY <1>0, <3>7, <3>8, <3>9, <3>10
  <2>8. words \in Seq(Text) /\ Len(words) = m /\ \A k \in 1..m : words[k] = word(k)
    <3> HIDE DEF last
    <3>1. \A k \in 1..m : word(k) \in Text
      BY <2>7
    <3> HIDE DEF word
    <3> QED BY <2>1, <2>5, <3>1
  <2>9. /\ room[0] = 0 /\ \A k \in 1..m : room[k] = 2 * last(k)
    <3> HIDE DEF last
    <3>1. 0 \in 0..m /\ \A k \in 1..m : k \in 0..m /\ k # 0
      BY <2>5
    <3> QED BY <3>1
  <2> HIDE DEF room, word
  <2>10. ASSUME NEW k \in 1..m PROVE room[k] \in Nat /\ room[k - 1] + Len(words[k]) <= room[k]
    <3>1. PICK e \in Nat : e = last(k)
      BY <2>7
    <3>2. PICK w \in Nat : w = Len(words[k])
      BY <2>7, <2>8
    <3>3. PICK s \in Nat : s = cs[at[k]].start /\ s >= 1
      BY <1>0, <2>2, <2>4
    <3>4. w <= 2 * (e - s + 1)
      BY <2>7, <2>8, <3>1, <3>2, <3>3
    <3>5. room[k] = 2 * e
      BY <2>9, <3>1
    <3>6. room[k - 1] = 2 * (s - 1)
      <4>1. CASE k = 1
        <5>1. s = 1
          BY <2>2, <2>4, <3>3, <4>1
        <5> QED BY <2>9, <4>1, <5>1
      <4>2. CASE k # 1
        <5>1. PICK j \in 1..m : j = k - 1 /\ j + 1 = k
          BY <2>5, <4>2
        <5>2. at[j + 1] \in (at[j] + 1)..(n + 1) /\ at[j] \in 1..n /\ at[j + 1] = at[k]
          BY <2>4, <5>1
        <5>3. PICK p \in 1..(n - 1) : p = at[k] - 1 /\ p + 1 = at[k]
          <6>1. PICK a \in 1..n : a = at[j]
            BY <5>2
          <6>2. PICK b \in (a + 1)..(n + 1) : b = at[k]
            BY <5>2, <6>1
          <6>3. b \in 1..n
            BY <2>4, <6>2
          <6>4. b - 1 \in 1..(n - 1) /\ (b - 1) + 1 = b
            BY <2>2, <6>2, <6>3
          <6> QED BY <6>2, <6>4
        <5>4. cs[p + 1].start = cs[p].end + 1
          BY <2>2
        <5>5. last(j) = cs[p].end
          BY <5>2, <5>3
        <5>6. last(j) \in Nat
          BY <2>7
        <5>7. last(j) = s - 1
          <6> HIDE DEF last
          <6>1. s = cs[p].end + 1
            BY <3>3, <5>3, <5>4
          <6>2. PICK x \in Nat : x = last(j)
            BY <5>6
          <6> QED BY <5>5, <6>1, <6>2
        <5>8. room[j] = 2 * last(j)
          BY <2>9
        <5> HIDE DEF last
        <5> QED BY <5>1, <5>7, <5>8
      <4> QED BY <4>1, <4>2
    <3>7. 2 * e \in Nat /\ 2 * (s - 1) + w <= 2 * e
      <4>1. \A x, y, z \in Nat : z <= 2 * (x - y + 1) => 2 * x \in Nat /\ 2 * (y - 1) + z <= 2 * x
        OBVIOUS
      <4> QED BY <3>4, <4>1
    <3> QED BY <3>2, <3>5, <3>6, <3>7
  <2>11. Roomy(words, room)
    BY <2>8, <2>9, <2>10 DEF Roomy
  <2>12. room[m] <= Expansion(type) * Len(gap)
    <3>1. 2 * Len(gap) <= Expansion(type) * Len(gap) /\ 0 <= Expansion(type) * Len(gap)
      <4>1. CASE Expansion(type) = 2
        BY <1>0, <4>1
      <4>2. CASE Expansion(type) = 3
        BY <1>0, <4>2
      <4> QED BY <4>1, <4>2 DEF Expansion
    <3>2. PICK x \in Int : x = Expansion(type) * Len(gap)
      BY <1>0 DEF Expansion
    <3>3. CASE m = 0
      BY <2>9, <3>1, <3>3
    <3>4. CASE m # 0
      <4>1. m \in 1..m
        BY <2>5, <3>4
      <4>2. PICK e \in Nat : e = last(m) /\ e <= Len(gap)
        BY <2>7, <4>1
      <4>3. room[m] = 2 * e
        BY <2>9, <4>1, <4>2
      <4> QED BY <1>0, <3>1, <3>2, <4>2, <4>3
    <3> QED BY <3>3, <3>4
  <2> QED BY <2>8, <2>11, <2>12 DEF words
<1> QED BY <1>1, <1>2

-----------------------------------------------------------------------------
(* What a loaded tokenizer is made of                                      *)

UpToN(I, n) == n \in Nat /\ I \subseteq 1..n

LEMMA KeptIsThere ==
    ASSUME NEW s, NEW n, NEW I, UpToN(I, n)
    PROVE  /\ DOMAIN Kept(s, I) = 1..Cardinality(I) /\ Cardinality(I) \in Nat
           /\ \A k \in DOMAIN Kept(s, I) : \E i \in I : Kept(s, I)[k] = s[i]
<1> DEFINE Below(m) == {j \in I : j <= m}
<1>0. n \in Nat /\ \A j \in I : j \in 1..n /\ j \in Nat /\ j <= n /\ ~(j <= 0)
  BY DEF UpToN
<1>1. IsFiniteSet(I) /\ Cardinality(I) \in Nat
  <2>1. IsFiniteSet(1..n)
    BY <1>0, FS_Interval
  <2> QED BY <2>1, FS_Subset, FS_CardinalityType DEF UpToN
<1>2. DOMAIN Kept(s, I) = 1..Cardinality(I)
  BY DEF Kept
<1>3. \A m : IsFiniteSet(Below(m)) /\ Cardinality(Below(m)) \in Nat
  <2>1. \A m : Below(m) \subseteq I
    OBVIOUS
  <2> HIDE DEF Below
  <2> QED BY <1>1, <2>1, FS_Subset, FS_CardinalityType
<1>4. ASSUME NEW k \in 1..Cardinality(I) PROVE \E i \in I : Kept(s, I)[k] = s[i]
  <2> DEFINE C == {m \in 0..n : Cardinality(Below(m)) >= k}
  <2>1. Below(n) = I /\ Below(0) = {}
    BY <1>0
  <2>2. n \in C /\ 0 \notin C
    <3>1. Cardinality(Below(0)) = 0
      BY <2>1, FS_EmptySet
    <3> HIDE DEF Below
    <3> QED BY <1>0, <1>1, <2>1, <3>1
  <2>3. PICK m \in C : \A j \in C : m <= j
    <3>1. C \in SUBSET (0..n) /\ C # {}
      BY <2>2
    <3> HIDE DEF C
    <3> QED BY <1>0, <3>1, Smallest
  <2>4. m \in 1..n /\ m - 1 \in 0..n /\ m - 1 \notin C
    <3>1. m \in 0..n /\ m # 0
      BY <2>2
    <3>2. m \in 1..n /\ m - 1 \in 0..n /\ ~(m <= m - 1)
      BY <1>0, <3>1
    <3> HIDE DEF C
    <3> QED BY <2>3, <3>2
  <2>5. PICK a \in Nat : a = Cardinality(Below(m)) /\ a >= k
    BY <1>3, <2>3
  <2>6. PICK b \in Nat : b = Cardinality(Below(m - 1)) /\ b < k
    <3>1. ~(Cardinality(Below(m - 1)) >= k)
      BY <2>4
    <3> HIDE DEF Below
    <3>2. PICK x \in Nat : x = Cardinality(Below(m - 1))
      BY <1>3
    <3> QED BY <3>1, <3>2
  <2>7. Below(m) = Below(m - 1) \cup (IF m \in I THEN {m} ELSE {}) /\ m \notin Below(m - 1)
    <3>1. \A j \in I : (j <= m) <=> (j <= m - 1 \/ j = m)
      BY <1>0, <2>4
    <3>2. ~(m <= m - 1)
      BY <1>0, <2>4
    <3> QED BY <3>1, <3>2
  <2>8. m \in I /\ a = k
    <3>1. CASE m \notin I
      <4>1. Below(m) = Below(m - 1)
        BY <2>7, <3>1
      <4> HIDE DEF Below
      <4> QED BY <2>5, <2>6, <4>1
    <3>2. CASE m \in I
      <4>1. Below(m) = Below(m - 1) \cup {m}
        BY <2>7, <3>2
      <4> HIDE DEF Below
      <4>2. a = b + 1
        BY <1>3, <2>5, <2>6, <2>7, <4>1, FS_AddElement
      <4> QED BY <2>5, <2>6, <3>2, <4>2
    <3> QED BY <3>1, <3>2
  <2>9. \E i \in I : Cardinality({j \in I : j <= i}) = k
    BY <2>5, <2>8
  <2>10. (CHOOSE i \in I : Cardinality({j \in I : j <= i}) = k) \in I
    BY <2>9
  <2>11. Kept(s, I)[k] = s[CHOOSE i \in I : Cardinality({j \in I : j <= i}) = k]
    BY DEF Kept
  <2> QED BY <2>10, <2>11
<1> QED BY <1>1, <1>2, <1>4

(* The members of a file that the encoding depends on.                     *)
Typed(f) ==
    /\ \A i \in DOMAIN f.added : f.added[i].content \in Text
    /\ \E n \in Nat : DOMAIN f.merges = 1..n
    /\ f.prefix \in Text

LEMMA FileTyped == ASSUME NEW d \in Directory PROVE Typed(FileOf(d))
<1>1. CASE d.tokenizer_json = "there"
  <2>1. d.json \in Json /\ FileOf(d) = d.json
    BY <1>1 DEF Directory, FileOf
  <2> DEFINE Member == [content : Text, id : Int, special : BOOLEAN]
  <2>2. d.json.added \in Seq(Member) /\ d.json.merges \in Seq(Pair) /\ d.json.prefix \in Text
    BY <2>1 DEF Json
  <2>3. \A x \in Member : x.content \in Text
    OBVIOUS
  <2> HIDE DEF Member
  <2>4. \A i \in DOMAIN d.json.added : d.json.added[i] \in Member
    BY <2>2
  <2>5. \E n \in Nat : DOMAIN d.json.merges = 1..n
    BY <2>2
  <2> QED BY <2>1, <2>2, <2>3, <2>4, <2>5 DEF Typed
<1>2. CASE d.tokenizer_json # "there"
  <2> DEFINE Line == [ignored : BOOLEAN, pair : Pair]
             names == BosNames \o EosNames \o ExtraNames
             known == {i \in DOMAIN names : Entries(d, names[i]) # {}}
             kept == {i \in DOMAIN d.lines : ~d.lines[i].ignored}
  <2>1. FileOf(d) = Legacy(d)
    BY <1>2 DEF FileOf
  <2>2. names \in Seq(Text)
    <3> HIDE DEF names
    <3>1. BosNames \in Seq(Text) /\ EosNames \in Seq(Text) /\ ExtraNames \in Seq(Text)
      BY NamesAssumption
    <3>2. BosNames \o EosNames \in Seq(Text)
      BY <3>1
    <3> QED BY <3>1, <3>2 DEF names
  <2> HIDE DEF names
  <2>3. Len(names) \in Nat /\ DOMAIN names = 1..Len(names) /\ \A i \in DOMAIN names : names[i] \in Text
    BY <2>2
  <2>4. UpToN(known, Len(names))
    BY <2>3 DEF UpToN
  <2>5. Named(d) = Kept(names, known)
    BY DEF Named, names
  <2>6. \A k \in DOMAIN Named(d) : Named(d)[k] \in Text
    <3>0. \A i \in known : i \in DOMAIN names
      OBVIOUS
    <3> HIDE DEF known
    <3>1. \A k \in DOMAIN Kept(names, known) : \E i \in known : Kept(names, known)[k] = names[i]
      BY <2>3, <2>4, KeptIsThere
    <3> QED BY <2>3, <2>5, <3>0, <3>1
  <2>7. \A i \in DOMAIN FileOf(d).added : FileOf(d).added[i].content \in Text
    <3>1. DOMAIN FileOf(d).added = DOMAIN Named(d)
      BY <2>1 DEF Legacy
    <3>2. \A i \in DOMAIN Named(d) : FileOf(d).added[i].content = Named(d)[i]
      BY <2>1 DEF Legacy
    <3> QED BY <2>6, <3>1, <3>2
  <2>8. d.lines \in Seq(Line)
    BY DEF Directory
  <2> HIDE DEF Line
  <2>9. Len(d.lines) \in Nat /\ DOMAIN d.lines = 1..Len(d.lines)
    BY <2>8
  <2>10. UpToN(kept, Len(d.lines))
    BY <2>9 DEF UpToN
  <2>11. DOMAIN FileOf(d).merges = DOMAIN Kept(d.lines, kept)
    BY <2>1 DEF Legacy
  <2>12. \E n \in Nat : DOMAIN FileOf(d).merges = 1..n
    <3> HIDE DEF kept
    <3> QED BY <2>9, <2>10, <2>11, KeptIsThere
  <2>13. FileOf(d).prefix \in Text
    <3>1. FileOf(d).prefix = <<35, 35>>
      BY <2>1 DEF Legacy
    <3>2. 35 \in Byte
      BY DEF Byte
    <3> QED BY <3>1, <3>2 DEF Text
  <2> QED BY <2>7, <2>12, <2>13 DEF Typed
<1> QED BY <1>1, <1>2

(* The ids are of S.                                                       *)
IdsIn(t, S) == t.unk_id \in S /\ {0, -1} \subseteq S /\ \A k \in DOMAIN t.vocab : t.vocab[k] \in S

Encodes(t) ==
    /\ \A k \in DOMAIN t.special_tokens : k \in Text /\ t.special_tokens[k] \in Int
    /\ \A pair \in DOMAIN t.merges : t.merges[pair] \in Nat
    /\ t.wp_prefix \in Text /\ t.norm_form \in {"NFC", "NFKC", "none"}
    /\ \E S : IdsIn(t, S)

LEMMA LoadedEncodes == ASSUME NEW d \in Directory, LoadsDir(d) PROVE Encodes(LoadDir(d))
<1> DEFINE f == FileOf(d)
           t == LoadDir(d)
<1>1. Listed(f) /\ AddedConsistent(f) /\ Typed(f)
  BY FileListed, FileTyped DEF LoadsDir, Accepted
<1>2. /\ t.vocab = Vocab(f) /\ t.special_tokens = SpecialTokens(f) /\ t.merges = Merges(f)
      /\ t.unk_id = UnkId(f) /\ t.wp_prefix = f.prefix /\ t.norm_form = NormForm(f.norm)
  BY DEF LoadDir, LoadJson
<1> HIDE DEF f, t
<1>3. \A k \in DOMAIN SpecialTokens(f) : k \in Text /\ SpecialTokens(f)[k] \in Int
  <2>1. Bounded(Added(f))
    BY <1>1 DEF Listed, Bounded, Added
  <2>2. \A k \in DOMAIN SpecialTokens(f) : \E i \in Added(f) :
            AddedContents(f)[i] = k /\ SpecialTokens(f)[k] = AddedIds(f)[i]
    BY <2>1, LastEntry DEF SpecialTokens
  <2>3. \A i \in Added(f) : /\ AddedContents(f)[i] = f.added[i].content
                            /\ AddedIds(f)[i] = f.added[i].id /\ i \in DOMAIN f.added
    BY DEF Added, AddedContents, AddedIds
  <2>4. \A i \in Added(f) : f.added[i].id \in Int
    <3>1. \A id : ValidId(id) => id \in Int
      BY NamesAssumption DEF ValidId
    <3> QED BY <1>1, <3>1 DEF AddedConsistent
  <2> QED BY <1>1, <2>2, <2>3, <2>4 DEF Typed
<1>4. \A pair \in DOMAIN Merges(f) : Merges(f)[pair] \in Nat
  <2> DEFINE I == {i \in DOMAIN f.merges : f.merges[i] # <<>>}
             rank == [i \in DOMAIN f.merges |-> i]
  <2>1. Bounded(I) /\ \A i \in I : i \in Nat /\ rank[i] = i
    BY <1>1 DEF Typed, Bounded
  <2>2. Merges(f) = MapOf(I, f.merges, rank)
    BY DEF Merges
  <2> HIDE DEF I, rank
  <2>3. \A k \in DOMAIN MapOf(I, f.merges, rank) :
            \E i \in I : f.merges[i] = k /\ MapOf(I, f.merges, rank)[k] = rank[i]
    BY <2>1, LastEntry
  <2> QED BY <2>1, <2>2, <2>3
<1>5. IdsIn(t, DOMAIN IdToToken(f) \cup {0, -1})
  BY <1>1, <1>2, ResolvedIds DEF IdsIn
<1>6. NormForm(f.norm) \in {"NFC", "NFKC", "none"}
  BY DEF NormForm
<1> QED BY <1>1, <1>2, <1>3, <1>4, <1>5, <1>6 DEF Encodes, Typed, t

-----------------------------------------------------------------------------
(* How many ids a text becomes                                             *)

(* A loop whose rounds give no more than they go on.                       *)
LEMMA ChainFlattens ==
    ASSUME NEW S, NEW n, n \in Nat, NEW item, NEW next, Forward(n, next),
           \A i \in 1..n : item[i] \in Seq(S) /\ Len(item[i]) <= next[i] - i
    PROVE  /\ FlattenSeq(Chain(n, item, next)) \in Seq(S)
           /\ Len(FlattenSeq(Chain(n, item, next))) <= n
<1> DEFINE c == Chain(n, item, next)
           m == Len(c)
<1>1. PICK at :
          /\ m \in 0..n /\ c = [k \in 1..m |-> c[k]]
          /\ at[1] = 1 /\ at[m + 1] = n + 1
          /\ \A k \in 1..m : /\ at[k] \in 1..n /\ at[k + 1] = next[at[k]]
                             /\ c[k] = item[at[k]]
  BY ChainItems
<1> HIDE DEF c
<1> DEFINE room == [k \in 0..m |-> at[k + 1] - 1]
           Q == Seq(S)
<1>2. m \in Nat
  BY <1>1
<1>3. \A k \in 1..m : c[k] \in Q
  BY <1>1
<1> HIDE DEF Q
<1>4. c \in Seq(Q)
  BY <1>1, <1>2, <1>3
<1>5. room[0] = 0 /\ room[m] = n /\ \A k \in 1..m : room[k] = at[k + 1] - 1 /\ room[k - 1] = at[k] - 1
  <2>1. /\ 0 \in 0..m /\ m \in 0..m /\ 0 + 1 = 1
        /\ \A k \in 1..m : k \in 0..m /\ k - 1 \in 0..m /\ (k - 1) + 1 = k
    BY <1>2
  <2>2. room[0] = at[0 + 1] - 1 /\ room[m] = at[m + 1] - 1
    BY <2>1
  <2>3. \A k \in 1..m : room[k] = at[k + 1] - 1 /\ room[k - 1] = at[(k - 1) + 1] - 1
    BY <2>1
  <2> HIDE DEF room
  <2> QED BY <1>1, <2>1, <2>2, <2>3
<1> HIDE DEF room
<1>6. ASSUME NEW k \in 1..m PROVE room[k] \in Nat /\ room[k - 1] + Len(c[k]) <= room[k]
  <2>1. PICK i \in 1..n : i = at[k]
    BY <1>1
  <2>2. PICK j \in (i + 1)..(n + 1) : j = next[i]
    BY DEF Forward
  <2>3. PICK w \in Nat : w = Len(c[k]) /\ w <= j - i
    <3>1. item[i] \in Seq(S) /\ Len(item[i]) <= j - i /\ c[k] = item[i]
      BY <1>1, <2>1, <2>2
    <3>2. Len(item[i]) \in Nat
      BY <3>1
    <3> QED BY <3>1, <3>2
  <2>4. room[k] = j - 1 /\ room[k - 1] = i - 1
    BY <1>1, <1>5, <2>1, <2>2
  <2>5. j - 1 \in Nat /\ (i - 1) + w <= j - 1
    <3>1. \A a \in 1..n : \A b \in (a + 1)..(n + 1) : \A v \in Nat :
             v <= b - a => b - 1 \in Nat /\ (a - 1) + v <= b - 1
      <4>1. n \in Nat
        OBVIOUS
      <4> QED BY ONLY <4>1
    <3>2. i \in 1..n /\ j \in (i + 1)..(n + 1) /\ w \in Nat /\ w <= j - i
      BY <2>1, <2>2, <2>3
    <3> QED BY ONLY <3>1, <3>2
  <2> QED BY <2>3, <2>4, <2>5
<1>7. Roomy(c, room)
  BY <1>5, <1>6 DEF Roomy
<1>8. FlattenSeq(c) \in Seq(S) /\ Len(FlattenSeq(c)) <= room[m]
  BY <1>4, <1>7, Flattened DEF Q
<1> QED BY <1>5, <1>8 DEF c

(* bpe_emit_symbol: no more than an id per byte.                           *)
LEMMA EmitFits ==
    ASSUME NEW S, NEW t, IdsIn(t, S), NEW symbol \in Text, symbol # <<>>
    PROVE  EmitSymbol(t, symbol) \in Seq(S) /\ Len(EmitSymbol(t, symbol)) <= Len(symbol)
<1> DEFINE ofByte(b) == IF FallbackToken(t.type, b) \in DOMAIN t.vocab
                        THEN <<t.vocab[FallbackToken(t.type, b)]>>
                        ELSE IF t.unk_id >= 0 THEN <<t.unk_id>> ELSE <<>>
           ss == [i \in DOMAIN symbol |-> ofByte(symbol[i])]
           Q == Seq(S)
<1>1. Len(symbol) \in Nat /\ Len(symbol) >= 1 /\ DOMAIN symbol = 1..Len(symbol)
  <2>1. symbol \in Seq(Byte)
    BY DEF Text
  <2> QED BY <2>1
<1>2. CASE symbol \in DOMAIN t.vocab
  <2>1. EmitSymbol(t, symbol) = <<t.vocab[symbol]>> /\ t.vocab[symbol] \in S
    BY <1>2 DEF EmitSymbol, IdsIn
  <2>2. <<t.vocab[symbol]>> \in Seq(S) /\ Len(<<t.vocab[symbol]>>) = 1
    BY <2>1
  <2> QED BY <1>1, <2>1, <2>2
<1>3. CASE symbol \notin DOMAIN t.vocab
  <2>1. EmitSymbol(t, symbol) = FlattenSeq(ss)
    BY <1>3 DEF EmitSymbol
  <2>2. \A b : ofByte(b) \in Q /\ Len(ofByte(b)) <= 1
    <3> SUFFICES ASSUME NEW b PROVE ofByte(b) \in Q /\ Len(ofByte(b)) <= 1
      OBVIOUS
    <3>1. t.unk_id \in S /\ (FallbackToken(t.type, b) \in DOMAIN t.vocab => t.vocab[FallbackToken(t.type, b)] \in S)
      BY DEF IdsIn
    <3>2. <<>> \in Q /\ Len(<<>>) <= 1 /\ \A x \in S : <<x>> \in Q /\ Len(<<x>>) <= 1
      OBVIOUS
    <3>3. CASE FallbackToken(t.type, b) \in DOMAIN t.vocab
      <4>1. ofByte(b) = <<t.vocab[FallbackToken(t.type, b)]>>
        BY <3>3
      <4> HIDE DEF Q, ofByte
      <4> QED BY <3>1, <3>2, <3>3, <4>1
    <3>4. CASE FallbackToken(t.type, b) \notin DOMAIN t.vocab
      <4>1. ofByte(b) = <<t.unk_id>> \/ ofByte(b) = <<>>
        BY <3>4
      <4> HIDE DEF Q, ofByte
      <4> QED BY <3>1, <3>2, <4>1
    <3> QED BY <3>3, <3>4
  <2> HIDE DEF ofByte
  <2>3. ss = [i \in 1..Len(symbol) |-> ss[i]] /\ \A i \in 1..Len(symbol) : ss[i] = ofByte(symbol[i])
    BY <1>1
  <2> HIDE DEF ss, Q
  <2>4. ss \in Seq(Q) /\ Len(ss) = Len(symbol)
    BY <1>1, <2>2, <2>3
  <2>5. \A i \in 1..Len(ss) : Len(ss[i]) <= 1
    BY <2>2, <2>3, <2>4
  <2>6. FlattenSeq(ss) \in Seq(S) /\ Len(FlattenSeq(ss)) <= 1 * Len(ss)
    BY <2>4, <2>5, Even DEF Q
  <2>7. 1 * Len(symbol) = Len(symbol)
    <3>1. \A x \in Nat : 1 * x = x
      OBVIOUS
    <3> QED BY <1>1, <3>1
  <2> QED BY <2>1, <2>4, <2>6, <2>7
<1> QED BY <1>2, <1>3

(* wp_emit_word: a piece is one byte of the word at least.                 *)
LEMMA PiecesFit ==
    ASSUME NEW S, NEW t, IdsIn(t, S), NEW word \in Text, word # <<>>, NEW unk \in S
    PROVE  WpEmitWord(t, word, unk) \in Seq(S) /\ Len(WpEmitWord(t, word, unk)) <= Len(word)
<1> DEFINE n == Len(word)
           ends(p) == {e \in p..n : /\ Key(t, word, p, e) \in DOMAIN t.vocab
                                    /\ e < n => ~Continuation(word[e + 1])}
           piece == [p \in DOMAIN word |->
                       IF ends(p) = {} THEN -1 ELSE t.vocab[Key(t, word, p, Max(ends(p)))]]
           next == [p \in DOMAIN word |-> IF ends(p) = {} THEN n + 1 ELSE Max(ends(p)) + 1]
           c == Chain(n, piece, next)
<1>1. n \in Nat /\ n >= 1 /\ DOMAIN word = 1..n
  <2>1. word \in Seq(Byte)
    BY DEF Text
  <2> QED BY <2>1
<1>2. WpEmitWord(t, word, unk) = IF -1 \in Range(c) THEN <<unk>> ELSE c
  BY DEF WpEmitWord
<1>3. ASSUME NEW p \in 1..n, ends(p) # {} PROVE Max(ends(p)) \in ends(p)
  <2>1. ends(p) \in SUBSET (0..n)
    BY <1>1
  <2> HIDE DEF ends
  <2>2. \E x \in ends(p) : \A y \in ends(p) : y <= x
    BY <1>1, <1>3, <2>1, Greatest
  <2>3. \E x \in ends(p) : \A y \in ends(p) : x >= y
    BY <2>1, <2>2
  <2> QED BY <2>3 DEF Max
<1>4. ASSUME NEW p \in 1..n PROVE piece[p] \in S /\ next[p] \in (p + 1)..(n + 1)
  <2>1. CASE ends(p) = {}
    <3>1. piece[p] = -1 /\ next[p] = n + 1
      BY <1>1, <2>1
    <3> HIDE DEF piece, next, n
    <3> QED BY <1>1, <3>1 DEF IdsIn
  <2>2. CASE ends(p) # {}
    <3>1. PICK e : e = Max(ends(p))
      OBVIOUS
    <3>2. e \in ends(p)
      BY <1>3, <2>2, <3>1
    <3>3. e \in p..n /\ Key(t, word, p, e) \in DOMAIN t.vocab
      BY <3>2
    <3>4. piece[p] = t.vocab[Key(t, word, p, e)] /\ next[p] = e + 1
      BY <1>1, <2>2, <3>1
    <3> HIDE DEF piece, next, n, ends
    <3> QED BY <1>1, <3>3, <3>4 DEF IdsIn
  <2> QED BY <2>1, <2>2
<1> HIDE DEF piece, next, n, ends
<1>5. Forward(n, next)
  BY <1>4 DEF Forward
<1>6. PICK at : /\ Len(c) \in 0..n /\ c = [k \in 1..Len(c) |-> c[k]]
                /\ \A k \in 1..Len(c) : at[k] \in 1..n /\ c[k] = piece[at[k]]
  BY <1>1, <1>5, ChainItems
<1>7. \A k \in 1..Len(c) : c[k] \in S
  BY <1>4, <1>6
<1> HIDE DEF c
<1>8. c \in Seq(S) /\ Len(c) <= n
  BY <1>1, <1>6, <1>7
<1>9. <<unk>> \in Seq(S) /\ Len(<<unk>>) <= n
  BY <1>1
<1> QED BY <1>2, <1>8, <1>9 DEF n

LEMMA LowerText == ASSUME NEW t \in Text PROVE Lower(t) \in Text /\ Len(Lower(t)) = Len(t)
<1>1. t \in Seq(Byte) /\ Len(t) \in Nat /\ DOMAIN t = 1..Len(t)
  BY DEF Text
<1>2. \A b \in Byte : Fold(b) \in Byte
  BY DEF Byte, Fold
<1>3. Lower(t) = [i \in 1..Len(t) |-> Lower(t)[i]] /\ \A i \in 1..Len(t) : Lower(t)[i] = Fold(t[i])
  BY <1>1 DEF Lower
<1> HIDE DEF Byte
<1>4. \A i \in 1..Len(t) : Lower(t)[i] \in Byte
  BY <1>1, <1>2, <1>3
<1>5. Lower(t) \in Seq(Byte) /\ Len(Lower(t)) = Len(t)
  BY <1>1, <1>3, <1>4
<1> QED BY <1>5 DEF Text

(* encode_wordpiece: no more than an id per byte of the text.              *)
LEMMA WordpieceFits ==
    ASSUME NEW S, NEW t, IdsIn(t, S), NEW given_text \in Text
    PROVE  EncodeWordpiece(t, given_text) \in Seq(S) /\ Len(EncodeWordpiece(t, given_text)) <= Len(given_text)
<1> DEFINE low == Lower(given_text)
           n == Len(low)
           unk == IF t.unk_id >= 0 THEN t.unk_id ELSE 0
           end == [i \in DOMAIN low |-> WpEnd(low, i)]
           part == [i \in DOMAIN low |->
                      IF low[i] \in WpSpace THEN <<>>
                      ELSE WpEmitWord(t, SubSeq(low, i, end[i] - 1), unk)]
<1>1. low \in Text /\ n = Len(given_text)
  BY LowerText
<1>2. n \in Nat /\ DOMAIN low = 1..n
  BY <1>1, TextBytes
<1>3. EncodeWordpiece(t, given_text) = FlattenSeq(Chain(n, part, end))
  BY DEF EncodeWordpiece
<1>4. unk \in S
  BY DEF IdsIn
<1> HIDE DEF low, unk
<1>5. ASSUME NEW i \in 1..n PROVE end[i] = WpEnd(low, i) /\ end[i] \in (i + 1)..(n + 1)
  <2> DEFINE C == {j \in i..(n + 1) : j = n + 1 \/ low[j] \in WpSpace \cup WpPunct}
  <2>1. end[i] = WpEnd(low, i)
    BY <1>2
  <2>2. CASE low[i] \in WpSpace \cup WpPunct
    <3>1. WpEnd(low, i) = i + 1
      BY <2>2 DEF WpEnd
    <3> HIDE DEF end, n
    <3> QED BY <1>2, <2>1, <3>1
  <2>3. CASE low[i] \notin WpSpace \cup WpPunct
    <3>1. WpEnd(low, i) = Min(C)
      BY <2>3 DEF WpEnd
    <3>2. n + 1 \in C /\ n + 1 \in Nat /\ C \in SUBSET (0..(n + 1))
      BY <1>2
    <3>3. \A j \in C : j \in (i + 1)..(n + 1)
      <4>1. i # n + 1
        BY <1>2
      <4> HIDE DEF n
      <4>2. \A j \in C : j \in i..(n + 1) /\ j # i
        BY <2>3, <4>1
      <4> HIDE DEF C
      <4> QED BY <1>2, <4>2
    <3> HIDE DEF C, end, n
    <3>4. Min(C) \in C
      BY <3>2, Smallest
    <3> QED BY <2>1, <3>1, <3>3, <3>4
  <2> QED BY <2>2, <2>3, <2>1
<1>6. ASSUME NEW i \in 1..n PROVE part[i] \in Seq(S) /\ Len(part[i]) <= end[i] - i
  <2>1. PICK e \in (i + 1)..(n + 1) : e = end[i]
    BY <1>5
  <2>2. part[i] = IF low[i] \in WpSpace THEN <<>> ELSE WpEmitWord(t, SubSeq(low, i, e - 1), unk)
    BY <1>2, <2>1
  <2> HIDE DEF part, end
  <2>3. CASE low[i] \in WpSpace
    <3>1. part[i] = <<>>
      BY <2>2, <2>3
    <3>2. <<>> \in Seq(S) /\ Len(<<>>) = 0 /\ 0 <= e - i
      BY <1>2
    <3> QED BY <2>1, <3>1, <3>2
  <2>4. CASE low[i] \notin WpSpace
    <3> DEFINE word == SubSeq(low, i, e - 1)
    <3>1. i \in 1..(n + 1) /\ e - 1 \in (i - 1)..n /\ (e - 1) - i + 1 = e - i /\ e - i >= 1
      BY <1>2
    <3>2. word \in Text /\ Len(word) = e - i
      BY <1>1, <3>1, PartOf
    <3>3. word # <<>>
      <4> HIDE DEF word
      <4>1. Len(word) # 0
        BY <1>2, <3>1, <3>2
      <4> QED BY <4>1
    <3> HIDE DEF word
    <3>4. WpEmitWord(t, word, unk) \in Seq(S) /\ Len(WpEmitWord(t, word, unk)) <= Len(word)
      BY <1>4, <3>2, <3>3, PiecesFit
    <3> QED BY <2>1, <2>2, <2>4, <3>2, <3>4 DEF word
  <2> QED BY <2>3, <2>4
<1> HIDE DEF part, end, n
<1>7. Forward(n, end)
  BY <1>5 DEF Forward
<1>8. /\ FlattenSeq(Chain(n, part, end)) \in Seq(S)
      /\ Len(FlattenSeq(Chain(n, part, end))) <= n
  BY <1>2, <1>6, <1>7, ChainFlattens
<1> QED BY <1>1, <1>3, <1>8

(* Where a node's list goes on is behind it, whether it is live or not.    *)
Onward == \A i \in 1..N : nodes[i].next # 0 => nodes[i].next > i

(* The symbols of the list are its nodes' characters, one after the other. *)
LEMMA SymbolsFit ==
    ASSUME MergeInv, Onward, input \in Text, chars = Characters(input), nodes # <<>>,
           NEW S, NEW t, IdsIn(t, S)
    PROVE  IdsOf(t, Symbols) \in Seq(S) /\ Len(IdsOf(t, Symbols)) <= Len(input)
<1> DEFINE item == [i \in DOMAIN nodes |-> SliceOf(nodes, i)]
           next == [i \in DOMAIN nodes |-> IF nodes[i].next = 0 THEN Len(nodes) + 1 ELSE nodes[i].next]
           l == Len(input)
           c == Symbols
           m == Len(c)
<1>1. N \in Nat /\ DOMAIN nodes = 1..N /\ Len(nodes) = N /\ N >= 1 /\ l \in Nat
  <2>1. N \in Nat /\ DOMAIN nodes = 1..N
    BY Length DEF MergeInv
  <2>2. Len(nodes) = N /\ N # 0
    BY <2>1 DEF MergeInv, MergeTypeOK
  <2> QED BY <2>1, <2>2, TextBytes
<1>2. c = Chain(N, item, next)
  BY <1>1 DEF Symbols
<1>3. ASSUME NEW i \in 1..N PROVE /\ item[i] = SliceOf(nodes, i)
                                  /\ next[i] = IF nodes[i].next = 0 THEN N + 1 ELSE nodes[i].next
                                  /\ next[i] \in (i + 1)..(N + 1)
  <2>1. nodes[i].next \in 0..N
    BY DEF MergeInv, MergeTypeOK
  <2> QED BY <1>1, <2>1 DEF Onward
<1> HIDE DEF item, next, c, l
<1>4. Forward(N, next)
  BY <1>3 DEF Forward
<1>5. PICK at :
          /\ m \in 0..N /\ c = [k \in 1..m |-> c[k]]
          /\ at[1] = 1 /\ at[m + 1] = N + 1
          /\ \A k \in 1..m : /\ at[k] \in 1..N /\ at[k + 1] = next[at[k]]
                             /\ c[k] = item[at[k]]
  BY <1>1, <1>2, <1>4, ChainItems
<1>6. m \in Nat /\ m >= 1
  <2>1. m # 0
    BY <1>1, <1>5
  <2> QED BY <1>1, <1>5, <2>1
<1>7. \A k \in 1..m : at[k] \in Heads
  <2> DEFINE T == {d \in 0..(m - 1) : at[d + 1] \in Heads}
  <2>1. 0 \in T
    <3>1. 1 \in Heads
      BY <1>1, HeadsLive DEF MergeInv
    <3> QED BY <1>5, <1>6, <3>1
  <2>2. ASSUME NEW d \in 0..(m - 1 - 1), d \in T PROVE d + 1 \in T
    <3>1. PICK k \in 1..m : k = d + 1 /\ k + 1 \in 1..m
      BY <1>6
    <3>2. at[k] \in Heads /\ at[k] \in 1..N /\ at[k + 1] = next[at[k]] /\ at[k + 1] \in 1..N
      BY <1>5, <2>2, <3>1
    <3>3. nodes[at[k]].next # 0 /\ at[k + 1] = nodes[at[k]].next
      BY <1>1, <1>3, <3>2
    <3>4. at[k + 1] \in Heads
      BY <3>2, <3>3 DEF MergeInv, Linked
    <3>5. d + 1 \in 0..(m - 1) /\ (d + 1) + 1 = k + 1
      BY <1>6, <3>1
    <3> QED BY <3>4, <3>5
  <2>3. T = 0..(m - 1)
    <3>1. T \in SUBSET (0..(m - 1)) /\ m - 1 \in Nat
      BY <1>6
    <3> HIDE DEF T
    <3> QED BY <2>1, <2>2, <3>1, UpTo
  <2>4. ASSUME NEW k \in 1..m PROVE at[k] \in Heads
    <3>1. k - 1 \in 0..(m - 1) /\ (k - 1) + 1 = k
      BY <1>6
    <3>2. k - 1 \in T
      <4> HIDE DEF T
      <4> QED BY <2>3, <3>1
    <3> QED BY <3>1, <3>2
  <2> QED BY <2>4
<1>8. /\ chars[1].start = 1 /\ chars[N].end = l
      /\ \A k \in 1..N : chars[k].start \in 1..l /\ chars[k].end \in chars[k].start..l
      /\ \A k \in 1..(N - 1) : chars[k + 1].start = chars[k].end + 1
  <2>1. N = Len(Characters(input))
    BY DEF N
  <2>2. input # <<>>
    <3>1. Len(Characters(input)) \in 0..Len(input)
      BY CharactersCover
    <3>2. Len(input) >= 1
      BY <1>1, <2>1, <3>1 DEF l
    <3> QED BY <3>2
  <2> QED BY <2>1, <2>2, CharactersCover DEF l
<1>9. \A a \in 1..N, b \in 1..N : a <= b => chars[b].end \in chars[a].start..l
  <2>1. N = Len(Characters(input))
    BY DEF N
  <2> QED BY <1>1, <2>1, CharactersInOrder DEF l
<1> DEFINE last(k) == chars[at[k + 1] - 1].end
           room == [k \in 0..m |-> IF k = 0 THEN 0 ELSE last(k)]
           ss == [k \in DOMAIN c |-> EmitSymbol(t, c[k])]
           Q == Seq(S)
<1>10. ASSUME NEW k \in 1..m
       PROVE  /\ last(k) \in 1..l /\ chars[at[k]].start \in 1..last(k)
              /\ EmitSymbol(t, c[k]) \in Q
              /\ Len(EmitSymbol(t, c[k])) \in Nat
              /\ Len(EmitSymbol(t, c[k])) <= last(k) - chars[at[k]].start + 1
  <2>1. PICK a \in Heads : a = at[k]
    BY <1>7
  <2>2. a \in 1..N /\ next[a] \in (a + 1)..(N + 1) /\ at[k + 1] = next[a]
    BY <1>1, <1>3, <1>5, <2>1 DEF Heads
  <2>3. PICK b \in 1..N : b = next[a] - 1 /\ a <= b
    BY <1>1, <2>2
  <2>4. EndOf(a) = b
    BY <1>1, <1>3, <2>2, <2>3 DEF EndOf
  <2>5. nodes[a].start = chars[a].start /\ nodes[a].end = chars[b].end
    BY <2>1, <2>4 DEF MergeInv, Spans
  <2>6. PICK s \in 1..l : s = chars[a].start
    BY <1>8, <2>2
  <2>7. PICK e \in s..l : e = chars[b].end
    BY <1>9, <2>2, <2>3, <2>6
  <2>8. c[k] = SubSeq(input, s, e)
    BY <1>3, <1>5, <2>1, <2>2, <2>5, <2>6, <2>7 DEF SliceOf
  <2>9. last(k) = e /\ chars[at[k]].start = s
    BY <2>1, <2>2, <2>3, <2>6, <2>7
  <2>10. SubSeq(input, s, e) \in Text /\ Len(SubSeq(input, s, e)) = e - s + 1
    BY <1>1, PartOf DEF l
  <2>11. SubSeq(input, s, e) # <<>>
    <3>1. e - s + 1 # 0
      BY <1>1
    <3> QED BY <2>10, <3>1
  <2>12. EmitSymbol(t, c[k]) \in Seq(S) /\ Len(EmitSymbol(t, c[k])) <= e - s + 1
    BY <2>8, <2>10, <2>11, EmitFits
  <2> HIDE DEF last
  <2> QED BY <1>1, <2>9, <2>12
<1>11. DOMAIN c = 1..m
  BY <1>5
<1>12. ss = [k \in 1..m |-> ss[k]] /\ \A k \in 1..m : ss[k] = EmitSymbol(t, c[k])
  BY <1>11
<1>13. IdsOf(t, Symbols) = FlattenSeq(ss)
  BY DEF IdsOf, c
<1>14. room[0] = 0 /\ \A k \in 1..m : room[k] = last(k)
  <2> HIDE DEF last
  <2>1. 0 \in 0..m /\ \A k \in 1..m : k \in 0..m /\ k # 0
    BY <1>6
  <2> QED BY <2>1
<1> HIDE DEF ss, room, Q
<1>15. ss \in Seq(Q) /\ Len(ss) = m
  <2> HIDE DEF last
  <2> QED BY <1>6, <1>10, <1>12
<1>16. ASSUME NEW k \in 1..m PROVE room[k] \in Nat /\ room[k - 1] + Len(ss[k]) <= room[k]
  <2>1. PICK e \in 1..l : e = last(k)
    BY <1>10
  <2>2. PICK s \in 1..e : s = chars[at[k]].start
    BY <1>10, <2>1
  <2>3. PICK w \in Nat : w = Len(ss[k])
    BY <1>10, <1>12
  <2>4. w <= e - s + 1
    BY <1>10, <1>12, <2>1, <2>2, <2>3
  <2>5. room[k] = e
    BY <1>14, <2>1
  <2>6. room[k - 1] = s - 1
    <3>1. CASE k = 1
      <4>1. s = 1
        BY <1>5, <1>8, <2>2, <3>1
      <4> QED BY <1>14, <3>1, <4>1
    <3>2. CASE k # 1
      <4>1. PICK j \in 1..m : j = k - 1 /\ j + 1 = k
        BY <1>6, <3>2
      <4>2. PICK a \in 1..N : a = at[k]
        BY <1>5
      <4>3. at[j] \in 1..N /\ a = next[at[j]]
        BY <1>5, <4>1, <4>2
      <4>4. PICK i \in 1..N : i = at[j]
        BY <4>3
      <4>5. a \in (i + 1)..(N + 1)
        BY <1>3, <4>3, <4>4
      <4>6. PICK p \in 1..(N - 1) : p = a - 1 /\ p + 1 = a
        BY <1>1, <4>5
      <4>7. chars[p + 1].start = chars[p].end + 1 /\ last(j) = chars[p].end
        BY <1>8, <4>1, <4>2, <4>6
      <4>8. PICK x \in Nat : x = last(j)
        <5>1. last(j) \in 1..l
          BY <1>10
        <5> HIDE DEF last
        <5> QED BY <1>1, <5>1
      <4>9. s = x + 1
        <5> HIDE DEF last
        <5> QED BY <2>2, <4>2, <4>6, <4>7, <4>8
      <4>10. room[k - 1] = x
        BY <1>14, <4>1, <4>8
      <4> QED BY <4>9, <4>10
    <3> QED BY <3>1, <3>2
  <2>7. e \in Nat /\ (s - 1) + w <= e
    BY <1>1, <2>4
  <2> QED BY <2>3, <2>5, <2>6, <2>7
<1>17. Roomy(ss, room)
  BY <1>14, <1>15, <1>16 DEF Roomy
<1>18. FlattenSeq(ss) \in Seq(S) /\ Len(FlattenSeq(ss)) <= room[m]
  BY <1>15, <1>17, Flattened DEF Q
<1>19. room[m] = l
  <2>1. m \in 1..m /\ at[m + 1] - 1 = N
    BY <1>1, <1>5, <1>6
  <2>2. last(m) = l
    BY <1>8, <2>1
  <2> QED BY <1>14, <2>1, <2>2
<1> QED BY <1>13, <1>18, <1>19 DEF l

-----------------------------------------------------------------------------
(* The encoder                                                             *)

Item == [word : Text, special : Int]

(* The text and where its special tokens were found.                       *)
TextInv ==
    /\ Loaded /\ text \in Text /\ pos \in Nat \ {0}
    /\ \A k \in DOMAIN sites :
           /\ k \in Text /\ tok.special_tokens[k] \in Int
           /\ sites[k] \in Nat /\ (sites[k] # 0 => sites[k] + Len(k) <= Len(text) + 1)

(* There is a tokenizer when there is something to do for it. *)
Ready == pc \notin {"load", "refused"} => Encodes(tok)

(* What is still to be emitted, and the merging of its head.               *)
WordInv ==
    /\ todo \in Seq(Item) /\ MergeInv /\ Onward
    /\ nodes # <<>> => /\ todo # <<>> /\ Head(todo).special < 0
                       /\ input = Head(todo).word /\ chars = Characters(input)

(* There is room for the ids of each word that is still to be emitted,     *)
(* behind those that were.                                                 *)
RoomInv ==
    /\ cap \in Nat /\ used \in Nat
    /\ todo # <<>> => pc = "scan"
    /\ \E room : /\ room[0] = used /\ room[Len(todo)] <= cap
                 /\ \A i \in 0..Len(todo) : room[i] \in Nat
                 /\ \A i \in 1..Len(todo) : room[i - 1] + Len(todo[i].word) <= room[i]

LEMMA Found ==
    ASSUME NEW hay \in Text, NEW from \in Nat \ {0}, NEW key \in Text
    PROVE  LET at == FindSub(hay, from, key)
           IN  at \in Nat /\ (at # 0 => at >= from /\ at + Len(key) <= Len(hay) + 1)
<1> DEFINE I == {i \in from..(Len(hay) - Len(key) + 1) : SubSeq(hay, i, i + Len(key) - 1) = key}
           top == Len(hay) + 1
<1>1. Len(hay) \in Nat /\ Len(key) \in Nat
  BY TextBytes
<1>2. FindSub(hay, from, key) = IF I = {} THEN 0 ELSE Min(I)
  BY DEF FindSub
<1>3. \A i \in I : i \in Nat /\ i >= from /\ i + Len(key) <= top /\ i \in 0..top
  BY <1>1
<1> HIDE DEF I
<1>4. top \in Nat /\ I \in SUBSET (0..top)
  BY <1>1, <1>3
<1>5. I # {} => Min(I) \in I
  <2> HIDE DEF top
  <2> QED BY <1>4, Smallest
<1> QED BY <1>2, <1>3, <1>5

LEMMA NormalText ==
    ASSUME NEW form \in {"NFC", "NFKC", "none"}, NEW t \in Text PROVE Normal(form, t) \in Text
BY NormalAssumption DEF Normal

(* The cached sites are as good as new.                                    *)
LEMMA ProbedSites ==
    ASSUME TextInv, NEW k \in DOMAIN sites
    PROVE  /\ Probed(k) \in Nat
           /\ Probed(k) # 0 => Probed(k) >= pos /\ Probed(k) + Len(k) <= Len(text) + 1
<1>1. CASE sites[k] # 0 /\ sites[k] < pos
  BY <1>1, Found DEF Probed, TextInv
<1>2. CASE ~(sites[k] # 0 /\ sites[k] < pos)
  BY <1>2 DEF Probed, TextInv
<1> QED BY <1>1, <1>2

LEMMA LoadKeepsText == ASSUME TextInv, Load PROVE TextInv'
<1>1. CASE LoadsDir(dir)
  <2> DEFINE t == LoadDir(dir)
             normal == Normal(t.norm_form, text)
  <2>1. /\ tok' = t /\ text' = normal /\ pos' = pos /\ dir' = dir
        /\ sites' = IF parse_special
                    THEN [k \in DOMAIN t.special_tokens |-> FindSub(normal, 1, k)] ELSE <<>>
    BY <1>1 DEF Load
  <2>2. dir \in Directory /\ text \in Text
    BY DEF TextInv, Loaded
  <2>3. Encodes(t)
    BY <1>1, <2>2, LoadedEncodes
  <2> HIDE DEF t
  <2>4. normal \in Text
    <3>1. t.norm_form \in {"NFC", "NFKC", "none"}
      BY <2>3 DEF Encodes
    <3> QED BY <2>2, <3>1, NormalText
  <2>5. Loaded'
    BY <1>1, <2>1, <2>2 DEF Loaded, t
  <2> HIDE DEF normal
  <2>6. ASSUME NEW k \in DOMAIN sites'
        PROVE  /\ k \in Text /\ tok'.special_tokens[k] \in Int
               /\ sites'[k] \in Nat /\ (sites'[k] # 0 => sites'[k] + Len(k) <= Len(text') + 1)
    <3>1. CASE parse_special
      <4>1. k \in DOMAIN t.special_tokens /\ sites'[k] = FindSub(normal, 1, k)
        BY <2>1, <2>6, <3>1
      <4>2. k \in Text /\ t.special_tokens[k] \in Int
        BY <2>3, <4>1 DEF Encodes
      <4>3. FindSub(normal, 1, k) \in Nat
            /\ (FindSub(normal, 1, k) # 0 => FindSub(normal, 1, k) + Len(k) <= Len(normal) + 1)
        BY <2>4, <4>2, Found
      <4> QED BY <2>1, <4>1, <4>2, <4>3
    <3>2. CASE ~parse_special
      <4>1. sites' = <<>>
        BY <2>1, <3>2
      <4>2. DOMAIN sites' = {}
        BY <4>1
      <4> QED BY <2>6, <4>2
    <3> QED BY <3>1, <3>2
  <2> QED BY <2>1, <2>4, <2>5, <2>6 DEF TextInv
<1>2. CASE ~LoadsDir(dir)
  <2>1. UNCHANGED <<dir, tok, text, pos, sites>>
    BY <1>2 DEF Load
  <2> QED BY <2>1 DEF TextInv, Loaded
<1> QED BY <1>1, <1>2

(* One round of the scan: the gap before the next special token, or the    *)
(* rest, and the longest of the tokens there.                              *)
Ahead == {k \in DOMAIN sites : Probed(k) # 0}
First == Min({Probed(k) : k \in Ahead})
Here == {k \in Ahead : Probed(k) = First}
Best == CHOOSE k \in Here : \A l \in Here : Len(l) <= Len(k)
Gap == SubSeq(text, pos, (IF Ahead = {} THEN Len(text) + 1 ELSE First) - 1)

LEMMA ScanFinds ==
    ASSUME TextInv, pos <= Len(text)
    PROVE  /\ Gap \in Text
           /\ Ahead # {} => /\ Best \in DOMAIN sites /\ First + Len(Best) \in Nat \ {0}
                            /\ tok.special_tokens[Best] \in Int
<1>1. text \in Text /\ Len(text) \in Nat /\ pos \in Nat \ {0}
  BY TextBytes DEF TextInv
<1>2. CASE Ahead = {}
  <2>1. Gap = SubSeq(text, pos, Len(text))
    <3>1. Gap = SubSeq(text, pos, (Len(text) + 1) - 1) /\ (Len(text) + 1) - 1 = Len(text)
      BY <1>1, <1>2 DEF Gap
    <3> QED BY <3>1
  <2>2. pos \in 1..(Len(text) + 1) /\ Len(text) \in (pos - 1)..Len(text)
    BY <1>1
  <2> QED BY <1>1, <1>2, <2>1, <2>2, PartOf
<1>3. CASE Ahead # {}
  <2> DEFINE P == {Probed(k) : k \in Ahead}
             L == {Len(k) : k \in Here}
             top == Len(text) + 1
  <2>1. \A k \in Ahead : /\ k \in DOMAIN sites /\ k \in Text /\ Len(k) \in Nat
                         /\ Probed(k) \in Nat /\ Probed(k) # 0 /\ Probed(k) >= pos
                         /\ Probed(k) + Len(k) <= top
    BY ProbedSites, TextBytes DEF Ahead, TextInv
  <2>2. \A k \in Ahead : Probed(k) \in pos..top /\ Len(k) \in 0..top
    <3>1. \A x, y \in Nat : x # 0 /\ x >= pos /\ x + y <= top => x \in pos..top /\ y \in 0..top
      BY <1>1
    <3> QED BY <2>1, <3>1
  <2>3. First \in pos..top /\ Here # {}
    <3>1. P \in SUBSET (0..top) /\ P # {} /\ top \in Nat /\ P \subseteq pos..top
      <4>1. pos..top \subseteq 0..top
        BY <1>1
      <4> QED BY <1>1, <1>3, <2>2, <4>1
    <3>2. First = Min(P)
      BY DEF First
    <3>3. \A p \in P : \E k \in Ahead : p = Probed(k)
      OBVIOUS
    <3> HIDE DEF P, top
    <3>4. Min(P) \in P
      BY <3>1, Smallest
    <3> QED BY <3>1, <3>2, <3>3, <3>4 DEF Here
  <2>4. Best \in Here
    <3>1. L \in SUBSET (0..top) /\ L # {} /\ top \in Nat
      <4>1. \A k \in Here : Len(k) \in 0..top
        BY <2>2 DEF Here
      <4>2. top \in Nat
        BY <1>1
      <4> HIDE DEF top
      <4> QED BY <2>3, <4>1, <4>2
    <3>2. \A l \in L : \E k \in Here : l = Len(k)
      OBVIOUS
    <3>3. \A k \in Here : Len(k) \in L
      OBVIOUS
    <3> HIDE DEF L, top
    <3>4. \E x \in L : \A y \in L : y <= x
      BY <3>1, Greatest
    <3>5. \E k \in Here : \A l \in Here : Len(l) <= Len(k)
      BY <3>2, <3>3, <3>4
    <3> QED BY <3>5 DEF Best
  <2>5. Best \in DOMAIN sites /\ Len(Best) \in Nat /\ tok.special_tokens[Best] \in Int
    BY <2>1, <2>4 DEF Here, TextInv
  <2>6. Gap \in Text
    <3>1. Gap = SubSeq(text, pos, First - 1)
      BY <1>3 DEF Gap
    <3>2. pos \in 1..(Len(text) + 1) /\ First - 1 \in (pos - 1)..Len(text)
      BY <1>1, <2>3
    <3> QED BY <1>1, <3>1, <3>2, PartOf
  <2>7. First + Len(Best) \in Nat \ {0}
    BY <1>1, <2>3, <2>5
  <2> QED BY <1>3, <2>5, <2>6, <2>7
<1> QED BY <1>2, <1>3

LEMMA TextKept == ASSUME TextInv, [Next]_vars PROVE TextInv'
<1>1. CASE Load
  BY <1>1, LoadKeepsText
<1>2. CASE Scan
  <2>1. pos <= Len(text) /\ UNCHANGED <<dir, tok, text>>
    BY <1>2 DEF Scan
  <2>2. sites' = [k \in DOMAIN sites |-> Probed(k)]
    BY <1>2 DEF Scan
  <2>3. pos' = IF Ahead = {} THEN Len(text) + 1 ELSE First + Len(Best)
    BY <1>2 DEF Scan, Ahead, First, Here, Best
  <2>4. pos' \in Nat \ {0}
    <3>1. Len(text) + 1 \in Nat \ {0}
      BY TextBytes DEF TextInv
    <3> QED BY <2>1, <2>3, <3>1, ScanFinds
  <2>5. \A k \in DOMAIN sites' :
            /\ k \in Text /\ tok.special_tokens[k] \in Int
            /\ sites'[k] \in Nat /\ (sites'[k] # 0 => sites'[k] + Len(k) <= Len(text) + 1)
    BY <2>2, ProbedSites DEF TextInv
  <2> QED BY <2>1, <2>4, <2>5 DEF TextInv, Loaded
<1>3. CASE UNCHANGED <<dir, tok, text, pos, sites>>
  BY <1>3 DEF TextInv, Loaded
<1>4. ~Load /\ ~Scan => UNCHANGED <<dir, tok, text, pos, sites>>
  BY DEF Next, vars, EncodeWhole, EmitSpecial, SplitWord, Merge, EmitWord, Encoded, Feed, Flush,
         DecodeWhole
<1> QED BY <1>1, <1>2, <1>3, <1>4

LEMMA ReadyKept == ASSUME TextInv, Ready, [Next]_vars PROVE Ready'
<1>1. CASE Load
  <2>1. CASE LoadsDir(dir)
    <3>1. tok' = LoadDir(dir)
      BY <1>1, <2>1 DEF Load
    <3>2. Encodes(LoadDir(dir))
      BY <2>1, LoadedEncodes DEF TextInv, Loaded
    <3> QED BY <3>1, <3>2 DEF Ready
  <2>2. CASE ~LoadsDir(dir)
    BY <1>1, <2>2 DEF Load, Ready
  <2> QED BY <2>1, <2>2
<1>2. CASE ~Load
  <2>1. tok' = tok /\ (pc' = pc \/ pc \in {"scan", "wordpiece", "decode"})
    BY <1>2 DEF Next, vars, EncodeWhole, Scan, EmitSpecial, SplitWord, Merge, EmitWord, Encoded, Feed,
                Flush, DecodeWhole
  <2> QED BY <2>1 DEF Ready
<1> QED BY <1>1, <1>2

LEMMA FirstOnward == ASSUME MergeInit PROVE Onward
<1>1. nodes = FirstNodes /\ N \in Nat /\ DOMAIN chars = 1..N
  BY FirstType, Length
<1>2. \A i \in 1..N : nodes[i].next = IF i < N THEN i + 1 ELSE 0
  BY <1>1 DEF FirstNodes, N
<1> QED BY <1>1, <1>2 DEF Onward

(* A word at the beginning of its merging, also in the next state.         *)
LEMMA Begins == (MergeInit => MergeInv /\ Onward /\ Heads = 1..N /\ DOMAIN chars = 1..N)'
<1>1. MergeInit => MergeInv /\ Onward /\ Heads = 1..N /\ DOMAIN chars = 1..N
  BY FirstInv, FirstOnward, FirstType, Length
<1> QED BY <1>1, PTL

LEMMA StepOnward == ASSUME MergeInv, Onward, [MergeStep]_mergevars PROVE Onward'
<1>1. CASE UNCHANGED <<nodes, chars>>
  BY <1>1 DEF Onward, N
<1>2. ASSUME NEW c \in heap, Fresh(c), \A d \in heap : ~Less(d, c),
             nodes' = Merged(c), UNCHANGED given
      PROVE  Onward'
  <2>1. /\ c.left \in 1..N /\ c.right \in 1..N /\ c.left < c.right
        /\ nodes[c.right].next \in 0..N
        /\ nodes[c.right].next # 0 => nodes[c.right].next > c.right
    BY <1>2, PoppedPair
  <2>2. \A i \in 1..N : nodes'[i].next = IF i = c.left THEN nodes[c.right].next ELSE nodes[i].next
    BY <1>2, MergedNodes
  <2>3. N' = N /\ N \in Nat
    BY <1>2, Length DEF N, given, MergeInv
  <2> QED BY <2>1, <2>2, <2>3 DEF Onward
<1>3. CASE MergeStep
  <2>1. PICK c \in heap :
            /\ \A d \in heap : ~Less(d, c)
            /\ IF Fresh(c)
               THEN nodes' = Merged(c) /\ heap' = (heap \ {c}) \cup Pushed(Merged(c), c.left)
               ELSE heap' = heap \ {c} /\ UNCHANGED nodes
    BY <1>3 DEF MergeStep
  <2>2. UNCHANGED given
    BY <1>3 DEF MergeStep
  <2>3. CASE Fresh(c)
    BY <1>2, <2>1, <2>2, <2>3
  <2>4. CASE ~Fresh(c)
    BY <1>1, <2>1, <2>2, <2>4 DEF given
  <2> QED BY <2>3, <2>4
<1> QED BY <1>1, <1>3 DEF mergevars

(* bpe_merge begins with the word and the tokenizer's merges.              *)
LEMMA SplitBegins ==
    ASSUME Encodes(tok), NEW word \in Text, Split(word, Characters(word), tok.merges)
    PROVE  MergeInit'
<1>1. Characters(word) \in Seq([start : Nat, end : Nat, cp : Nat])
  BY CharactersCover
<1>2. chars' = Characters(word) /\ ranks' = tok.merges /\ nodes' = FirstNodes' /\ heap' = Seeds(FirstNodes)'
  BY DEF Split
<1>3. \A pair \in DOMAIN ranks' : ranks'[pair] \in Nat
  BY <1>2 DEF Encodes
<1> QED BY <1>1, <1>2, <1>3 DEF MergeInit

(* When a word has been emitted there is none to merge.                    *)
LEMMA EmittedWord ==
    ASSUME EmitWord PROVE MergeInit' /\ nodes' = <<>>
<1>1. nodes' = <<>> /\ chars' = <<>> /\ ranks' = <<>> /\ heap' = {}
  BY DEF EmitWord
<1>2. DOMAIN chars' = {} /\ Len(chars') = 0 /\ DOMAIN ranks' = {}
  BY <1>1
<1>3. FirstNodes' = <<>>
  BY <1>2 DEF FirstNodes
<1>4. Seeds(FirstNodes)' = {}
  <2>1. 1..(Len(chars') - 1) = {}
    BY <1>2
  <2> QED BY <2>1 DEF Seeds
<1>5. chars' \in Seq([start : Nat, end : Nat, cp : Nat])
  <2> DEFINE Character == [start : Nat, end : Nat, cp : Nat]
  <2>1. chars' \in Seq(Character)
    <3> HIDE DEF Character
    <3> QED BY <1>1
  <2> QED BY <2>1
<1> QED BY <1>1, <1>2, <1>3, <1>4, <1>5 DEF MergeInit

(* The words of a round of the scan, and their room.                       *)
LEMMA ScanWords ==
    ASSUME TextInv, RoomInv, Scan
    PROVE  LET words == IF Gap = <<>> THEN <<>> ELSE Words(tok.type, Gap)
           IN  /\ words \in Seq(Text) /\ cap' \in Nat
               /\ \E room : Roomy(words, room) /\ room[Len(words)] <= cap'
<1> DEFINE need == Expansion(tok.type) * Len(Gap)
<1>1. Gap \in Text /\ Len(Gap) \in Nat /\ cap \in Nat
  <2>1. pos <= Len(text)
    BY DEF Scan
  <2>2. Gap \in Text
    BY <2>1, ScanFinds
  <2> QED BY <2>2, TextBytes DEF RoomInv
<1>2. IF Gap = <<>> THEN UNCHANGED cap ELSE Reserve(need)
  BY DEF Scan, Ahead, First, Gap
<1>3. CASE Gap = <<>>
  <2> DEFINE room == [i \in 0..0 |-> 0]
  <2>1. <<>> \in Seq(Text) /\ Len(<<>>) = 0 /\ room[0] = 0
    OBVIOUS
  <2> HIDE DEF room
  <2>2. Roomy(<<>>, room)
    BY <2>1 DEF Roomy
  <2>3. cap' = cap
    BY <1>2, <1>3
  <2>4. \E r : Roomy(<<>>, r) /\ r[Len(<<>>)] <= cap'
    BY <1>1, <2>1, <2>2, <2>3
  <2> QED BY <1>1, <1>3, <2>1, <2>3, <2>4
<1>4. CASE Gap # <<>>
  <2>1. PICK n \in Nat : n = need
    <3>1. CASE Expansion(tok.type) = 2
      BY <1>1, <3>1
    <3>2. CASE Expansion(tok.type) = 3
      BY <1>1, <3>2
    <3> QED BY <3>1, <3>2 DEF Expansion
  <2>2. cap' = Max({cap, n, 1})
    BY <1>2, <1>4, <2>1 DEF Reserve
  <2>3. cap' \in Nat /\ cap' >= n
    BY <1>1, <2>2, Largest
  <2>4. Words(tok.type, Gap) \in Seq(Text)
    BY <1>1, <1>4, WordsFit
  <2>5. PICK room : /\ Roomy(Words(tok.type, Gap), room)
                    /\ room[Len(Words(tok.type, Gap))] <= need
    BY <1>1, <1>4, WordsFit
  <2> DEFINE words == Words(tok.type, Gap)
  <2> HIDE DEF words, need
  <2>6. words \in Seq(Text) /\ Roomy(words, room) /\ room[Len(words)] <= n
    BY <2>1, <2>4, <2>5 DEF words
  <2>7. room[Len(words)] \in Nat
    <3>1. Len(words) \in Nat
      BY <2>6
    <3>2. Len(words) = 0 \/ Len(words) \in 1..Len(words)
      BY <3>1
    <3> QED BY <2>6, <3>2 DEF Roomy
  <2>8. room[Len(words)] <= cap'
    BY <2>3, <2>6, <2>7
  <2> QED BY <1>4, <2>3, <2>6, <2>8 DEF words
<1> QED BY <1>3, <1>4

LEMMA ScanTodo ==
    ASSUME TextInv, RoomInv, Scan
    PROVE  todo' \in Seq(Item) /\ RoomInv'
<1> DEFINE words == IF Gap = <<>> THEN <<>> ELSE Words(tok.type, Gap)
           n == Len(words)
           heads == [i \in DOMAIN words |-> [word |-> words[i], special |-> -1]]
           tail == IF Ahead = {} THEN <<>>
                   ELSE <<[word |-> <<>>, special |-> tok.special_tokens[Best]]>>
<1>1. words \in Seq(Text) /\ cap' \in Nat
  BY ScanWords
<1>2. PICK room : Roomy(words, room) /\ room[n] <= cap'
  BY ScanWords
<1>3. todo' = heads \o tail /\ used' = 0 /\ pc' = "scan"
  BY DEF Scan, Ahead, First, Here, Best, Gap
<1> HIDE DEF words
<1>4. n \in Nat /\ DOMAIN words = 1..n /\ \A i \in 1..n : words[i] \in Text /\ Len(words[i]) \in Nat
  BY <1>1, TextBytes
<1>5. heads \in Seq(Item) /\ Len(heads) = n /\ \A i \in 1..n : heads[i].word = words[i]
  <2>1. heads = [i \in 1..n |-> heads[i]]
    BY <1>4
  <2>2. \A i \in 1..n : heads[i] = [word |-> words[i], special |-> -1]
    BY <1>4
  <2> HIDE DEF heads
  <2>3. \A i \in 1..n : heads[i] \in Item /\ heads[i].word = words[i]
    <3>1. \A w \in Text : [word |-> w, special |-> -1] \in Item /\ [word |-> w, special |-> -1].word = w
      BY DEF Item
    <3> QED BY <1>4, <2>2, <3>1
  <2> QED BY <1>4, <2>1, <2>3
<1>6. tail \in Seq(Item) /\ Len(tail) \in 0..1 /\ (Len(tail) = 1 => tail[1].word = <<>>)
  <2>1. CASE Ahead = {}
    <3>1. tail = <<>>
      BY <2>1
    <3> HIDE DEF tail
    <3> QED BY <3>1
  <2>2. CASE Ahead # {}
    <3>1. pos <= Len(text)
      BY DEF Scan
    <3>2. PICK id \in Int : id = tok.special_tokens[Best]
      BY <2>2, <3>1, ScanFinds
    <3>3. tail = <<[word |-> <<>>, special |-> id]>>
      BY <2>2, <3>2
    <3>4. <<>> \in Text
      BY DEF Text
    <3>5. [word |-> <<>>, special |-> id] \in Item /\ [word |-> <<>>, special |-> id].word = <<>>
      BY <3>4 DEF Item
    <3> HIDE DEF tail
    <3>6. tail \in Seq(Item) /\ Len(tail) = 1 /\ tail[1] = [word |-> <<>>, special |-> id]
      BY <3>3, <3>5
    <3> QED BY <3>5, <3>6
  <2> QED BY <2>1, <2>2
<1> HIDE DEF heads, tail
<1> DEFINE l == n + Len(tail)
<1>7. /\ todo' \in Seq(Item) /\ Len(todo') = l /\ l \in Nat /\ n <= l /\ l <= n + 1
      /\ \A i \in 1..n : todo'[i].word = words[i]
      /\ \A i \in 1..l : i > n => todo'[i].word = <<>>
  <2>1. todo' \in Seq(Item) /\ Len(todo') = l
    BY <1>3, <1>5, <1>6
  <2>2. \A i \in 1..n : todo'[i] = heads[i]
    BY <1>3, <1>4, <1>5, <1>6
  <2>3. ASSUME NEW i \in 1..l, i > n PROVE todo'[i].word = <<>>
    <3>1. i = n + 1 /\ Len(tail) = 1
      <4>1. PICK t \in 0..1 : t = Len(tail) /\ l = n + t
        BY <1>6
      <4> HIDE DEF l, n
      <4>2. i \in 1..(n + t) /\ i > n
        BY <2>3, <4>1
      <4>3. \A a \in Nat, b \in 0..1 : \A c \in 1..(a + b) : c > a => c = a + 1 /\ b = 1
        OBVIOUS
      <4>4. n \in Nat
        BY <1>4
      <4> QED BY <4>1, <4>2, <4>3, <4>4
    <3>2. todo'[i] = tail[1]
      <4> HIDE DEF l, n
      <4>1. heads \in Seq(Item) /\ tail \in Seq(Item) /\ 1 \in 1..Len(tail)
        BY <1>5, <1>6, <3>1
      <4>2. (heads \o tail)[Len(heads) + 1] = tail[1]
        BY <4>1
      <4> QED BY <1>3, <1>5, <3>1, <4>2
    <3> QED BY <1>6, <3>1, <3>2
  <2>4. l \in Nat /\ n <= l /\ l <= n + 1
    <3>1. PICK t \in 0..1 : t = Len(tail) /\ l = n + t
      BY <1>6
    <3>2. \A a \in Nat, b \in 0..1 : a + b \in Nat /\ a <= a + b /\ a + b <= a + 1
      OBVIOUS
    <3>3. n \in Nat
      BY <1>4
    <3> HIDE DEF l, n
    <3> QED BY <3>1, <3>2, <3>3
  <2>5. \A i \in 1..n : todo'[i].word = words[i]
    BY <1>5, <2>2
  <2> HIDE DEF l, n
  <2> QED BY <2>1, <2>3, <2>4, <2>5
<1> HIDE DEF l, n
<1> DEFINE new == [i \in 0..l |-> room[IF i <= n THEN i ELSE n]]
<1>8. \A i \in 0..n : room[i] \in Nat
  <2>1. \A i \in 0..n : i = 0 \/ i \in 1..n
    BY <1>4
  <2> QED BY <1>2, <2>1 DEF Roomy, n
<1>9. \A i \in 0..l : new[i] = (IF i <= n THEN room[i] ELSE room[n]) /\ new[i] \in Nat
  <2>1. \A i \in 0..l : (i <= n => i \in 0..n) /\ n \in 0..n
    BY <1>4, <1>7
  <2> QED BY <1>8, <2>1
<1> HIDE DEF new
<1>10. new[0] = 0 /\ new[l] = room[n]
  <2>1. 0 \in 0..l /\ l \in 0..l /\ 0 <= n /\ (l <= n => l = n)
    BY <1>4, <1>7
  <2> QED BY <1>2, <1>9, <2>1 DEF Roomy
<1>11. ASSUME NEW i \in 1..l PROVE new[i - 1] + Len(todo'[i].word) <= new[i]
  <2>1. i \in 0..l /\ i - 1 \in 0..l
    BY <1>7
  <2>2. CASE i <= n
    <3>1. i \in 1..n /\ i - 1 <= n
      BY <1>4, <2>2
    <3>2. room[i - 1] + Len(words[i]) <= room[i]
      BY <1>2, <3>1 DEF Roomy, n
    <3> QED BY <1>7, <1>9, <2>1, <3>1, <3>2
  <2>3. CASE i > n
    <3>1. i - 1 = n /\ ~(i <= n) /\ i - 1 <= n
      BY <1>4, <1>7, <2>3
    <3>2. new[i - 1] = room[n] /\ new[i] = room[n] /\ room[n] \in Nat
      BY <1>4, <1>8, <1>9, <2>1, <3>1
    <3>3. todo'[i].word = <<>> /\ Len(<<>>) = 0
      BY <1>7, <2>3
    <3> QED BY <3>2, <3>3
  <2> QED BY <1>4, <2>2, <2>3
<1>12. RoomInv'
  <2>1. /\ new[0] = used' /\ new[Len(todo')] <= cap'
        /\ \A i \in 0..Len(todo') : new[i] \in Nat
        /\ \A i \in 1..Len(todo') : new[i - 1] + Len(todo'[i].word) <= new[i]
    BY <1>2, <1>3, <1>7, <1>9, <1>10, <1>11
  <2>2. used' \in Nat /\ (todo' # <<>> => pc' = "scan")
    BY <1>3
  <2> QED BY <1>1, <2>1, <2>2 DEF RoomInv
<1> QED BY <1>7, <1>12

LEMMA WordMerged ==
    ASSUME MergeInv, Onward, [MergeStep]_mergevars PROVE MergeInv' /\ Onward'
BY StepKeepsInv, StepOnward

LEMMA WordKept ==
    ASSUME TextInv, Ready, WordInv, RoomInv, [Next]_vars PROVE WordInv'
<1>1. CASE UNCHANGED <<mergevars, todo>>
  <2>1. MergeInv' /\ Onward'
    BY <1>1, WordMerged DEF WordInv
  <2> QED BY <1>1, <2>1 DEF WordInv, mergevars
<1>2. CASE Scan
  <2>1. todo' \in Seq(Item)
    BY <1>2, ScanTodo
  <2>2. nodes = <<>> /\ UNCHANGED mergevars
    BY <1>2 DEF Scan, WordInv, mergevars, given
  <2>3. MergeInv' /\ Onward'
    BY <2>2, WordMerged DEF WordInv
  <2> QED BY <2>1, <2>2, <2>3 DEF WordInv, mergevars
<1>3. CASE EmitSpecial
  <2>1. todo # <<>> /\ ~(Head(todo).special < 0) /\ todo' = Tail(todo) /\ UNCHANGED mergevars
    <3>1. todo # <<>> /\ Head(todo).special >= 0 /\ todo' = Tail(todo) /\ UNCHANGED mergevars
      BY <1>3 DEF EmitSpecial, mergevars, given
    <3>2. Head(todo) \in Item
      BY <3>1 DEF WordInv
    <3>3. Head(todo).special \in Int
      BY <3>2 DEF Item
    <3> QED BY <3>1, <3>3
  <2>2. MergeInv' /\ Onward'
    BY <2>1, WordMerged DEF WordInv
  <2>3. todo' \in Seq(Item)
    BY <2>1 DEF WordInv
  <2> QED BY <2>1, <2>2, <2>3 DEF WordInv, mergevars
<1>4. CASE SplitWord
  <2> DEFINE word == Head(todo).word
  <2>1. /\ pc = "scan" /\ todo # <<>> /\ Head(todo).special < 0 /\ todo' = todo
        /\ Split(word, Characters(word), tok.merges)
    BY <1>4 DEF SplitWord
  <2>2. word \in Text
    <3>1. Head(todo) \in Item
      BY <2>1 DEF WordInv
    <3> QED BY <3>1 DEF Item
  <2> HIDE DEF word
  <2>3. MergeInit'
    BY <2>1, <2>2, SplitBegins DEF Ready
  <2>4. MergeInv' /\ Onward'
    BY <2>3, Begins
  <2>5. input' = word /\ chars' = Characters(word)
    BY <2>1 DEF Split
  <2> QED BY <2>1, <2>4, <2>5 DEF WordInv, word
<1>5. CASE Merge
  <2>1. MergeStep /\ UNCHANGED <<todo, given>> /\ nodes # <<>>
    <3>1. MergeStep /\ todo' = todo
      BY <1>5 DEF Merge
    <3>2. PICK c \in heap : TRUE
      BY <3>1 DEF MergeStep
    <3>3. c.left \in DOMAIN nodes
      BY Length DEF WordInv, MergeInv, MergeTypeOK
    <3>4. nodes # <<>>
      BY <3>3
    <3> QED BY <3>1, <3>4 DEF MergeStep
  <2>2. MergeInv' /\ Onward'
    BY <2>1, WordMerged DEF WordInv
  <2> QED BY <2>1, <2>2 DEF WordInv, given
<1>6. CASE EmitWord
  <2>1. MergeInit' /\ nodes' = <<>>
    BY <1>6, EmittedWord
  <2>2. MergeInv' /\ Onward'
    BY <2>1, Begins
  <2>3. nodes # <<>> /\ todo' = Tail(todo)
    BY <1>6 DEF EmitWord
  <2>4. todo' \in Seq(Item)
    BY <2>3 DEF WordInv
  <2> QED BY <2>1, <2>2, <2>4 DEF WordInv
<1>7. Load \/ EncodeWhole \/ Encoded \/ Feed \/ Flush \/ DecodeWhole \/ UNCHANGED vars
          => UNCHANGED <<mergevars, todo>>
  BY DEF vars, mergevars, given, Load, EncodeWhole, Encoded, Feed, Flush, DecodeWhole
<1> QED BY <1>1, <1>2, <1>3, <1>4, <1>5, <1>6, <1>7 DEF Next

LEMMA TailRoom ==
    ASSUME RoomInv, todo \in Seq(Item), todo # <<>>, todo' = Tail(todo), cap' = cap, pc' = pc,
           used' \in Nat, used' <= used + Len(Head(todo).word)
    PROVE  RoomInv'
<1> DEFINE n == Len(todo)
<1>1. PICK room : /\ room[0] = used /\ room[n] <= cap
                  /\ \A i \in 0..n : room[i] \in Nat
                  /\ \A i \in 1..n : room[i - 1] + Len(todo[i].word) <= room[i]
  BY DEF RoomInv
<1>2. n \in Nat /\ n >= 1 /\ Len(todo') = n - 1 /\ \A i \in 1..(n - 1) : todo'[i] = todo[i + 1]
  <2>1. n \in Nat /\ n # 0
    OBVIOUS
  <2>2. Len(Tail(todo)) = n - 1 /\ \A i \in 1..(n - 1) : Tail(todo)[i] = todo[i + 1]
    BY <2>1
  <2> QED BY <2>1, <2>2
<1>3. Head(todo) = todo[1]
  OBVIOUS
<1> DEFINE new == [i \in 0..(n - 1) |-> IF i = 0 THEN used' ELSE room[i + 1]]
<1> HIDE DEF n
<1>4. new[0] = used' /\ \A i \in 1..(n - 1) : new[i] = room[i + 1]
  BY <1>2
<1> HIDE DEF new
<1>5. room[0] = used /\ room[1] \in Nat /\ used' <= room[1]
  <2>1. 1 \in 0..n /\ 1 \in 1..n /\ 1 - 1 = 0
    BY <1>2
  <2>2. room[0] + Len(todo[1].word) <= room[1] /\ room[1] \in Nat
    BY <1>1, <2>1
  <2>3. PICK w \in Nat : w = Len(todo[1].word)
    <3>1. todo[1] \in Item
      BY <2>1 DEF n
    <3>2. todo[1].word \in Text
      BY <3>1 DEF Item
    <3> QED BY <3>2, TextBytes
  <2>4. used \in Nat
    BY DEF RoomInv
  <2> QED BY <1>1, <1>3, <2>2, <2>3, <2>4
<1>6. \A i \in 0..(n - 1) : new[i] \in Nat
  <2>1. \A i \in 0..(n - 1) : i = 0 \/ (i \in 1..(n - 1) /\ i + 1 \in 0..n)
    BY <1>2
  <2> QED BY <1>1, <1>4, <2>1
<1>7. new[n - 1] <= cap
  <2>1. CASE n = 1
    <3>1. n - 1 = 0 /\ cap \in Nat
      BY <2>1 DEF RoomInv
    <3> QED BY <1>1, <1>4, <1>5, <2>1, <3>1
  <2>2. CASE n # 1
    <3>1. n - 1 \in 1..(n - 1) /\ (n - 1) + 1 = n
      BY <1>2, <2>2
    <3> QED BY <1>1, <1>4, <3>1
  <2> QED BY <2>1, <2>2
<1>8. ASSUME NEW i \in 1..(n - 1) PROVE new[i - 1] + Len(todo'[i].word) <= new[i]
  <2>1. i + 1 \in 1..n /\ (i + 1) - 1 = i
    BY <1>2
  <2>2. room[i] + Len(todo[i + 1].word) <= room[i + 1]
    BY <1>1, <2>1
  <2>3. todo'[i] = todo[i + 1] /\ new[i] = room[i + 1]
    BY <1>2, <1>4
  <2>4. CASE i = 1
    <3>1. i - 1 = 0
      BY <2>4
    <3>2. PICK w \in Nat : w = Len(todo[i + 1].word)
      <4>1. todo[i + 1] \in Item
        BY <2>1 DEF n
      <4>2. todo[i + 1].word \in Text
        BY <4>1 DEF Item
      <4> QED BY <4>2, TextBytes
    <3>3. PICK x \in Nat : x = room[1]
      BY <1>5
    <3>4. PICK y \in Nat : y = room[i + 1]
      <4>1. i + 1 \in 0..n
        BY <1>2
      <4> QED BY <1>1, <4>1
    <3>5. x + w <= y /\ used' <= x
      BY <1>5, <2>2, <2>4, <3>2, <3>3, <3>4
    <3>6. PICK u \in Nat : u = used'
      BY <1>1, <1>5
    <3>7. x + w <= y /\ u <= x
      BY <3>5, <3>6
    <3>8. \A a, b, c, d \in Nat : a + b <= c /\ d <= a => d + b <= c
      OBVIOUS
    <3>9. u + w <= y
      BY <3>7, <3>8
    <3> QED BY <1>4, <2>3, <3>1, <3>2, <3>4, <3>6, <3>9
  <2>5. CASE i # 1
    <3>1. PICK j \in 1..(n - 1) : j = i - 1 /\ j + 1 = i
      BY <1>2, <2>5
    <3>2. new[j] = room[i]
      BY <1>4, <3>1
    <3> QED BY <2>2, <2>3, <3>1, <3>2
  <2> QED BY <2>4, <2>5
<1>9. cap' \in Nat /\ (todo' # <<>> => pc' = "scan")
  BY DEF RoomInv
<1>10. /\ new[0] = used' /\ new[Len(todo')] <= cap'
       /\ \A i \in 0..Len(todo') : new[i] \in Nat
       /\ \A i \in 1..Len(todo') : new[i - 1] + Len(todo'[i].word) <= new[i]
  BY <1>2, <1>4, <1>6, <1>7, <1>8
<1> QED BY <1>9, <1>10 DEF RoomInv

LEMMA RoomKept ==
    ASSUME TextInv, Ready, WordInv, RoomInv, [Next]_vars PROVE RoomInv'
<1>1. CASE Scan
  BY <1>1, ScanTodo
<1>2. CASE EncodeWhole
  <2> DEFINE body == EncodeWordpiece(tok, text)
             need == Len(text) + Len(tok.wp_prefix)
  <2>1. pc = "wordpiece" /\ todo' = todo /\ pc' = "decode" /\ used' = Len(body) /\ Reserve(need)
    BY <1>2 DEF EncodeWhole
  <2>2. Encodes(tok) /\ text \in Text /\ cap \in Nat /\ todo = <<>>
    BY <2>1 DEF Ready, TextInv, RoomInv
  <2>3. PICK S : IdsIn(tok, S)
    BY <2>2 DEF Encodes
  <2>4. body \in Seq(S) /\ Len(body) <= Len(text)
    BY <2>2, <2>3, WordpieceFits
  <2>5. Len(body) \in Nat
    BY <2>4
  <2>6. PICK a \in Nat : a = Len(text)
    BY <2>2, TextBytes
  <2>7. PICK b \in Nat : b = Len(tok.wp_prefix)
    BY <2>2, TextBytes DEF Encodes
  <2>8. need = a + b /\ a + b \in Nat /\ a + b >= a
    BY <2>6, <2>7
  <2> HIDE DEF need, body
  <2>9. cap' \in Nat /\ cap' >= a + b
    BY <2>1, <2>2, <2>8, Largest DEF Reserve
  <2>10. used' \in Nat /\ used' <= cap'
    BY <2>1, <2>4, <2>5, <2>6, <2>8, <2>9
  <2> DEFINE new == [i \in 0..0 |-> used']
  <2>11. /\ new[0] = used' /\ new[Len(todo')] <= cap'
         /\ \A i \in 0..Len(todo') : new[i] \in Nat
         /\ \A i \in 1..Len(todo') : new[i - 1] + Len(todo'[i].word) <= new[i]
    <3>1. Len(todo') = 0 /\ 0 \in 0..0 /\ new[0] = used'
      BY <2>1, <2>2
    <3> HIDE DEF new
    <3> QED BY <2>10, <3>1
  <2> QED BY <2>1, <2>2, <2>9, <2>10, <2>11 DEF RoomInv
<1>3. CASE EmitSpecial
  <2>1. todo # <<>> /\ todo' = Tail(todo) /\ UNCHANGED <<cap, used, pc>>
    BY <1>3 DEF EmitSpecial
  <2>2. todo \in Seq(Item) /\ used \in Nat
    BY DEF WordInv, RoomInv
  <2>3. Len(Head(todo).word) \in Nat
    <3>1. Head(todo) \in Item
      BY <2>1, <2>2
    <3>2. Head(todo).word \in Text
      BY <3>1 DEF Item
    <3> QED BY <3>2, TextBytes
  <2>4. used' <= used + Len(Head(todo).word)
    BY <2>1, <2>2, <2>3
  <2> QED BY <2>1, <2>2, <2>4, TailRoom
<1>4. CASE EmitWord
  <2> DEFINE emitted == IdsOf(tok, Symbols)
  <2>1. nodes # <<>> /\ todo' = Tail(todo) /\ used' = used + Len(emitted) /\ UNCHANGED <<cap, pc>>
    BY <1>4 DEF EmitWord
  <2>2. todo \in Seq(Item) /\ used \in Nat /\ todo # <<>> /\ pc = "scan"
    BY <2>1 DEF WordInv, RoomInv
  <2>3. PICK S : IdsIn(tok, S)
    BY <2>2 DEF Ready, Encodes
  <2>4. input = Head(todo).word /\ chars = Characters(input) /\ input \in Text
    <3>1. Head(todo) \in Item
      BY <2>2
    <3>2. Head(todo).word \in Text
      BY <3>1 DEF Item
    <3> QED BY <2>1, <3>2 DEF WordInv
  <2>5. emitted \in Seq(S) /\ Len(emitted) <= Len(input)
    BY <2>1, <2>3, <2>4, SymbolsFit DEF WordInv
  <2>6. Len(emitted) \in Nat /\ Len(input) \in Nat
    BY <2>4, <2>5, TextBytes
  <2> HIDE DEF emitted
  <2>7. used' \in Nat /\ used' <= used + Len(Head(todo).word)
    BY <2>1, <2>2, <2>4, <2>5, <2>6
  <2> QED BY <2>1, <2>2, <2>7, TailRoom
<1>5. CASE UNCHANGED <<todo, cap, used>> /\ (todo # <<>> => pc' = pc)
  BY <1>5 DEF RoomInv
<1>6. ~Scan /\ ~EncodeWhole /\ ~EmitSpecial /\ ~EmitWord
          => UNCHANGED <<todo, cap, used>> /\ (todo # <<>> => pc' = pc)
  BY DEF RoomInv, Next, vars, Load, SplitWord, Merge, Encoded, Feed, Flush, DecodeWhole
<1> QED BY <1>1, <1>2, <1>3, <1>4, <1>5, <1>6

EncodeInv == TextInv /\ Ready /\ WordInv /\ RoomInv

LEMMA EncodeInvariant == Spec => []EncodeInv
<1>1. ASSUME Init PROVE EncodeInv
  <2>1. /\ dir \in Directory /\ text \in Text /\ tok = None /\ pos = 1 /\ sites = <<>> /\ todo = <<>>
        /\ pc = "load" /\ cap = 0 /\ used = 0
        /\ input = <<>> /\ chars = <<>> /\ ranks = <<>> /\ nodes = <<>> /\ heap = {}
    BY <1>1, InputsAssumption DEF Init
  <2>2. MergeInit
    <3>1. DOMAIN chars = {} /\ Len(chars) = 0 /\ DOMAIN ranks = {} /\ 1..(Len(chars) - 1) = {}
      BY <2>1
    <3>2. nodes = FirstNodes /\ heap = Seeds(FirstNodes)
      BY <2>1, <3>1 DEF FirstNodes, Seeds
    <3>3. chars \in Seq([start : Nat, end : Nat, cp : Nat])
      <4> DEFINE Character == [start : Nat, end : Nat, cp : Nat]
      <4>1. chars \in Seq(Character)
        <5> HIDE DEF Character
        <5> QED BY <2>1
      <4> QED BY <4>1
    <3> QED BY <3>1, <3>2, <3>3 DEF MergeInit
  <2>3. WordInv
    BY <2>1, <2>2, FirstInv, FirstOnward DEF WordInv
  <2>4. TextInv /\ Ready
    <3>1. DOMAIN sites = {}
      BY <2>1
    <3> QED BY <2>1, <3>1 DEF TextInv, Ready, Loaded
  <2> DEFINE new == [i \in 0..0 |-> 0]
  <2>5. new[0] = 0
    OBVIOUS
  <2> HIDE DEF new
  <2>6. Len(todo) = 0
    BY <2>1
  <2>7. /\ new[0] = used /\ new[Len(todo)] <= cap
        /\ \A i \in 0..Len(todo) : new[i] \in Nat
        /\ \A i \in 1..Len(todo) : new[i - 1] + Len(todo[i].word) <= new[i]
    BY <2>1, <2>5, <2>6
  <2>8. RoomInv
    BY <2>1, <2>7 DEF RoomInv
  <2> QED BY <2>3, <2>4, <2>8 DEF EncodeInv
<1>2. ASSUME EncodeInv, [Next]_vars PROVE EncodeInv'
  BY <1>2, TextKept, ReadyKept, WordKept, RoomKept DEF EncodeInv
<1>3. Init => EncodeInv
  BY <1>1
<1>4. EncodeInv /\ [Next]_vars => EncodeInv'
  BY <1>2
<1> QED BY <1>3, <1>4, PTL DEF Spec

(* tokenizer_encode_alloc: in each word of each gap, whatever the text and *)
(* the vocabulary, bpe_merge makes the merges of the naive scan in their   *)
(* order, and has none left when its heap is empty.                        *)
THEOREM WordsMergedNaively == Spec => MergesAreNaive
<1> DEFINE Step == IF nodes = <<>> THEN Heads' = DOMAIN chars'
                   ELSE nodes' # <<>> => [Naive!Join]_(Naive!vars)
<1>1. EncodeInv => NoneLeft
  BY RankedPairs DEF EncodeInv, WordInv, MergeInv, Seeded, NoneLeft
<1>2. ASSUME EncodeInv, [Next]_vars PROVE [Step]_<<nodes, heap>>
  <2>1. CASE SplitWord
    <3> DEFINE word == Head(todo).word
    <3>1. /\ pc = "scan" /\ todo # <<>> /\ nodes = <<>>
          /\ Split(word, Characters(word), tok.merges)
      BY <2>1 DEF SplitWord
    <3>2. word \in Text
      <4>1. Head(todo) \in Item
        BY <1>2, <3>1 DEF EncodeInv, WordInv
      <4> QED BY <4>1 DEF Item
    <3> HIDE DEF word
    <3>3. MergeInit'
      BY <1>2, <3>1, <3>2, SplitBegins DEF EncodeInv, Ready
    <3>4. Heads' = DOMAIN chars'
      BY <3>3, Begins
    <3> QED BY <3>1, <3>4
  <2>2. CASE Merge
    <3>1. MergeStep
      BY <2>2 DEF Merge
    <3>2. PICK c \in heap : TRUE
      BY <3>1 DEF MergeStep
    <3>3. c.left \in DOMAIN nodes
      BY <1>2, Length DEF EncodeInv, WordInv, MergeInv, MergeTypeOK
    <3>4. nodes # <<>>
      BY <3>3
    <3>5. [Naive!Join]_(Naive!vars)
      BY <1>2, <3>1, StepIsJoin DEF EncodeInv, WordInv
    <3> QED BY <3>4, <3>5
  <2>3. CASE EmitWord
    BY <2>3 DEF EmitWord
  <2>4. ~SplitWord /\ ~Merge /\ ~EmitWord => UNCHANGED <<nodes, heap>>
    BY <1>2 DEF Next, vars, Load, EncodeWhole, Scan, EmitSpecial, Encoded, Feed, Flush, DecodeWhole
  <2> QED BY <2>1, <2>2, <2>3, <2>4
<1>3. EncodeInv /\ [Next]_vars => [Step]_<<nodes, heap>>
  BY <1>2
<1> QED BY <1>1, <1>3, EncodeInvariant, PTL DEF Spec, MergesAreNaive

(* encode_scratch: the expanded words, the nodes, the candidates and the   *)
(* ids never outgrow what the encoders reserved for the segment.           *)
THEOREM ScratchIsEnough == Spec => []ScratchFits
<1>1. ASSUME EncodeInv PROVE ScratchFits
  <2> DEFINE n == Len(todo)
  <2>1. PICK room : /\ room[0] = used /\ room[n] <= cap
                    /\ \A i \in 0..n : room[i] \in Nat
                    /\ \A i \in 1..n : room[i - 1] + Len(todo[i].word) <= room[i]
    BY <1>1 DEF EncodeInv, RoomInv
  <2>2. todo \in Seq(Item) /\ n \in Nat /\ DOMAIN todo = 1..n /\ cap \in Nat /\ used \in Nat
    BY <1>1 DEF EncodeInv, RoomInv, WordInv
  <2>3. \A i \in 1..n : todo[i].word \in Text /\ Len(todo[i].word) \in Nat
    <3> SUFFICES ASSUME NEW i \in 1..n PROVE todo[i].word \in Text /\ Len(todo[i].word) \in Nat
      OBVIOUS
    <3>1. todo[i] \in Item
      BY <2>2
    <3>2. todo[i].word \in Text
      BY <3>1 DEF Item
    <3> QED BY <3>2, TextBytes
  <2> HIDE DEF n
  <2>4. \A i \in 0..n : \A j \in 0..i : room[j] <= room[i]
    <3> DEFINE T == {i \in 0..n : \A j \in 0..i : room[j] <= room[i]}
    <3>1. 0 \in T
      <4>1. 0 \in 0..n /\ \A j \in 0..0 : j = 0
        BY <2>2
      <4> QED BY <2>1, <4>1
    <3>2. ASSUME NEW i \in 0..(n - 1), i \in T PROVE i + 1 \in T
      <4>1. i + 1 \in 1..n /\ (i + 1) - 1 = i /\ i \in 0..n /\ i + 1 \in 0..n
        BY <2>2
      <4>2. PICK k \in 1..n : k = i + 1
        BY <4>1
      <4>3. room[i] <= room[k]
        <5>1. room[i] + Len(todo[k].word) <= room[k] /\ Len(todo[k].word) \in Nat
          BY <2>1, <2>3, <4>1, <4>2
        <5>2. room[i] \in Nat /\ room[k] \in Nat
          BY <2>1, <4>1, <4>2
        <5> QED BY <5>1, <5>2
      <4>4. \A j \in 0..k : j \in 0..i \/ j = k
        BY <4>2
      <4>5. \A j \in 0..i : room[j] <= room[i] /\ room[j] \in Nat
        <5>1. \A j \in 0..i : j \in 0..n
          <6>1. i \in Nat /\ n \in Nat /\ i <= n
            BY <2>2, <4>1
          <6> QED BY <6>1
        <5> QED BY <2>1, <3>2, <5>1
      <4>6. \A j \in 0..k : room[j] <= room[k]
        <5>1. room[i] \in Nat /\ room[k] \in Nat
          BY <2>1, <4>1, <4>2
        <5>2. \A a, b, c \in Nat : a <= b /\ b <= c => a <= c
          OBVIOUS
        <5> QED BY <4>3, <4>4, <4>5, <5>1, <5>2
      <4> QED BY <4>1, <4>2, <4>6
    <3>3. T = 0..n
      <4>1. T \in SUBSET (0..n)
        OBVIOUS
      <4> HIDE DEF T
      <4> QED BY <2>2, <3>1, <3>2, <4>1, UpTo
    <3> QED BY <3>3
  <2>5. \A i \in 0..n : room[i] \in Nat /\ room[i] <= cap
    <3>1. n \in 0..n /\ room[n] \in Nat
      BY <2>1, <2>2
    <3>2. \A i \in 0..n : room[i] \in Nat /\ room[i] <= room[n]
      BY <2>1, <2>4, <3>1
    <3>3. \A a, b, c \in Nat : a <= b /\ b <= c => a <= c
      OBVIOUS
    <3> QED BY <2>1, <2>2, <3>1, <3>2, <3>3
  <2>6. \A i \in DOMAIN todo : Len(todo[i].word) <= cap
    <3> SUFFICES ASSUME NEW i \in 1..n PROVE Len(todo[i].word) <= cap
      BY <2>2
    <3>1. i - 1 \in 0..n /\ i \in 0..n
      BY <2>2
    <3>2. PICK x \in Nat : x = room[i - 1]
      BY <2>5, <3>1
    <3>3. PICK y \in Nat : y = room[i] /\ y <= cap
      BY <2>5, <3>1
    <3>4. PICK w \in Nat : w = Len(todo[i].word)
      BY <2>3
    <3>5. x + w <= y
      BY <2>1, <3>2, <3>3, <3>4
    <3> QED BY <2>2, <3>3, <3>4, <3>5
  <2>7. used <= cap
    BY <2>1, <2>2, <2>5
  <2>8. MergeInv /\ N \in Nat /\ DOMAIN nodes = 1..N /\ Len(nodes) = N
    <3>1. MergeInv
      BY <1>1 DEF EncodeInv, WordInv
    <3>2. N \in Nat /\ DOMAIN nodes = 1..N
      BY <3>1, Length DEF MergeInv
    <3>3. MergeTypeOK
      BY <3>1 DEF MergeInv
    <3>4. Len(nodes) = N
      BY <3>2, <3>3 DEF MergeTypeOK
    <3> QED BY <3>1, <3>2, <3>4
  <2>9. N <= cap
    <3>1. CASE nodes = <<>>
      <4>1. N = 0
        BY <2>8, <3>1
      <4> QED BY <2>2, <4>1
    <3>2. CASE nodes # <<>>
      <4>1. todo # <<>> /\ input = Head(todo).word /\ chars = Characters(input)
        BY <1>1, <3>2 DEF EncodeInv, WordInv
      <4>2. n # 0 /\ Head(todo) = todo[1]
        BY <2>2, <4>1 DEF n
      <4>3. 1 \in 1..n
        BY <2>2, <4>2
      <4>4. input \in Text /\ Len(input) <= cap /\ Len(input) \in Nat
        BY <2>2, <2>3, <2>6, <4>1, <4>2, <4>3
      <4>5. N \in 0..Len(input)
        BY <4>1, <4>4, CharactersCover DEF N
      <4> QED BY <2>2, <2>8, <4>4, <4>5
    <3> QED BY <3>1, <3>2
  <2>10. Cardinality(heap) <= 3 * cap
    <3>1. CASE heap = {}
      BY <2>2, <3>1, FS_EmptySet
    <3>2. CASE heap # {}
      <4>1. IsFiniteSet(heap) /\ Cardinality(heap) + Cardinality(Heads) <= 2 * N - 1
        BY <2>8, <3>2 DEF MergeInv, Counted
      <4>2. IsFiniteSet(Heads)
        <5>1. IsFiniteSet(1..N) /\ Heads \subseteq 1..N
          BY <2>8, FS_Interval DEF Heads
        <5> QED BY <5>1, FS_Subset
      <4>3. PICK h \in Nat : h = Cardinality(heap)
        BY <4>1, FS_CardinalityType
      <4>4. PICK l \in Nat : l = Cardinality(Heads)
        BY <4>2, FS_CardinalityType
      <4>5. h + l <= 2 * N - 1
        BY <4>1, <4>3, <4>4
      <4>6. h <= 3 * cap
        BY <2>2, <2>8, <2>9, <4>5
      <4> QED BY <4>3, <4>6
    <3> QED BY <3>1, <3>2
  <2> QED BY <2>6, <2>7, <2>8, <2>9, <2>10 DEF ScratchFits
<1> QED BY <1>1, EncodeInvariant, PTL

-----------------------------------------------------------------------------
(* The symbols of a word, and those of the naive scan                      *)

(* Where a loop from i on comes: at[1], at[2], ... and last behind n.      *)
Path(at, m, i, n, next) ==
    /\ m \in Nat /\ at[1] = i /\ at[m + 1] = n + 1
    /\ \A k \in 1..m : at[k] \in 1..n /\ at[k + 1] = next[at[k]]

(* There is one way through a loop.                                        *)
LEMMA OnePath ==
    ASSUME NEW n, n \in Nat, NEW item, NEW next, Forward(n, next),
           NEW at, NEW m, Path(at, m, 1, n, next)
    PROVE  /\ Len(Chain(n, item, next)) = m
           /\ Chain(n, item, next) = [k \in 1..m |-> item[at[k]]]
<1> DEFINE c == Chain(n, item, next)
           l == Len(c)
<1>1. PICK to : /\ l \in 0..n /\ c = [k \in 1..l |-> c[k]]
                /\ to[1] = 1 /\ to[l + 1] = n + 1
                /\ \A k \in 1..l : /\ to[k] \in 1..n /\ to[k + 1] = next[to[k]]
                                   /\ c[k] = item[to[k]]
  BY ChainItems, SMTT(60)
<1> HIDE DEF c, l
<1>2. /\ m \in Nat /\ at[1] = 1 /\ at[m + 1] = n + 1
      /\ \A k \in 1..m : at[k] \in 1..n /\ at[k + 1] = next[at[k]]
  BY DEF Path
<1> DEFINE T == {k \in 0..n : k <= l /\ k <= m => at[k + 1] = to[k + 1]}
<1>3. 0 \in T
  <2>1. 0 \in 0..n /\ 0 + 1 = 1
    OBVIOUS
  <2> QED BY <1>1, <1>2, <2>1
<1>4. ASSUME NEW k \in 0..(n - 1), k \in T PROVE k + 1 \in T
  <2>1. k \in Nat /\ k + 1 \in 0..n /\ l \in Nat
    BY <1>1
  <2>2. PICK j \in 0..n : j = k + 1
    BY <2>1
  <2>3. ASSUME j <= l, j <= m PROVE at[j + 1] = to[j + 1]
    <3>1. k <= l /\ k <= m /\ j \in 1..l /\ j \in 1..m
      BY <1>2, <2>1, <2>2, <2>3
    <3>2. at[j] = to[j]
      BY <1>4, <2>2, <3>1
    <3> QED BY <1>1, <1>2, <3>1, <3>2
  <2> QED BY <2>2, <2>3
<1>5. \A k \in 0..n : k <= l /\ k <= m => at[k + 1] = to[k + 1]
  <2>1. T \in SUBSET (0..n)
    OBVIOUS
  <2> HIDE DEF T
  <2>2. T = 0..n
    BY <1>3, <1>4, <2>1, UpTo
  <2> QED BY <2>2 DEF T
<1>6. l = m
  <2>1. CASE l < m
    <3>1. l \in 0..n /\ l <= l /\ l <= m /\ l + 1 \in 1..m
      BY <1>1, <1>2, <2>1
    <3>2. at[l + 1] = n + 1
      BY <1>1, <1>5, <3>1
    <3>3. at[l + 1] \in 1..n
      BY <1>2, <3>1
    <3> QED BY <3>2, <3>3
  <2>2. CASE m < l
    <3>1. m \in 0..n /\ m <= m /\ m <= l /\ m + 1 \in 1..l
      BY <1>1, <1>2, <2>2
    <3>2. to[m + 1] = n + 1
      BY <1>2, <1>5, <3>1
    <3>3. to[m + 1] \in 1..n
      BY <1>1, <3>1
    <3> QED BY <3>2, <3>3
  <2>3. l \in Nat /\ m \in Nat
    BY <1>1, <1>2
  <2> QED BY <2>1, <2>2, <2>3
<1>7. \A k \in 1..l : at[k] = to[k]
  <2> SUFFICES ASSUME NEW k \in 1..l PROVE at[k] = to[k]
    OBVIOUS
  <2>1. PICK j \in 0..n : j + 1 = k /\ j <= l /\ j <= m
    <3>1. k - 1 \in 0..n /\ (k - 1) + 1 = k /\ k - 1 <= l /\ k - 1 <= m
      BY <1>1, <1>6
    <3> QED BY <3>1
  <2> QED BY <1>5, <2>1
<1>8. c = [k \in 1..m |-> item[at[k]]]
  BY <1>1, <1>6, <1>7
<1> QED BY <1>6, <1>8 DEF c, l

(* The symbols without the one at p + 1, which is joined to that at p.     *)
Without(s, m, p) ==
    [k \in 1..(m - 1) |-> IF k < p THEN s[k] ELSE IF k = p THEN s[p] \o s[p + 1] ELSE s[k + 1]]

LEMMA JoinAt ==
    ASSUME NEW table, \A pair \in DOMAIN table : table[pair] \in Nat,
           NEW m \in Nat, NEW s \in Seq(Text), Len(s) = m, NEW p \in 1..(m - 1),
           <<s[p], s[p + 1]>> \in DOMAIN table,
           \A j \in 1..(m - 1) :
               <<s[j], s[j + 1]>> \in DOMAIN table =>
                   \/ table[<<s[p], s[p + 1]>>] < table[<<s[j], s[j + 1]>>]
                   \/ table[<<s[p], s[p + 1]>>] = table[<<s[j], s[j + 1]>>] /\ p <= j
    PROVE  JoinLowest(table, s) = Without(s, m, p) /\ Without(s, m, p) \in Seq(Text)
<1> DEFINE pair(i) == <<s[i], s[i + 1]>>
           ranked == {i \in 1..(Len(s) - 1) : pair(i) \in DOMAIN table}
           lows == {table[pair(i)] : i \in ranked}
           lowest == Min(lows)
           ats == {i \in ranked : table[pair(i)] = lowest}
           at == Min(ats)
<1>1. p \in ranked /\ ranked \subseteq 1..(m - 1) /\ \A i \in ranked : pair(i) \in DOMAIN table
  OBVIOUS
<1>2. \A i \in ranked : /\ table[pair(i)] \in Nat
                        /\ table[pair(p)] <= table[pair(i)]
                        /\ table[pair(p)] = table[pair(i)] => p <= i
  <2> SUFFICES ASSUME NEW i \in ranked
               PROVE  /\ table[pair(i)] \in Nat
                      /\ table[pair(p)] <= table[pair(i)]
                      /\ table[pair(p)] = table[pair(i)] => p <= i
    OBVIOUS
  <2>1. PICK a \in Nat : a = table[pair(i)]
    BY <1>1
  <2>2. PICK b \in Nat : b = table[pair(p)]
    BY <1>1
  <2>3. b < a \/ (b = a /\ p <= i)
    BY <1>1, <2>1, <2>2
  <2>4. \A c, d \in Nat : c < d => c <= d /\ c # d
    OBVIOUS
  <2>5. \A c \in Nat : c <= c
    OBVIOUS
  <2> QED BY <2>1, <2>2, <2>3, <2>4, <2>5
<1> HIDE DEF ranked
<1>3. table[pair(p)] \in lows /\ \A x \in lows : x \in Nat /\ table[pair(p)] <= x
  BY <1>1, <1>2
<1> HIDE DEF lows
<1>4. lowest = table[pair(p)]
  <2>1. PICK a \in Nat : a = table[pair(p)]
    BY <1>3
  <2>2. a \in lows /\ \A x \in lows : x \in Nat /\ a <= x
    BY <1>3, <2>1
  <2>3. \A x \in lows : (\A y \in lows : x <= y) => x = a
    <3>1. \A x, y \in Nat : x <= y /\ y <= x => x = y
      OBVIOUS
    <3> QED BY <2>2, <3>1
  <2>4. lowest = a
    <3>1. lowest = CHOOSE x \in lows : \A y \in lows : x <= y
      BY DEF Min
    <3> QED BY <2>2, <2>3, <3>1
  <2> QED BY <2>1, <2>4
<1>5. p \in ats /\ \A i \in ats : i \in 1..(m - 1) /\ p <= i
  BY <1>1, <1>2, <1>4
<1> HIDE DEF ats, lowest
<1>6. at = p
  <2>1. \A x \in ats : (\A y \in ats : x <= y) => x = p
    BY <1>5
  <2>2. at = CHOOSE x \in ats : \A y \in ats : x <= y
    BY DEF Min
  <2> QED BY <1>5, <2>1, <2>2
<1>7. JoinLowest(table, s) = SubSeq(s, 1, p - 1) \o <<s[p] \o s[p + 1]>> \o SubSeq(s, p + 2, m)
  <2>1. ranked # {}
    BY <1>1
  <2>2. JoinLowest(table, s) = IF ranked = {} THEN s
                               ELSE SubSeq(s, 1, at - 1) \o <<s[at] \o s[at + 1]>> \o SubSeq(s, at + 2, Len(s))
    BY DEF JoinLowest, ranked, lows, ats, lowest
  <2> HIDE DEF at
  <2> QED BY <1>6, <2>1, <2>2
<1> DEFINE A == SubSeq(s, 1, p - 1)
           B == <<s[p] \o s[p + 1]>>
           C == SubSeq(s, p + 2, m)
           W == Without(s, m, p)
<1>8. A \in Seq(Text) /\ Len(A) = p - 1 /\ \A k \in 1..(p - 1) : A[k] = s[k]
  OBVIOUS
<1>9. B \in Seq(Text) /\ Len(B) = 1 /\ B[1] = s[p] \o s[p + 1]
  <2>1. s[p] \in Text /\ s[p + 1] \in Text
    <3>1. p \in 1..Len(s) /\ p + 1 \in 1..Len(s)
      OBVIOUS
    <3> QED BY <3>1
  <2>2. PICK x \in Text : x = s[p] \o s[p + 1]
    <3>1. s[p] \in Seq(Byte) /\ s[p + 1] \in Seq(Byte)
      BY <2>1 DEF Text
    <3>2. s[p] \o s[p + 1] \in Seq(Byte)
      BY <3>1, ConcatProperties
    <3> QED BY <3>2 DEF Text
  <2>3. <<x>> \in Seq(Text) /\ Len(<<x>>) = 1 /\ <<x>>[1] = x
    OBVIOUS
  <2> QED BY <2>2, <2>3
<1>10. C \in Seq(Text) /\ Len(C) = m - p - 1 /\ \A k \in 1..(m - p - 1) : C[k] = s[p + 1 + k]
  <2>1. p + 2 \in 1..(m + 1) /\ m \in Nat
    OBVIOUS
  <2>2. C \in Seq(Text) /\ Len(C) = m - (p + 2) + 1 /\ \A k \in 1..(m - (p + 2) + 1) : C[k] = s[(p + 2) + k - 1]
    BY <2>1
  <2>3. m - (p + 2) + 1 = m - p - 1 /\ \A k \in Int : (p + 2) + k - 1 = p + 1 + k
    OBVIOUS
  <2> QED BY <2>2, <2>3
<1> HIDE DEF A, B, C
<1> DEFINE D == A \o B
<1>11. D \in Seq(Text) /\ Len(D) = p /\ D[p] = B[1] /\ \A k \in 1..(p - 1) : D[k] = A[k]
  <2>1. /\ D \in Seq(Text) /\ Len(D) = Len(A) + Len(B)
        /\ \A i \in 1..(Len(A) + Len(B)) : D[i] = IF i <= Len(A) THEN A[i] ELSE B[i - Len(A)]
    BY <1>8, <1>9, ConcatProperties
  <2>2. Len(A) + Len(B) = p /\ p - Len(A) = 1 /\ p \in 1..p /\ ~(p <= Len(A))
        /\ \A k \in 1..(p - 1) : k \in 1..p /\ k <= Len(A)
    BY <1>8, <1>9
  <2> HIDE DEF D
  <2> QED BY <2>1, <2>2
<1> HIDE DEF D
<1>12. D \in Seq(Text) /\ Len(D) = p /\ D[p] = s[p] \o s[p + 1] /\ \A k \in 1..(p - 1) : D[k] = s[k]
  BY <1>8, <1>9, <1>11
<1> DEFINE E == D \o C
<1>13. /\ E \in Seq(Text) /\ Len(E) = m - 1
       /\ \A k \in 1..p : E[k] = D[k]
       /\ \A k \in 1..(m - p - 1) : E[p + k] = C[k]
  <2>1. /\ E \in Seq(Text) /\ Len(E) = Len(D) + Len(C)
        /\ \A i \in 1..(Len(D) + Len(C)) : E[i] = IF i <= Len(D) THEN D[i] ELSE C[i - Len(D)]
    BY <1>10, <1>12, ConcatProperties
  <2>2. Len(D) + Len(C) = m - 1 /\ (\A k \in 1..p : k \in 1..(m - 1) /\ k <= Len(D))
        /\ \A k \in 1..(m - p - 1) : p + k \in 1..(m - 1) /\ ~(p + k <= Len(D)) /\ (p + k) - Len(D) = k
    BY <1>10, <1>12
  <2> HIDE DEF E
  <2> QED BY <2>1, <2>2
<1> HIDE DEF E
<1>14. ASSUME NEW k \in 1..(m - 1) PROVE E[k] = IF k < p THEN s[k] ELSE IF k = p THEN s[p] \o s[p + 1] ELSE s[k + 1]
  <2>1. CASE k < p
    <3>1. k \in 1..p /\ k \in 1..(p - 1)
      BY <2>1
    <3> QED BY <1>12, <1>13, <2>1, <3>1
  <2>2. CASE k = p
    <3>1. k \in 1..p /\ ~(k < p)
      BY <2>2
    <3> QED BY <1>12, <1>13, <2>2, <3>1
  <2>3. CASE k > p
    <3>1. PICK j \in 1..(m - p - 1) : k = p + j /\ p + 1 + j = k + 1
      <4>1. k - p \in 1..(m - p - 1) /\ k = p + (k - p) /\ p + 1 + (k - p) = k + 1
        BY <2>3
      <4> QED BY <4>1
    <3>2. E[k] = s[k + 1]
      BY <1>10, <1>13, <3>1
    <3> QED BY <2>3, <3>2
  <2> QED BY <2>1, <2>2, <2>3
<1>15. DOMAIN E = 1..(m - 1) /\ E = [k \in DOMAIN E |-> E[k]]
  <2>1. E \in [1..Len(E) -> Text]
    BY <1>13, LenProperties
  <2> QED BY <1>13, <2>1
<1>16. E = W
  BY <1>14, <1>15 DEF Without
<1> QED BY <1>7, <1>13, <1>16 DEF A, B, C, D, E

(* The naive scan round by round, from the symbols first.                  *)
IsRounds(g, table, first, n) ==
    g = [k \in 0..n |-> IF k = 0 THEN first ELSE JoinLowest(table, g[k - 1])]

LEMMA RoundsExist ==
    ASSUME NEW table, NEW first, NEW n \in Nat
    PROVE  \E g : IsRounds(g, table, first, n)
<1> DEFINE T == {k \in 0..n : \E g : IsRounds(g, table, first, k)}
<1>1. 0 \in T
  <2> DEFINE g == [k \in 0..0 |-> first]
  <2>1. g = [k \in 0..0 |-> IF k = 0 THEN first ELSE JoinLowest(table, g[k - 1])]
    <3>1. \A k \in 0..0 : k = 0
      OBVIOUS
    <3> QED BY <3>1
  <2> HIDE DEF g
  <2>2. IsRounds(g, table, first, 0)
    BY <2>1 DEF IsRounds
  <2>3. 0 \in 0..n
    OBVIOUS
  <2> QED BY <2>2, <2>3
<1>2. ASSUME NEW k \in 0..(n - 1), k \in T PROVE k + 1 \in T
  <2>1. PICK g : IsRounds(g, table, first, k)
    BY <1>2
  <2>2. k \in Nat /\ k + 1 \in 0..n /\ (k + 1) - 1 = k
    OBVIOUS
  <2> DEFINE h == [j \in 0..(k + 1) |-> IF j = k + 1 THEN JoinLowest(table, g[k]) ELSE g[j]]
  <2>3. \A j \in 0..k : g[j] = IF j = 0 THEN first ELSE JoinLowest(table, g[j - 1])
    BY <2>1 DEF IsRounds
  <2>4. /\ h[k + 1] = JoinLowest(table, g[k])
        /\ \A j \in 0..k : h[j] = g[j]
        /\ h = [j \in 0..(k + 1) |-> h[j]]
    <3>1. k + 1 \in 0..(k + 1) /\ \A j \in 0..k : j \in 0..(k + 1) /\ j # k + 1
      BY <2>2
    <3> QED BY <3>1
  <2> HIDE DEF h
  <2>5. ASSUME NEW j \in 0..(k + 1) PROVE h[j] = IF j = 0 THEN first ELSE JoinLowest(table, h[j - 1])
    <3>1. CASE j = k + 1
      <4>1. j # 0 /\ j - 1 = k /\ k \in 0..k
        BY <2>2, <3>1
      <4> QED BY <2>4, <3>1, <4>1
    <3>2. CASE j # k + 1
      <4>1. j \in 0..k /\ (j # 0 => j - 1 \in 0..k)
        BY <2>2, <3>2
      <4> QED BY <2>3, <2>4, <4>1
    <3> QED BY <3>1, <3>2
  <2>6. h = [j \in 0..(k + 1) |-> IF j = 0 THEN first ELSE JoinLowest(table, h[j - 1])]
    BY <2>4, <2>5
  <2>7. IsRounds(h, table, first, k + 1)
    BY <2>6 DEF IsRounds
  <2> QED BY <2>2, <2>7
<1>3. n \in T
  <2>1. T \in SUBSET (0..n)
    OBVIOUS
  <2> HIDE DEF T
  <2>2. T = 0..n
    BY <1>1, <1>2, <2>1, UpTo
  <2> QED BY <2>2
<1> QED BY <1>3

Firsts(word) ==
    [i \in DOMAIN Characters(word) |-> SubSeq(word, Characters(word)[i].start, Characters(word)[i].end)]

LEMMA NaiveRounds ==
    ASSUME NEW table, NEW word, Len(Characters(word)) \in Nat
    PROVE  \E g : /\ IsRounds(g, table, Firsts(word), Len(Characters(word)))
                  /\ NaiveSymbols(table, word) = g[Len(Characters(word))]
<1> DEFINE g == CHOOSE h : IsRounds(h, table, Firsts(word), Len(Characters(word)))
<1>1. IsRounds(g, table, Firsts(word), Len(Characters(word)))
  BY RoundsExist
<1>2. NaiveSymbols(table, word) = g[Len(Characters(word))]
  BY DEF NaiveSymbols, IsRounds, Firsts
<1> QED BY <1>1, <1>2

(* The next node of the list, or what is behind the last.                  *)
Following == [i \in 1..N |-> IF nodes[i].next = 0 THEN N + 1 ELSE nodes[i].next]

(* The way along the list, which is m nodes long.                          *)
Along(at, m) ==
    /\ Path(at, m, 1, N, Following)
    /\ \A j \in 1..m : \A k \in 1..m : j < k => at[j] < at[k]
    /\ \A h \in Heads : \E k \in 1..m : at[k] = h

(* The list has the symbols of the naive scan after as many rounds as      *)
(* nodes are gone.                                                         *)
Scanned ==
    \E m \in 1..N : \E at :
        /\ Along(at, m)
        /\ \A g : IsRounds(g, ranks, Firsts(input), N) =>
                      g[N - m] = [k \in 1..m |-> SliceOf(nodes, at[k])]

LEMMA ScannedFirst ==
    ASSUME MergeInit, input \in Text, chars = Characters(input), nodes # <<>>
    PROVE  Scanned
<1> DEFINE at == [k \in 1..(N + 1) |-> k]
<1>1. /\ N \in Nat /\ DOMAIN chars = 1..N /\ DOMAIN nodes = 1..N /\ nodes = FirstNodes /\ Heads = 1..N
  BY FirstType, Length
<1>2. N >= 1
  <2>1. CASE N = 0
    <3>1. DOMAIN nodes = {}
      BY <1>1, <2>1
    <3>2. nodes \in [1..N -> [start : Nat, end : Nat, prev : 0..N, next : 0..N, ver : Nat]]
      BY FirstType DEF MergeTypeOK
    <3>3. nodes = <<>>
      BY <2>1, <3>2
    <3> QED BY <3>3
  <2> QED BY <1>1, <2>1
<1>3. \A i \in 1..N : /\ nodes[i].next = (IF i < N THEN i + 1 ELSE 0)
                      /\ nodes[i].start = chars[i].start /\ nodes[i].end = chars[i].end
  BY <1>1 DEF FirstNodes, N
<1>4. \A i \in 1..N : Following[i] = i + 1
  <2> SUFFICES ASSUME NEW i \in 1..N PROVE Following[i] = i + 1
    OBVIOUS
  <2>1. i + 1 # 0 /\ (~(i < N) => i = N)
    BY <1>1
  <2> QED BY <1>3, <2>1 DEF Following
<1>5. \A k \in 1..(N + 1) : at[k] = k
  OBVIOUS
<1> HIDE DEF at
<1>6. Path(at, N, 1, N, Following)
  <2>1. 1 \in 1..(N + 1) /\ N + 1 \in 1..(N + 1) /\ \A k \in 1..N : k \in 1..(N + 1) /\ k + 1 \in 1..(N + 1)
    BY <1>1
  <2> QED BY <1>1, <1>4, <1>5, <2>1 DEF Path
<1>7. \A k \in 1..N : at[k] = k
  <2>1. \A k \in 1..N : k \in 1..(N + 1)
    BY <1>1
  <2> QED BY <1>5, <2>1
<1>8. Along(at, N)
  BY <1>1, <1>6, <1>7 DEF Along
<1>9. ASSUME NEW g, IsRounds(g, ranks, Firsts(input), N)
      PROVE  g[N - N] = [k \in 1..N |-> SliceOf(nodes, at[k])]
  <2>1. g[0] = Firsts(input)
    <3>1. 0 \in 0..N
      BY <1>1
    <3> QED BY <1>9, <3>1 DEF IsRounds
  <2>2. \A k \in 1..N : SliceOf(nodes, at[k]) = SubSeq(input, chars[k].start, chars[k].end)
    BY <1>3, <1>7 DEF SliceOf
  <2>3. Firsts(input) = [k \in 1..N |-> SubSeq(input, chars[k].start, chars[k].end)]
    BY <1>1 DEF Firsts
  <2>4. N - N = 0
    BY <1>1
  <2> QED BY <2>1, <2>2, <2>3, <2>4
<1>10. N \in 1..N
  BY <1>1, <1>2
<1> QED BY <1>8, <1>9, <1>10 DEF Scanned

(* Where the symbols of the list are in the word.                          *)
LEMMA HeadSlice ==
    ASSUME MergeInv, input \in Text, chars = Characters(input), NEW h \in Heads
    PROVE  /\ nodes[h].start \in 1..Len(input) /\ nodes[h].end \in nodes[h].start..Len(input)
           /\ SliceOf(nodes, h) \in Text
           /\ nodes[h].next # 0 => nodes[nodes[h].next].start = nodes[h].end + 1
<1>1. /\ N \in Nat /\ h \in 1..N /\ nodes[h].next \in 0..N
      /\ nodes[h].next # 0 => nodes[h].next > h /\ nodes[h].next \in Heads
  BY Length DEF MergeInv, MergeTypeOK, Linked, Heads
<1>2. PICK e \in h..N : e = EndOf(h) /\ (nodes[h].next # 0 => e + 1 = nodes[h].next)
  <2>1. EndOf(h) \in h..N /\ (nodes[h].next # 0 => EndOf(h) + 1 = nodes[h].next)
    BY <1>1 DEF EndOf
  <2> QED BY <2>1
<1>3. nodes[h].start = chars[h].start /\ nodes[h].end = chars[e].end
  BY <1>2 DEF MergeInv, Spans
<1>4. chars[e].end \in chars[h].start..Len(input) /\ chars[h].start \in 1..Len(input)
  BY <1>1, <1>2, CharactersCover, CharactersInOrder DEF N
<1>5. Len(input) \in Nat
  BY TextBytes
<1>6. SliceOf(nodes, h) \in Text
  <2>1. PICK a \in 1..(Len(input) + 1) : a = nodes[h].start
    <3>1. chars[h].start \in 1..(Len(input) + 1)
      BY <1>4, <1>5
    <3> QED BY <1>3, <3>1
  <2>2. PICK b \in (a - 1)..Len(input) : b = nodes[h].end
    <3>1. chars[e].end \in (chars[h].start - 1)..Len(input)
      BY <1>4, <1>5
    <3> QED BY <1>3, <2>1, <3>1
  <2>3. SubSeq(input, a, b) \in Text
    BY PartOf
  <2> QED BY <2>1, <2>2, <2>3 DEF SliceOf
<1>7. ASSUME nodes[h].next # 0 PROVE nodes[nodes[h].next].start = nodes[h].end + 1
  <2>1. e \in 1..(N - 1) /\ e + 1 = nodes[h].next
    BY <1>1, <1>2, <1>7
  <2>2. chars[e + 1].start = chars[e].end + 1
    BY <2>1, CharactersCover DEF N
  <2>3. nodes[nodes[h].next].start = chars[nodes[h].next].start
    BY <1>1, <1>7 DEF MergeInv, Spans
  <2> QED BY <1>3, <2>1, <2>2, <2>3
<1> QED BY <1>3, <1>4, <1>6, <1>7

(* The symbol that a merge makes of two.                                   *)
LEMMA JoinedSlice ==
    ASSUME MergeInv, input \in Text, chars = Characters(input), NEW h \in Heads, nodes[h].next # 0
    PROVE  SubSeq(input, nodes[h].start, nodes[nodes[h].next].end)
             = SliceOf(nodes, h) \o SliceOf(nodes, nodes[h].next)
<1> DEFINE r == nodes[h].next
<1>1. r \in Heads
  BY DEF MergeInv, Linked
<1> HIDE DEF r
<1>2. PICK a \in Nat : a = nodes[h].start
  BY HeadSlice
<1>3. PICK b \in Nat : b = nodes[h].end
  BY HeadSlice, TextBytes
<1>4. PICK c \in Nat : c = nodes[r].end
  BY <1>1, HeadSlice, TextBytes
<1>5. a \in 1..Len(input) /\ b \in a..Len(input) /\ nodes[r].start = b + 1 /\ Len(input) \in Nat
  BY <1>2, <1>3, HeadSlice, TextBytes DEF r
<1>6. c \in (b + 1)..Len(input)
  BY <1>1, <1>4, <1>5, HeadSlice
<1>7. a \in 1..(Len(input) + 1) /\ b \in (a - 1)..Len(input) /\ c \in b..Len(input)
  BY <1>2, <1>3, <1>4, <1>5, <1>6
<1>8. input \in Seq(Byte)
  BY DEF Text
<1>9. SubSeq(input, a, b) \o SubSeq(input, b + 1, c) = SubSeq(input, a, c)
  BY <1>7, <1>8, ConcatAdjacentSubSeq
<1> QED BY <1>2, <1>3, <1>4, <1>5, <1>9 DEF SliceOf, r

(* The way along the list when a node has left it.                         *)
LEMMA AlongMerged ==
    ASSUME MergeInv, NEW c \in heap, Fresh(c), \A d \in heap : ~Less(d, c),
           nodes' = Merged(c), UNCHANGED given,
           NEW m \in 1..N, NEW at, Along(at, m), NEW p \in 1..m, at[p] = c.left
    PROVE  /\ p < m /\ at[p + 1] = c.right
           /\ Along([k \in 1..m |-> IF k <= p THEN at[k] ELSE at[k + 1]], m - 1)'
<1> DEFINE l == c.left
           r == c.right
           to == [k \in 1..m |-> IF k <= p THEN at[k] ELSE at[k + 1]]
<1>1. /\ l \in 1..N /\ r \in 1..N /\ l < r /\ l \in Heads /\ r \in Heads
      /\ nodes[l].next = r /\ nodes[r].next \in 0..N
  BY PoppedPair
<1>2. N \in Nat /\ N' = N /\ m \in Nat /\ m - 1 \in Nat /\ p \in Nat
  BY Length DEF MergeInv, N, given
<1>3. \A i \in 1..N : nodes'[i].next = IF i = l THEN nodes[r].next ELSE nodes[i].next
  BY MergedNodes
<1>4. /\ at[1] = 1 /\ at[m + 1] = N + 1
      /\ \A k \in 1..m : at[k] \in 1..N /\ at[k + 1] = Following[at[k]]
      /\ \A j \in 1..m : \A k \in 1..m : j < k => at[j] < at[k]
      /\ \A h \in Heads : \E k \in 1..m : at[k] = h
  BY DEF Along, Path
<1>5. Following[l] = r
  BY <1>1, <1>2 DEF Following
<1>6. p < m /\ at[p + 1] = r
  <2>1. at[p + 1] = r
    BY <1>4, <1>5
  <2>2. p # m
    BY <1>1, <1>2, <1>4, <2>1
  <2> QED BY <1>2, <2>1, <2>2
<1>7. Following'[l] = Following[r] /\ \A i \in 1..N : i # l => Following'[i] = Following[i]
  BY <1>1, <1>2, <1>3 DEF Following
<1>8. /\ \A k \in 1..p : to[k] = at[k]
      /\ \A k \in (p + 1)..m : to[k] = at[k + 1]
      /\ \A k \in 1..p : k \in 1..m
      /\ \A k \in (p + 1)..m : k \in 1..m
  BY <1>2
<1> HIDE DEF to
<1>9. ASSUME NEW k \in 1..(m - 1) PROVE to[k] \in 1..N /\ to[k + 1] = Following'[to[k]]
  <2>1. CASE k < p
    <3>1. k \in 1..p /\ k + 1 \in 1..p /\ k \in 1..m
      BY <1>2, <2>1
    <3>2. to[k] = at[k] /\ to[k + 1] = at[k + 1]
      BY <1>8, <3>1
    <3>3. at[k] \in 1..N /\ at[k] < at[p]
      BY <1>4, <2>1, <3>1
    <3>4. at[k] # l
      BY <1>1, <1>2, <3>3
    <3> QED BY <1>4, <1>7, <3>1, <3>2, <3>3, <3>4
  <2>2. CASE k = p
    <3>1. k \in 1..p /\ k + 1 \in (p + 1)..m /\ p + 1 \in 1..m
      BY <1>2, <1>6, <2>2
    <3>2. to[k] = l /\ to[k + 1] = at[(p + 1) + 1]
      BY <1>8, <2>2, <3>1
    <3>3. at[(p + 1) + 1] = Following[r]
      BY <1>4, <1>6, <3>1
    <3> QED BY <1>1, <1>7, <3>2, <3>3
  <2>3. CASE k > p
    <3>1. k \in (p + 1)..m /\ k + 1 \in (p + 1)..m /\ k + 1 \in 1..m
      BY <1>2, <2>3
    <3>2. to[k] = at[k + 1] /\ to[k + 1] = at[(k + 1) + 1]
      BY <1>8, <3>1
    <3>3. at[k + 1] \in 1..N /\ at[p] < at[k + 1] /\ at[(k + 1) + 1] = Following[at[k + 1]]
      <4>1. p < k + 1
        BY <1>2, <2>3
      <4> QED BY <1>4, <3>1, <4>1
    <3>4. at[k + 1] # l
      BY <1>1, <1>2, <3>3
    <3> QED BY <1>7, <3>2, <3>3, <3>4
  <2> QED BY <1>2, <2>1, <2>2, <2>3
<1>10. to[1] = 1 /\ to[(m - 1) + 1] = N + 1
  <2>1. 1 \in 1..p /\ m \in (p + 1)..m /\ (m - 1) + 1 = m
    BY <1>2, <1>6
  <2> QED BY <1>4, <1>8, <2>1
<1>11. ASSUME NEW j \in 1..(m - 1), NEW k \in 1..(m - 1), j < k PROVE to[j] < to[k]
  <2>1. CASE k <= p
    <3>1. j \in 1..p /\ k \in 1..p
      BY <1>2, <1>11, <2>1
    <3> QED BY <1>4, <1>8, <1>11, <3>1
  <2>2. CASE j <= p /\ k > p
    <3>1. j \in 1..p /\ k \in (p + 1)..m /\ k + 1 \in 1..m /\ j < k + 1
      BY <1>2, <1>11, <2>2
    <3> QED BY <1>4, <1>8, <3>1
  <2>3. CASE j > p
    <3>1. j \in (p + 1)..m /\ k \in (p + 1)..m /\ j + 1 \in 1..m /\ k + 1 \in 1..m /\ j + 1 < k + 1
      BY <1>2, <1>11, <2>3
    <3> QED BY <1>4, <1>8, <3>1
  <2> QED BY <1>2, <2>1, <2>2, <2>3
<1>12. ASSUME NEW h \in Heads' PROVE \E k \in 1..(m - 1) : to[k] = h
  <2>1. h \in Heads /\ h # r
    BY MergedHeads
  <2>2. PICK k \in 1..m : at[k] = h
    BY <1>4, <2>1
  <2>3. k # p + 1
    BY <1>6, <2>1, <2>2
  <2>4. CASE k <= p
    <3>1. k \in 1..p /\ k \in 1..(m - 1)
      BY <1>2, <1>6, <2>4
    <3> QED BY <1>8, <2>2, <3>1
  <2>5. CASE k > p
    <3>1. k - 1 \in (p + 1)..m /\ (k - 1) + 1 = k /\ k - 1 \in 1..(m - 1)
      BY <1>2, <2>3, <2>5
    <3> QED BY <1>8, <2>2, <3>1
  <2> QED BY <1>2, <2>4, <2>5
<1>13. Path(to, m - 1, 1, N', Following')
  BY <1>2, <1>9, <1>10 DEF Path
<1>14. Along(to, m - 1)'
  BY <1>11, <1>12, <1>13 DEF Along
<1> QED BY <1>6, <1>14 DEF to

(* The symbols along the list.                                             *)
SymbolsAlong(at, m) == [k \in 1..m |-> SliceOf(nodes, at[k])]

(* The pairs of neighbours along the list are those of its symbols.        *)
LEMMA SymbolPairs ==
    ASSUME MergeInv, input \in Text, chars = Characters(input), NEW m \in 1..N, NEW at, Along(at, m)
    PROVE  /\ SymbolsAlong(at, m) \in Seq(Text) /\ Len(SymbolsAlong(at, m)) = m
           /\ \A k \in 1..m : at[k] \in Heads /\ SymbolsAlong(at, m)[k] = SliceOf(nodes, at[k])
           /\ \A k \in 1..(m - 1) :
                  /\ nodes[at[k]].next # 0 /\ at[k + 1] = nodes[at[k]].next
                  /\ <<SymbolsAlong(at, m)[k], SymbolsAlong(at, m)[k + 1]>> = PairOf(at[k])
<1> DEFINE s == SymbolsAlong(at, m)
<1>1. N \in Nat /\ m \in Nat /\ DOMAIN nodes = 1..N
  BY Length DEF MergeInv
<1>2. /\ at[1] = 1 /\ at[m + 1] = N + 1
      /\ \A k \in 1..m : at[k] \in 1..N /\ at[k + 1] = Following[at[k]]
  BY DEF Along, Path
<1>3. \A k \in 1..(m - 1) : nodes[at[k]].next # 0 /\ at[k + 1] = nodes[at[k]].next
  <2> SUFFICES ASSUME NEW k \in 1..(m - 1)
               PROVE  nodes[at[k]].next # 0 /\ at[k + 1] = nodes[at[k]].next
    OBVIOUS
  <2>1. k \in 1..m /\ k + 1 \in 1..m
    BY <1>1
  <2>2. at[k + 1] # N + 1
    BY <1>1, <1>2, <2>1
  <2> QED BY <1>2, <2>1, <2>2 DEF Following
<1>4. \A k \in 0..(m - 1) : at[k + 1] \in Heads
  <2> DEFINE T == {k \in 0..(m - 1) : at[k + 1] \in Heads}
  <2>1. 0 \in T
    <3>1. 1 \in Heads
      <4>1. 1 \in 1..N
        BY <1>1, <1>2
      <4> QED BY <4>1, HeadsLive DEF MergeInv
    <3>2. 0 \in 0..(m - 1)
      BY <1>1
    <3> QED BY <1>2, <3>1, <3>2
  <2>2. ASSUME NEW k \in 0..((m - 1) - 1), k \in T PROVE k + 1 \in T
    <3>1. k + 1 \in 1..(m - 1) /\ k + 1 \in 0..(m - 1)
      BY <1>1
    <3>2. nodes[at[k + 1]].next # 0 /\ at[(k + 1) + 1] = nodes[at[k + 1]].next
      BY <1>3, <3>1
    <3>3. at[k + 1] \in Heads
      BY <2>2
    <3>4. at[(k + 1) + 1] \in Heads
      BY <3>2, <3>3 DEF MergeInv, Linked
    <3> QED BY <3>1, <3>4
  <2>3. T \in SUBSET (0..(m - 1)) /\ m - 1 \in Nat
    BY <1>1
  <2> HIDE DEF T
  <2>4. T = 0..(m - 1)
    BY <2>1, <2>2, <2>3, UpTo
  <2> QED BY <2>4 DEF T
<1>5. \A k \in 1..m : at[k] \in Heads
  <2> SUFFICES ASSUME NEW k \in 1..m PROVE at[k] \in Heads
    OBVIOUS
  <2>1. PICK j \in 0..(m - 1) : j + 1 = k
    <3>1. k - 1 \in 0..(m - 1) /\ (k - 1) + 1 = k
      BY <1>1
    <3> QED BY <3>1
  <2> QED BY <1>4, <2>1
<1>6. \A k \in 1..m : s[k] = SliceOf(nodes, at[k]) /\ s[k] \in Text
  BY <1>5, HeadSlice DEF SymbolsAlong
<1>7. s \in Seq(Text) /\ Len(s) = m
  <2>1. s \in [1..m -> Text]
    BY <1>6 DEF SymbolsAlong
  <2> QED BY <1>1, <2>1
<1>8. ASSUME NEW k \in 1..(m - 1) PROVE <<s[k], s[k + 1]>> = PairOf(at[k])
  <2>1. k \in 1..m /\ k + 1 \in 1..m
    BY <1>1
  <2> HIDE DEF s
  <2> QED BY <1>3, <1>6, <2>1 DEF PairOf
<1> QED BY <1>3, <1>5, <1>6, <1>7, <1>8

(* A merge is a round of the naive scan.                                   *)
LEMMA ScannedMerged ==
    ASSUME MergeInv, input \in Text, chars = Characters(input), Scanned,
           NEW c \in heap, Fresh(c), \A d \in heap : ~Less(d, c),
           nodes' = Merged(c), UNCHANGED given
    PROVE  Scanned'
<1>1. PICK m \in 1..N : \E at :
        /\ Along(at, m)
        /\ \A g : IsRounds(g, ranks, Firsts(input), N) => g[N - m] = SymbolsAlong(at, m)
  BY DEF Scanned, SymbolsAlong
<1>2. PICK at :
        /\ Along(at, m)
        /\ \A g : IsRounds(g, ranks, Firsts(input), N) => g[N - m] = SymbolsAlong(at, m)
  BY <1>1
<1>3. PICK p \in 1..m : at[p] = c.left
  BY <1>2, PoppedPair DEF Along
<1> DEFINE to == [k \in 1..m |-> IF k <= p THEN at[k] ELSE at[k + 1]]
           s == SymbolsAlong(at, m)
<1>4. p < m /\ at[p + 1] = c.right /\ Along(to, m - 1)'
  BY <1>2, <1>3, AlongMerged
<1>5. /\ s \in Seq(Text) /\ Len(s) = m
      /\ \A k \in 1..m : at[k] \in Heads /\ s[k] = SliceOf(nodes, at[k])
      /\ \A k \in 1..(m - 1) : /\ nodes[at[k]].next # 0 /\ at[k + 1] = nodes[at[k]].next
                               /\ <<s[k], s[k + 1]>> = PairOf(at[k])
  BY <1>2, SymbolPairs
<1>6. /\ N \in Nat /\ N' = N /\ m \in Nat /\ p \in 1..(m - 1) /\ m - 1 \in 1..N
      /\ ranks' = ranks /\ input' = input /\ chars' = chars
  BY <1>4, Length DEF MergeInv, N, given
<1> HIDE DEF s, to
<1>7. JoinLowest(ranks, s) = Without(s, m, p)
  <2>1. <<s[p], s[p + 1]>> = PairOf(c.left) /\ PairOf(c.left) \in DOMAIN ranks
    BY <1>3, <1>5, <1>6, PoppedPair
  <2>2. ASSUME NEW j \in 1..(m - 1), <<s[j], s[j + 1]>> \in DOMAIN ranks
        PROVE  \/ ranks[<<s[p], s[p + 1]>>] < ranks[<<s[j], s[j + 1]>>]
               \/ ranks[<<s[p], s[p + 1]>>] = ranks[<<s[j], s[j + 1]>>] /\ p <= j
    <3>1. j \in 1..m /\ at[j] \in Heads /\ nodes[at[j]].next # 0 /\ <<s[j], s[j + 1]>> = PairOf(at[j])
      BY <1>5, <1>6
    <3>2. PairOf(at[j]) \in DOMAIN ranks
      BY <2>2, <3>1
    <3>3. \/ ranks[PairOf(c.left)] < ranks[PairOf(at[j])]
          \/ ranks[PairOf(c.left)] = ranks[PairOf(at[j])] /\ c.left <= at[j]
      BY <3>1, <3>2, PoppedPair
    <3>4. c.left <= at[j] => p <= j
      <4>1. CASE j < p
        <5>1. at[j] < at[p] /\ at[j] \in 1..N /\ at[p] \in 1..N
          BY <1>2, <3>1, <4>1 DEF Along, Path
        <5>2. ~(at[p] <= at[j])
          BY <1>6, <5>1
        <5> QED BY <1>3, <5>2
      <4> QED BY <1>6, <4>1
    <3> QED BY <2>1, <3>1, <3>3, <3>4
  <2>3. \A pair \in DOMAIN ranks : ranks[pair] \in Nat
    BY DEF MergeInv, MergeTypeOK
  <2>4. m \in Nat /\ s \in Seq(Text) /\ Len(s) = m /\ p \in 1..(m - 1)
    BY <1>5, <1>6
  <2>5. <<s[p], s[p + 1]>> \in DOMAIN ranks
    BY <2>1
  <2>6. \A j \in 1..(m - 1) : <<s[j], s[j + 1]>> \in DOMAIN ranks =>
            \/ ranks[<<s[p], s[p + 1]>>] < ranks[<<s[j], s[j + 1]>>]
            \/ ranks[<<s[p], s[p + 1]>>] = ranks[<<s[j], s[j + 1]>>] /\ p <= j
    BY <2>2
  <2> QED BY <2>3, <2>4, <2>5, <2>6, JoinAt
<1>8. \A k \in 1..(m - 1) :
          SliceOf(nodes, to[k])' = IF k < p THEN s[k] ELSE IF k = p THEN s[p] \o s[p + 1] ELSE s[k + 1]
  <2> SUFFICES ASSUME NEW k \in 1..(m - 1)
               PROVE  SliceOf(nodes, to[k])' = IF k < p THEN s[k] ELSE IF k = p THEN s[p] \o s[p + 1]
                                               ELSE s[k + 1]
    OBVIOUS
  <2>1. k \in 1..m /\ k + 1 \in 1..m /\ p \in 1..m
    BY <1>6
  <2>2. to[k] = IF k <= p THEN at[k] ELSE at[k + 1]
    BY <2>1 DEF to
  <2>3. \A i \in 1..m : at[i] \in 1..N
    BY <1>2 DEF Along, Path
  <2>4. \A i \in 1..m : i # p => at[i] # c.left
    <3> SUFFICES ASSUME NEW i \in 1..m, i # p PROVE at[i] # at[p]
      BY <1>3
    <3>1. i < p \/ p < i
      BY <1>6
    <3>2. at[i] < at[p] \/ at[p] < at[i]
      BY <1>2, <2>1, <3>1 DEF Along
    <3> QED BY <1>6, <2>1, <2>3, <3>2
  <2>5. \A i \in 1..m : i # p => SliceOf(nodes, at[i])' = s[i]
    BY <1>5, <2>3, <2>4, MergedPairs
  <2>6. CASE k < p
    <3>1. to[k] = at[k] /\ k # p
      BY <1>6, <2>2, <2>6
    <3> QED BY <2>1, <2>5, <2>6, <3>1
  <2>7. CASE k = p
    <3>1. to[k] = c.left
      BY <1>3, <1>6, <2>2, <2>7
    <3>2. c.left \in 1..N /\ nodes[c.left].next = c.right /\ c.left \in Heads /\ c.right \in 1..N
      BY PoppedPair
    <3>3. nodes'[c.left].start = nodes[c.left].start /\ nodes'[c.left].end = nodes[c.right].end
      BY <3>2, MergedNodes
    <3>4. SliceOf(nodes, c.left)' = SubSeq(input, nodes[c.left].start, nodes[c.right].end)
      BY <1>6, <3>3 DEF SliceOf
    <3>5. nodes[c.left].next # 0
      BY <1>6, <3>2
    <3>6. SliceOf(nodes, c.left)' = SliceOf(nodes, c.left) \o SliceOf(nodes, c.right)
      BY <3>2, <3>4, <3>5, JoinedSlice
    <3>7. s[p] = SliceOf(nodes, c.left) /\ s[p + 1] = SliceOf(nodes, c.right)
      <4>1. p + 1 \in 1..m
        BY <1>6
      <4> QED BY <1>3, <1>4, <1>5, <2>1, <4>1
    <3>8. ~(k < p)
      BY <1>6, <2>7
    <3> QED BY <2>7, <3>1, <3>6, <3>7, <3>8
  <2>8. CASE k > p
    <3>1. to[k] = at[k + 1] /\ k + 1 # p /\ ~(k < p) /\ k # p
      BY <1>6, <2>2, <2>8
    <3> QED BY <2>1, <2>5, <3>1
  <2> QED BY <1>6, <2>6, <2>7, <2>8
<1>9. SymbolsAlong(to, m - 1)' = Without(s, m, p)
  BY <1>8 DEF SymbolsAlong, Without
<1>10. ASSUME NEW g, IsRounds(g, ranks, Firsts(input), N)
       PROVE  g[N - (m - 1)] = SymbolsAlong(to, m - 1)'
  <2>1. N - (m - 1) \in 0..N /\ N - (m - 1) # 0 /\ (N - (m - 1)) - 1 = N - m
    BY <1>6
  <2>2. g[N - (m - 1)] = JoinLowest(ranks, g[(N - (m - 1)) - 1])
    BY <1>10, <2>1 DEF IsRounds
  <2>3. g[N - m] = s
    BY <1>2, <1>10 DEF s
  <2> QED BY <1>7, <1>9, <2>1, <2>2, <2>3
<1>11. /\ m - 1 \in 1..N' /\ Along(to, m - 1)'
       /\ \A g : IsRounds(g, ranks', Firsts(input'), N') => g[N' - (m - 1)] = SymbolsAlong(to, m - 1)'
  BY <1>4, <1>6, <1>10
<1> QED BY <1>11 DEF Scanned, SymbolsAlong

(* The same word, the same nodes.                                          *)
LEMMA ScannedSame ==
    ASSUME Scanned, UNCHANGED <<nodes, given>>
    PROVE  Scanned'
<1>1. UNCHANGED <<nodes, input, chars, ranks>>
  BY DEF given
<1>2. N' = N /\ Heads' = Heads
  BY <1>1 DEF N, Heads, Live
<1>3. Following' = Following
  BY <1>2 DEF Following
<1>4. \A at, m : Along(at, m) => Along(at, m)'
  BY <1>2, <1>3 DEF Along
<1>5. \A i : SliceOf(nodes, i)' = SliceOf(nodes, i)
  BY <1>1 DEF SliceOf
<1>6. PICK m \in 1..N : \E at :
        /\ Along(at, m)
        /\ \A g : IsRounds(g, ranks, Firsts(input), N) =>
                      g[N - m] = [k \in 1..m |-> SliceOf(nodes, at[k])]
  BY DEF Scanned
<1>7. PICK at :
        /\ Along(at, m)
        /\ \A g : IsRounds(g, ranks, Firsts(input), N) =>
                      g[N - m] = [k \in 1..m |-> SliceOf(nodes, at[k])]
  BY <1>6
<1>8. [k \in 1..m |-> SliceOf(nodes, at[k])'] = [k \in 1..m |-> SliceOf(nodes, at[k])]
  BY <1>5
<1>9. \A g : IsRounds(g, ranks', Firsts(input'), N') =>
                  g[N' - m] = [k \in 1..m |-> SliceOf(nodes, at[k])']
  BY <1>1, <1>2, <1>7, <1>8
<1> QED BY <1>2, <1>4, <1>7, <1>9 DEF Scanned

LEMMA ScannedStep ==
    ASSUME MergeInv, input \in Text, chars = Characters(input), Scanned, MergeStep
    PROVE  Scanned'
<1>1. PICK c \in heap :
          /\ \A d \in heap : ~Less(d, c)
          /\ IF Fresh(c)
             THEN nodes' = Merged(c) /\ heap' = (heap \ {c}) \cup Pushed(Merged(c), c.left)
             ELSE heap' = heap \ {c} /\ UNCHANGED nodes
  BY DEF MergeStep
<1>2. UNCHANGED given
  BY DEF MergeStep
<1>3. CASE Fresh(c)
  BY <1>1, <1>2, <1>3, ScannedMerged
<1>4. CASE ~Fresh(c)
  BY <1>1, <1>2, <1>4, ScannedSame
<1> QED BY <1>3, <1>4

(* With no candidate left, no round of the naive scan changes anything.    *)
LEMMA ScannedEnd ==
    ASSUME MergeInv, Onward, input \in Text, chars = Characters(input), Scanned, heap = {}
    PROVE  Symbols = NaiveSymbols(ranks, input)
<1>1. PICK m \in 1..N : \E at :
        /\ Along(at, m)
        /\ \A g : IsRounds(g, ranks, Firsts(input), N) => g[N - m] = SymbolsAlong(at, m)
  BY DEF Scanned, SymbolsAlong
<1>2. PICK at :
        /\ Along(at, m)
        /\ \A g : IsRounds(g, ranks, Firsts(input), N) => g[N - m] = SymbolsAlong(at, m)
  BY <1>1
<1> DEFINE s == SymbolsAlong(at, m)
<1>3. /\ s \in Seq(Text) /\ Len(s) = m
      /\ \A k \in 1..m : at[k] \in Heads /\ s[k] = SliceOf(nodes, at[k])
      /\ \A k \in 1..(m - 1) : /\ nodes[at[k]].next # 0 /\ at[k + 1] = nodes[at[k]].next
                               /\ <<s[k], s[k + 1]>> = PairOf(at[k])
  BY <1>2, SymbolPairs
<1>4. N \in Nat /\ m \in Nat /\ DOMAIN nodes = 1..N /\ Len(nodes) = N
  <2>1. N \in Nat /\ DOMAIN nodes = 1..N
    BY Length DEF MergeInv
  <2>2. Len(nodes) = N
    BY <2>1 DEF MergeInv, MergeTypeOK
  <2> QED BY <2>1, <2>2
<1> HIDE DEF s
<1>5. JoinLowest(ranks, s) = s
  <2>1. \A k \in 1..(m - 1) : <<s[k], s[k + 1]>> \notin DOMAIN ranks
    <3> SUFFICES ASSUME NEW k \in 1..(m - 1) PROVE <<s[k], s[k + 1]>> \notin DOMAIN ranks
      OBVIOUS
    <3>1. k \in 1..m
      BY <1>4
    <3>2. at[k] \in Heads /\ nodes[at[k]].next # 0 /\ <<s[k], s[k + 1]>> = PairOf(at[k])
      BY <1>3, <3>1
    <3> QED BY <3>2 DEF MergeInv, Seeded
  <2>2. {i \in 1..(Len(s) - 1) : <<s[i], s[i + 1]>> \in DOMAIN ranks} = {}
    BY <1>3, <2>1
  <2> QED BY <2>2 DEF JoinLowest
<1>6. PICK g : IsRounds(g, ranks, Firsts(input), N) /\ NaiveSymbols(ranks, input) = g[N]
  BY <1>4, NaiveRounds DEF N
<1>7. g[N - m] = s
  BY <1>2, <1>6 DEF s
<1>8. g[N] = s
  <2> DEFINE T == {k \in 0..m : g[(N - m) + k] = s}
  <2>1. 0 \in T
    <3>1. (N - m) + 0 = N - m /\ 0 \in 0..m
      BY <1>4
    <3> QED BY <1>7, <3>1
  <2>2. ASSUME NEW k \in 0..(m - 1), k \in T PROVE k + 1 \in T
    <3>1. PICK j \in 0..N : j = (N - m) + (k + 1) /\ j # 0 /\ j - 1 = (N - m) + k
      <4>1. (N - m) + (k + 1) \in 0..N /\ (N - m) + (k + 1) # 0 /\ ((N - m) + (k + 1)) - 1 = (N - m) + k
        BY <1>4
      <4> QED BY <4>1
    <3>2. g[j] = JoinLowest(ranks, g[j - 1])
      BY <1>6, <3>1 DEF IsRounds
    <3>3. g[j - 1] = s
      BY <2>2, <3>1
    <3>4. k + 1 \in 0..m
      BY <1>4
    <3> QED BY <1>5, <3>1, <3>2, <3>3, <3>4
  <2>3. T \in SUBSET (0..m)
    OBVIOUS
  <2> HIDE DEF T
  <2>4. T = 0..m
    BY <1>4, <2>1, <2>2, <2>3, UpTo
  <2>5. m \in 0..m /\ (N - m) + m = N
    BY <1>4
  <2> QED BY <2>4, <2>5 DEF T
<1> DEFINE item == [i \in DOMAIN nodes |-> SliceOf(nodes, i)]
           next == [i \in DOMAIN nodes |-> IF nodes[i].next = 0 THEN Len(nodes) + 1 ELSE nodes[i].next]
<1>9. next = Following
  BY <1>4 DEF Following
<1>10. Forward(N, next)
  <2>1. \A i \in 1..N : nodes[i].next \in 0..N
    BY DEF MergeInv, MergeTypeOK
  <2> QED BY <1>4, <2>1 DEF Onward, Forward
<1>11. Symbols = Chain(N, item, next)
  BY <1>4 DEF Symbols
<1>12. Path(at, m, 1, N, next)
  BY <1>2, <1>9 DEF Along
<1>13. \A k \in 1..m : at[k] \in 1..N /\ item[at[k]] = SliceOf(nodes, at[k])
  BY <1>2, <1>4 DEF Along, Path
<1> HIDE DEF item, next
<1>14. Symbols = [k \in 1..m |-> item[at[k]]]
  BY <1>4, <1>10, <1>11, <1>12, OnePath
<1>15. Symbols = s
  BY <1>13, <1>14 DEF s, SymbolsAlong
<1> QED BY <1>6, <1>8, <1>15

(* The merging of the head of todo, as far as it is done.                  *)
ScannedWord == nodes # <<>> => ranks = tok.merges /\ Scanned

-----------------------------------------------------------------------------
(* The hand-made matchers and the regex                                    *)

Class == {"newline", "space", "'", "s", "r", "e", "l", "white", "letter", "mark", "number", "other"}

LEMMA RunIs ==
    ASSUME NEW t, NEW C, Len(t) \in Nat, NEW i \in 1..(Len(t) + 1)
    PROVE  /\ RunEnd(t, i, C) \in i..(Len(t) + 1)
           /\ \A k \in i..(RunEnd(t, i, C) - 1) : t[k] \in C
           /\ RunEnd(t, i, C) # Len(t) + 1 => t[RunEnd(t, i, C)] \notin C
<1> DEFINE S == {j \in i..(Len(t) + 1) : j = Len(t) + 1 \/ t[j] \notin C}
<1>1. S \in SUBSET (0..(Len(t) + 1)) /\ Len(t) + 1 \in S /\ Len(t) + 1 \in Nat
  OBVIOUS
<1>2. RunEnd(t, i, C) = Min(S)
  BY DEF RunEnd
<1>3. \A j \in i..(Len(t) + 1) : j \in S <=> (j = Len(t) + 1 \/ t[j] \notin C)
  OBVIOUS
<1>4. S \subseteq i..(Len(t) + 1)
  OBVIOUS
<1> HIDE DEF S
<1>5. PICK e \in i..(Len(t) + 1) : e = RunEnd(t, i, C) /\ e \in S /\ \A j \in S : e <= j
  BY <1>1, <1>2, <1>4, Smallest
<1>6. ASSUME NEW k \in i..(e - 1) PROVE t[k] \in C
  <2>1. k \in i..(Len(t) + 1) /\ ~(e <= k)
    BY <1>5
  <2> QED BY <1>3, <1>5, <2>1
<1>7. e # Len(t) + 1 => t[e] \notin C
  BY <1>3, <1>5
<1> QED BY <1>5, <1>6, <1>7

(* A run goes as far as all its characters are of the classes.             *)
LEMMA RunAll ==
    ASSUME NEW t, NEW C, Len(t) \in Nat, NEW i \in 1..(Len(t) + 1), NEW j \in i..(Len(t) + 1)
    PROVE  All(t, i, j, C) <=> j <= RunEnd(t, i, C)
<1>1. PICK e \in i..(Len(t) + 1) :
          /\ e = RunEnd(t, i, C) /\ \A k \in i..(e - 1) : t[k] \in C
          /\ e # Len(t) + 1 => t[e] \notin C
  BY RunIs
<1>2. CASE j <= e
  <2>1. \A k \in i..(j - 1) : k \in i..(e - 1)
    BY <1>2
  <2> QED BY <1>1, <1>2, <2>1 DEF All
<1>3. CASE ~(j <= e)
  <2>1. e \in i..(j - 1) /\ e # Len(t) + 1
    BY <1>3
  <2> QED BY <1>1, <1>3, <2>1 DEF All
<1> QED BY <1>1, <1>2, <1>3

(* A matcher gives the longest match of an alternative, or i for none.     *)
Gives(A, i, e) == /\ A = {} => e = i
                  /\ A # {} => e > i /\ e \in A /\ \A j \in A : j <= e

LEMMA GivenMax ==
    ASSUME NEW A, A \subseteq Int, A # {}, NEW i, NEW e, Gives(A, i, e) PROVE Max(A) = e
<1>1. e \in A /\ \A j \in A : j <= e
  BY DEF Gives
<1>2. \A x \in A : (\A y \in A : x >= y) => x = e
  <2> SUFFICES ASSUME NEW x \in A, \A y \in A : x >= y PROVE x = e
    OBVIOUS
  <2>1. x >= e /\ x <= e /\ x \in Int /\ e \in Int
    BY <1>1
  <2> QED BY <2>1
<1>3. \A y \in A : e >= y
  <2> SUFFICES ASSUME NEW y \in A PROVE e >= y
    OBVIOUS
  <2>1. y <= e /\ y \in Int /\ e \in Int
    BY <1>1
  <2> QED BY <2>1
<1> QED BY <1>1, <1>2, <1>3 DEF Max

(* (?i:'s|'t|'re|'ve|'m|'ll|'d)                                            *)
LEMMA ContractionGives ==
    ASSUME NEW t \in Seq(Class), NEW i \in 1..Len(t)
    PROVE  Gives(Alternatives(t, i)[1], i, MatchContraction(t, i))
<1> DEFINE A == {j \in i..(Len(t) + 1) :
                   SubSeq(t, i, j - 1) \in {<<"'", "s">>, <<"'", "r", "e">>, <<"'", "l", "l">>}}
<1>1. Alternatives(t, i)[1] = A
  BY DEF Alternatives
<1>2. Len(t) \in Nat /\ i \in Nat /\ i >= 1 /\ i <= Len(t)
  OBVIOUS
<1>3. \A j \in i..(Len(t) + 1) :
          /\ Len(SubSeq(t, i, j - 1)) = j - i
          /\ \A k \in 1..(j - i) : SubSeq(t, i, j - 1)[k] = t[i + k - 1]
          /\ SubSeq(t, i, j - 1) \in Seq(Class)
  <2> SUFFICES ASSUME NEW j \in i..(Len(t) + 1)
               PROVE  /\ Len(SubSeq(t, i, j - 1)) = j - i
                      /\ \A k \in 1..(j - i) : SubSeq(t, i, j - 1)[k] = t[i + k - 1]
                      /\ SubSeq(t, i, j - 1) \in Seq(Class)
    OBVIOUS
  <2>1. j - 1 \in Int /\ i \in Int /\ (j - 1) - i + 1 = j - i
    BY <1>2
  <2>2. \A k \in i..(j - 1) : t[k] \in Class
    <3>1. \A k \in i..(j - 1) : k \in 1..Len(t)
      BY <1>2
    <3> QED BY <3>1
  <2>3. /\ SubSeq(t, i, j - 1) \in Seq(Class)
        /\ Len(SubSeq(t, i, j - 1)) = IF i <= j - 1 THEN (j - 1) - i + 1 ELSE 0
        /\ \A k \in 1..((j - 1) - i + 1) : SubSeq(t, i, j - 1)[k] = t[i + k - 1]
    BY <2>1, <2>2, SubSeqProperties
  <2>4. ~(i <= j - 1) => j - i = 0
    BY <1>2
  <2> QED BY <2>1, <2>3, <2>4
<1>4. ASSUME NEW j \in i..(Len(t) + 1)
      PROVE  j \in A <=> \/ j = i + 2 /\ t[i] = "'" /\ t[i + 1] = "s"
                         \/ j = i + 3 /\ t[i] = "'" /\ t[i + 1] = "r" /\ t[i + 2] = "e"
                         \/ j = i + 3 /\ t[i] = "'" /\ t[i + 1] = "l" /\ t[i + 2] = "l"
  <2> DEFINE u == SubSeq(t, i, j - 1)
  <2>1. /\ Len(u) = j - i /\ u \in Seq(Class)
        /\ \A k \in 1..(j - i) : u[k] = t[i + k - 1]
    BY <1>3
  <2> HIDE DEF u
  <2>2. u = <<"'", "s">> <=> j = i + 2 /\ t[i] = "'" /\ t[i + 1] = "s"
    <3> DEFINE v == <<"'", "s">>
    <3>0. v \in Seq(Class) /\ Len(v) = 2 /\ v[1] = "'" /\ v[2] = "s"
      BY DEF Class
    <3> HIDE DEF v
    <3>1. u = v <=> Len(u) = 2 /\ u[1] = "'" /\ u[2] = "s"
      <4>1. ASSUME Len(u) = 2, u[1] = "'", u[2] = "s" PROVE u = v
        <5>1. \A k \in 1..Len(u) : u[k] = v[k]
          <6>1. \A k \in 1..2 : k = 1 \/ k = 2
            OBVIOUS
          <6> QED BY <3>0, <4>1, <6>1
        <5> QED BY <2>1, <3>0, <4>1, <5>1, SeqEqual
      <4> QED BY <3>0, <4>1
    <3>2. Len(u) = 2 <=> j = i + 2
      BY <1>2, <2>1
    <3>3. j = i + 2 => u[1] = t[i] /\ u[2] = t[i + 1]
      <4> SUFFICES ASSUME j = i + 2 PROVE u[1] = t[i] /\ u[2] = t[i + 1]
        OBVIOUS
      <4>1. 1 \in 1..(j - i) /\ 2 \in 1..(j - i) /\ i + 1 - 1 = i /\ i + 2 - 1 = i + 1
        BY <1>2
      <4> QED BY <2>1, <4>1
    <3> QED BY <3>1, <3>2, <3>3 DEF v
  <2>3. ASSUME NEW x \in Class, NEW y \in Class
        PROVE  u = <<"'", x, y>> <=> j = i + 3 /\ t[i] = "'" /\ t[i + 1] = x /\ t[i + 2] = y
    <3> DEFINE v == <<"'", x, y>>
    <3>0. v \in Seq(Class) /\ Len(v) = 3 /\ v[1] = "'" /\ v[2] = x /\ v[3] = y
      <4>1. "'" \in Class
        BY DEF Class
      <4> QED BY <4>1
    <3> HIDE DEF v
    <3>1. u = v <=> Len(u) = 3 /\ u[1] = "'" /\ u[2] = x /\ u[3] = y
      <4>1. ASSUME Len(u) = 3, u[1] = "'", u[2] = x, u[3] = y PROVE u = v
        <5>1. \A k \in 1..Len(u) : u[k] = v[k]
          <6>1. \A k \in 1..3 : k = 1 \/ k = 2 \/ k = 3
            OBVIOUS
          <6> QED BY <3>0, <4>1, <6>1
        <5> QED BY <2>1, <3>0, <4>1, <5>1, SeqEqual
      <4> QED BY <3>0, <4>1
    <3>2. Len(u) = 3 <=> j = i + 3
      BY <1>2, <2>1
    <3>3. j = i + 3 => u[1] = t[i] /\ u[2] = t[i + 1] /\ u[3] = t[i + 2]
      <4> SUFFICES ASSUME j = i + 3 PROVE u[1] = t[i] /\ u[2] = t[i + 1] /\ u[3] = t[i + 2]
        OBVIOUS
      <4>1. 1 \in 1..(j - i) /\ 2 \in 1..(j - i) /\ 3 \in 1..(j - i)
            /\ i + 1 - 1 = i /\ i + 2 - 1 = i + 1 /\ i + 3 - 1 = i + 2
        BY <1>2
      <4> QED BY <2>1, <4>1
    <3> QED BY <3>1, <3>2, <3>3 DEF v
  <2>4. "r" \in Class /\ "e" \in Class /\ "l" \in Class
    BY DEF Class
  <2>5. u = <<"'", "r", "e">> <=> j = i + 3 /\ t[i] = "'" /\ t[i + 1] = "r" /\ t[i + 2] = "e"
    BY <2>3, <2>4
  <2>6. u = <<"'", "l", "l">> <=> j = i + 3 /\ t[i] = "'" /\ t[i + 1] = "l" /\ t[i + 2] = "l"
    BY <2>3, <2>4
  <2>7. j \in A <=> (u = <<"'", "s">> \/ u = <<"'", "r", "e">> \/ u = <<"'", "l", "l">>)
    BY DEF u
  <2> QED BY <2>2, <2>5, <2>6, <2>7
<1>5. A \subseteq i..(Len(t) + 1)
  OBVIOUS
<1> HIDE DEF A
<1>6. MatchContraction(t, i) =
        IF t[i] # "'" \/ i + 1 > Len(t) THEN i
        ELSE IF t[i + 1] = "s" THEN i + 2
        ELSE IF i + 2 <= Len(t) /\ ((t[i + 1] = "r" /\ t[i + 2] = "e") \/ (t[i + 1] = "l" /\ t[i + 2] = "l"))
             THEN i + 3 ELSE i
  BY DEF MatchContraction
<1>7. CASE t[i] = "'" /\ i + 1 <= Len(t) /\ t[i + 1] = "s"
  <2>1. MatchContraction(t, i) = i + 2 /\ i + 2 \in i..(Len(t) + 1)
    BY <1>2, <1>6, <1>7
  <2>2. \A j \in A : j = i + 2
    BY <1>4, <1>5, <1>7
  <2>3. i + 2 \in A
    BY <1>4, <1>7, <2>1
  <2> QED BY <1>1, <1>2, <2>1, <2>2, <2>3 DEF Gives
<1>8. CASE t[i] = "'" /\ i + 2 <= Len(t) /\ ((t[i + 1] = "r" /\ t[i + 2] = "e") \/ (t[i + 1] = "l" /\ t[i + 2] = "l"))
  <2>1. MatchContraction(t, i) = i + 3 /\ i + 3 \in i..(Len(t) + 1)
    BY <1>2, <1>6, <1>8
  <2>2. \A j \in A : j = i + 3
    BY <1>4, <1>5, <1>8
  <2>3. i + 3 \in A
    BY <1>4, <1>8, <2>1
  <2> QED BY <1>1, <1>2, <2>1, <2>2, <2>3 DEF Gives
<1>9. CASE ~(t[i] = "'" /\ i + 1 <= Len(t) /\ t[i + 1] = "s")
           /\ ~(t[i] = "'" /\ i + 2 <= Len(t)
                /\ ((t[i + 1] = "r" /\ t[i + 2] = "e") \/ (t[i + 1] = "l" /\ t[i + 2] = "l")))
  <2>1. MatchContraction(t, i) = i
    BY <1>2, <1>6, <1>9
  <2>2. \A j \in i..(Len(t) + 1) : (j = i + 2 => i + 1 <= Len(t)) /\ (j = i + 3 => i + 2 <= Len(t))
    BY <1>2
  <2>3. A = {}
    BY <1>4, <1>5, <1>9, <2>2
  <2> QED BY <1>1, <2>1, <2>3 DEF Gives
<1> QED BY <1>7, <1>8, <1>9

(* A character of a run is as good as the beginning of its rest.           *)
LEMMA RunOn ==
    ASSUME NEW t, NEW C, Len(t) \in Nat, NEW i \in 1..Len(t), t[i] \in C
    PROVE  RunEnd(t, i, C) = RunEnd(t, i + 1, C) /\ RunEnd(t, i, C) > i
<1>1. i \in 1..(Len(t) + 1) /\ i + 1 \in 1..(Len(t) + 1)
  OBVIOUS
<1>2. PICK e \in i..(Len(t) + 1) :
          /\ e = RunEnd(t, i, C) /\ \A k \in i..(e - 1) : t[k] \in C
          /\ e # Len(t) + 1 => t[e] \notin C
  BY <1>1, RunIs
<1>3. PICK f \in (i + 1)..(Len(t) + 1) :
          /\ f = RunEnd(t, i + 1, C) /\ \A k \in (i + 1)..(f - 1) : t[k] \in C
          /\ f # Len(t) + 1 => t[f] \notin C
  BY <1>1, RunIs
<1>4. e > i
  BY <1>2
<1>5. ~(e < f)
  <2> SUFFICES ASSUME e < f PROVE FALSE
    OBVIOUS
  <2>1. e # Len(t) + 1 /\ e \in (i + 1)..(f - 1)
    BY <1>4
  <2> QED BY <1>2, <1>3, <2>1
<1>6. ~(f < e)
  <2> SUFFICES ASSUME f < e PROVE FALSE
    OBVIOUS
  <2>1. f # Len(t) + 1 /\ f \in i..(e - 1)
    OBVIOUS
  <2> QED BY <1>2, <1>3, <2>1
<1> QED BY <1>2, <1>3, <1>4, <1>5, <1>6

(* [^\r\n\p{L}\p{N}]?[\p{L}\p{M}]+                                         *)
LEMMA LettersGives ==
    ASSUME NEW t, Len(t) \in Nat, NEW i \in 1..Len(t)
    PROVE  Gives(Alternatives(t, i)[2], i, IF t[i] = "number" THEN i ELSE MatchLettersRun(t, i))
<1> DEFINE A == {j \in i..(Len(t) + 1) :
                   \E o \in {0, 1} : /\ j > i + o /\ All(t, i + o, j, LetterOrMark)
                                     /\ o = 1 => t[i] \notin Newline \cup Letter \cup {"number"}}
           g == IF t[i] = "number" THEN i ELSE MatchLettersRun(t, i)
<1>1. Alternatives(t, i)[2] = A
  BY DEF Alternatives
<1>2. i \in 1..(Len(t) + 1) /\ i + 1 \in 1..(Len(t) + 1) /\ i + 0 = i
  OBVIOUS
<1>3. PICK e \in i..(Len(t) + 1) : e = RunEnd(t, i, LetterOrMark) /\ (e > i <=> t[i] \in LetterOrMark)
  <2>1. PICK e \in i..(Len(t) + 1) :
            /\ e = RunEnd(t, i, LetterOrMark) /\ \A k \in i..(e - 1) : t[k] \in LetterOrMark
            /\ e # Len(t) + 1 => t[e] \notin LetterOrMark
    BY <1>2, RunIs
  <2>2. e > i => i \in i..(e - 1)
    OBVIOUS
  <2>3. ~(e > i) => e = i /\ i # Len(t) + 1
    OBVIOUS
  <2> QED BY <2>1, <2>2, <2>3
<1>4. PICK f \in (i + 1)..(Len(t) + 1) : f = RunEnd(t, i + 1, LetterOrMark)
  BY <1>2, RunIs
<1>5. t[i] \in LetterOrMark => f = e
  BY <1>3, <1>4, RunOn
<1>6. ASSUME NEW j \in i..(Len(t) + 1)
      PROVE  j \in A <=> \/ j > i /\ j <= e
                         \/ j > i + 1 /\ j <= f /\ t[i] \notin Newline \cup Letter \cup {"number"}
  <2>1. All(t, i, j, LetterOrMark) <=> j <= e
    BY <1>2, <1>3, RunAll
  <2>2. j > i + 1 => (All(t, i + 1, j, LetterOrMark) <=> j <= f)
    <3> SUFFICES ASSUME j > i + 1 PROVE All(t, i + 1, j, LetterOrMark) <=> j <= f
      OBVIOUS
    <3>1. j \in (i + 1)..(Len(t) + 1)
      OBVIOUS
    <3> QED BY <1>2, <1>4, <3>1, RunAll
  <2> QED BY <1>2, <2>1, <2>2
<1>7. A \subseteq i..(Len(t) + 1)
  OBVIOUS
<1> HIDE DEF A
<1>8. t[i] # "number" => g = IF t[i] \in LetterOrMark \/ (t[i] \notin Newline /\ f > i + 1) THEN f ELSE i
  BY <1>4 DEF MatchLettersRun
<1>9. CASE t[i] \in LetterOrMark
  <2>1. t[i] # "number"
    BY <1>9 DEF LetterOrMark, Letter
  <2>2. g = e /\ e = f /\ e > i
    BY <1>3, <1>5, <1>8, <1>9, <2>1
  <2> HIDE DEF g
  <2>3. e \in A /\ \A j \in A : j <= e
    BY <1>6, <1>7, <2>2
  <2> QED BY <1>1, <2>2, <2>3 DEF Gives, g
<1>10. CASE t[i] \notin LetterOrMark /\ t[i] \notin Newline /\ t[i] # "number"
  <2>1. t[i] \notin Newline \cup Letter \cup {"number"}
    BY <1>10 DEF LetterOrMark
  <2>2. g = IF f > i + 1 THEN f ELSE i
    BY <1>8, <1>10
  <2>3. ~(e > i)
    BY <1>3, <1>10
  <2> HIDE DEF g
  <2>4. \A j \in i..(Len(t) + 1) : j \in A <=> j > i + 1 /\ j <= f
    BY <1>6, <2>1, <2>3
  <2>5. CASE f > i + 1
    <3>1. f \in A /\ f > i /\ \A j \in A : j <= f
      BY <1>7, <2>4, <2>5
    <3> QED BY <1>1, <2>2, <2>5, <3>1 DEF Gives, g
  <2>6. CASE ~(f > i + 1)
    <3>1. A = {}
      BY <1>7, <2>4, <2>6
    <3> QED BY <1>1, <2>2, <2>6, <3>1 DEF Gives, g
  <2> QED BY <2>5, <2>6
<1>11. CASE t[i] \notin LetterOrMark /\ (t[i] \in Newline \/ t[i] = "number")
  <2>1. t[i] \in Newline \cup Letter \cup {"number"}
    BY <1>11
  <2>2. g = i
    BY <1>8, <1>11
  <2>3. ~(e > i)
    BY <1>3, <1>11
  <2> HIDE DEF g
  <2>4. A = {}
    BY <1>6, <1>7, <2>1, <2>3
  <2> QED BY <1>1, <2>2, <2>4 DEF Gives, g
<1> QED BY <1>9, <1>10, <1>11

(*  ?[^\s\p{L}\p{N}]+[\r\n]*                                               *)
LEMMA PunctGives ==
    ASSUME NEW t, Len(t) \in Nat, NEW i \in 1..Len(t)
    PROVE  Gives(Alternatives(t, i)[4], i, MatchSpacePunct(t, i))
<1> DEFINE To == i..(Len(t) + 1)
           A == {j \in To : \E o \in {0, 1}, k \in To :
                               /\ i + o < k /\ k <= j
                               /\ o = 1 => t[i] = "space"
                               /\ All(t, i + o, k, Punct) /\ All(t, k, j, Newline)}
           p == IF t[i] = "space" THEN i + 1 ELSE i
           end == RunEnd(t, p, Punct)
           last == RunEnd(t, end, Newline)
<1>1. Alternatives(t, i)[4] = A
  BY DEF Alternatives
<1>2. p \in i..(i + 1) /\ p \in 1..(Len(t) + 1) /\ p \in To /\ i + 0 = i
  OBVIOUS
<1>3. MatchSpacePunct(t, i) = IF end = p THEN i ELSE last
  BY DEF MatchSpacePunct
<1>4. A \subseteq To
  OBVIOUS
<1>5. ASSUME NEW j \in To
      PROVE  j \in A <=> \E k \in To : p < k /\ k <= j /\ All(t, p, k, Punct) /\ All(t, k, j, Newline)
  <2>1. CASE t[i] = "space"
    <3>1. p = i + 1
      BY <2>1
    <3>2. ASSUME NEW k \in To, i < k, All(t, i, k, Punct) PROVE FALSE
      <4>1. i \in i..(k - 1)
        BY <3>2
      <4>2. t[i] \in Punct
        BY <3>2, <4>1 DEF All
      <4> QED BY <2>1, <4>2 DEF Punct
    <3> HIDE DEF p, end, last
    <3>3. ASSUME j \in A
          PROVE  \E k \in To : p < k /\ k <= j /\ All(t, p, k, Punct) /\ All(t, k, j, Newline)
      <4>1. PICK o \in {0, 1}, k \in To :
                /\ i + o < k /\ k <= j
                /\ All(t, i + o, k, Punct) /\ All(t, k, j, Newline)
        BY <3>3
      <4>2. o # 0
        BY <1>2, <3>2, <4>1
      <4>3. i + o = p
        BY <3>1, <4>2
      <4> QED BY <4>1, <4>3
    <3>4. ASSUME NEW k \in To, p < k, k <= j, All(t, p, k, Punct), All(t, k, j, Newline) PROVE j \in A
      <4>1. 1 \in {0, 1}
        OBVIOUS
      <4> QED BY <2>1, <3>1, <3>4, <4>1
    <3> HIDE DEF A, To
    <3> QED BY <3>3, <3>4
  <2>2. CASE t[i] # "space"
    <3>1. p = i
      BY <2>2
    <3> HIDE DEF p, end, last
    <3>3. ASSUME j \in A
          PROVE  \E k \in To : p < k /\ k <= j /\ All(t, p, k, Punct) /\ All(t, k, j, Newline)
      <4>1. PICK o \in {0, 1}, k \in To :
                /\ i + o < k /\ k <= j /\ (o = 1 => t[i] = "space")
                /\ All(t, i + o, k, Punct) /\ All(t, k, j, Newline)
        BY <3>3
      <4>2. o = 0
        BY <2>2, <4>1
      <4>3. i + o = p
        BY <1>2, <3>1, <4>2
      <4> QED BY <4>1, <4>3
    <3>4. ASSUME NEW k \in To, p < k, k <= j, All(t, p, k, Punct), All(t, k, j, Newline) PROVE j \in A
      <4>1. 0 \in {0, 1} /\ 0 # 1 /\ i + 0 = p
        BY <1>2, <3>1
      <4> QED BY <3>4, <4>1
    <3> HIDE DEF A, To
    <3> QED BY <3>3, <3>4
  <2> QED BY <2>1, <2>2
<1> HIDE DEF A, p
<1>6. /\ end \in p..(Len(t) + 1) /\ \A k \in p..(end - 1) : t[k] \in Punct
      /\ end # Len(t) + 1 => t[end] \notin Punct
  BY <1>2, RunIs
<1> HIDE DEF end
<1>7. last \in end..(Len(t) + 1)
  <2>1. end \in 1..(Len(t) + 1)
    BY <1>2, <1>6
  <2> QED BY <2>1, RunIs
<1>8. ASSUME NEW j \in A PROVE end # p /\ j <= last
  <2>1. PICK k \in To : p < k /\ k <= j /\ All(t, p, k, Punct) /\ All(t, k, j, Newline)
    BY <1>4, <1>5
  <2>2. k \in p..(Len(t) + 1) /\ j \in k..(Len(t) + 1)
    BY <1>2, <1>4, <2>1
  <2>3. k <= end
    BY <1>2, <2>1, <2>2, RunAll DEF end
  <2>4. CASE k = end
    <3>1. end \in 1..(Len(t) + 1) /\ j \in end..(Len(t) + 1)
      BY <1>2, <1>6, <2>2, <2>4
    <3>2. j <= last
      BY <2>1, <2>4, <3>1, RunAll
    <3> QED BY <2>1, <2>4, <3>2
  <2>5. CASE k # end
    <3>1. k \in p..(end - 1)
      BY <1>2, <1>6, <2>2, <2>3, <2>5
    <3>2. t[k] \notin Newline
      <4>1. t[k] \in Punct
        BY <1>6, <3>1
      <4> QED BY <4>1 DEF Punct, Newline
    <3>3. ~(k < j)
      <4> SUFFICES ASSUME k < j PROVE FALSE
        OBVIOUS
      <4>1. k \in k..(j - 1)
        BY <2>2
      <4> QED BY <2>1, <3>2, <4>1 DEF All
    <3> HIDE DEF last
    <3>4. j = k
      BY <2>2, <3>3
    <3>5. k <= last /\ end # p
      BY <1>2, <1>6, <1>7, <2>1, <2>2, <2>3
    <3> QED BY <3>4, <3>5
  <2> QED BY <2>4, <2>5
<1>9. ASSUME end # p PROVE last \in A /\ last > i
  <2>1. end \in To /\ p < end /\ end \in p..(Len(t) + 1) /\ end \in 1..(Len(t) + 1)
    BY <1>2, <1>6, <1>9
  <2>2. All(t, p, end, Punct)
    <3>1. end <= end
      BY <2>1
    <3> QED BY <1>2, <2>1, <3>1, RunAll DEF end
  <2>3. last <= last
    BY <1>7, <2>1
  <2>4. All(t, end, last, Newline)
    BY <1>7, <2>1, <2>3, RunAll
  <2> HIDE DEF last
  <2>5. last \in To /\ end <= last /\ last > i
    BY <1>2, <1>7, <2>1
  <2> HIDE DEF To
  <2> QED BY <1>5, <2>1, <2>2, <2>4, <2>5
<1> HIDE DEF last
<1>10. CASE end = p
  <2>1. A = {}
    BY <1>8, <1>10
  <2> QED BY <1>1, <1>3, <1>10, <2>1 DEF Gives
<1>11. CASE end # p
  BY <1>1, <1>3, <1>8, <1>9, <1>11 DEF Gives
<1> QED BY <1>10, <1>11

(* \s*[\r\n]+ or \s+(?!\S) or \s+, in this order.                          *)
LEMMA WhiteGives ==
    ASSUME NEW t, Len(t) \in Nat, NEW i \in 1..Len(t)
    PROVE  LET a == Alternatives(t, i)
               end == RunEnd(t, i, White)
               newlines == {j \in i..(end - 1) : t[j] \in Newline}
           IN  /\ Gives(a[5], i, IF newlines = {} THEN i ELSE MatchWsRun(t, i))
               /\ newlines = {} =>
                      /\ Gives(a[6], i, IF end = Len(t) + 1 \/ end - 1 > i THEN MatchWsRun(t, i) ELSE i)
                      /\ Gives(a[7], i, end)
                      /\ ~(end = Len(t) + 1 \/ end - 1 > i) => MatchWsRun(t, i) = end
<1> DEFINE To == i..(Len(t) + 1)
           end == RunEnd(t, i, White)
           newlines == {j \in i..(end - 1) : t[j] \in Newline}
           A == {j \in To : \E k \in To : k < j /\ All(t, i, k, White) /\ All(t, k, j, Newline)}
           B == {j \in To : j > i /\ All(t, i, j, White) /\ (j <= Len(t) => t[j] \in White)}
           C == {j \in To : j > i /\ All(t, i, j, White)}
           m == MatchWsRun(t, i)
<1>1. Alternatives(t, i)[5] = A /\ Alternatives(t, i)[6] = B /\ Alternatives(t, i)[7] = C
  BY DEF Alternatives
<1>2. i \in 1..(Len(t) + 1)
  OBVIOUS
<1>3. /\ end \in To /\ \A k \in i..(end - 1) : t[k] \in White
      /\ end # Len(t) + 1 => t[end] \notin White
  BY <1>2, RunIs
<1>4. \A j \in To : All(t, i, j, White) <=> j <= end
  BY <1>2, RunAll
<1>5. m = IF newlines # {} THEN Max(newlines) + 1
          ELSE IF end - 1 > i /\ end <= Len(t) THEN end - 1 ELSE end
  BY DEF MatchWsRun
<1>6. \A k \in i..(end - 1) : k \in newlines <=> t[k] \in Newline
  OBVIOUS
<1>7. newlines \subseteq i..(end - 1)
  OBVIOUS
<1>8. A \subseteq To /\ B \subseteq To /\ C \subseteq To
  OBVIOUS
<1> HIDE DEF end, newlines, m
<1>9. ASSUME NEW j \in A PROVE j > i /\ j - 1 \in newlines
  <2>1. PICK k \in To : k < j /\ All(t, i, k, White) /\ All(t, k, j, Newline)
    OBVIOUS
  <2>2. j \in To
    OBVIOUS
  <2>3. j - 1 \in k..(j - 1)
    BY <2>1, <2>2
  <2>4. t[j - 1] \in Newline
    BY <2>1, <2>3 DEF All
  <2>5. j - 1 <= end - 1
    <3>1. \A x \in i..(j - 1) : t[x] \in White
      <4> SUFFICES ASSUME NEW x \in i..(j - 1) PROVE t[x] \in White
        OBVIOUS
      <4>1. x \in i..(k - 1) \/ x \in k..(j - 1)
        BY <2>1, <2>2
      <4>2. Newline \subseteq White
        BY DEF Newline, White
      <4> QED BY <2>1, <4>1, <4>2 DEF All
    <3>2. All(t, i, j, White)
      BY <3>1 DEF All
    <3>3. j <= end
      BY <1>4, <2>2, <3>2
    <3> QED BY <1>3, <2>2, <3>3
  <2>6. j - 1 \in i..(end - 1) /\ j > i
    BY <1>3, <2>1, <2>2, <2>5
  <2> QED BY <1>6, <2>4, <2>6
<1>10. ASSUME NEW k \in newlines PROVE k + 1 \in A /\ k + 1 > i
  <2>1. k \in i..(end - 1) /\ t[k] \in Newline
    BY <1>6, <1>7
  <2>2. k \in To /\ k + 1 \in To /\ k < k + 1 /\ k <= end /\ k + 1 > i
    BY <1>3, <2>1
  <2>3. All(t, i, k, White)
    BY <1>4, <2>2
  <2>4. All(t, k, k + 1, Newline)
    <3>1. \A x \in k..((k + 1) - 1) : x = k
      BY <2>1
    <3> QED BY <2>1, <3>1 DEF All
  <2> HIDE DEF To
  <2> QED BY <2>2, <2>3, <2>4
<1>11. \A j \in To : j \in B <=> j > i /\ j <= end /\ (j <= Len(t) => t[j] \in White)
  BY <1>4
<1>12. \A j \in To : j \in C <=> j > i /\ j <= end
  BY <1>4
<1> HIDE DEF A, B, C
<1>13. CASE newlines # {}
  <2>1. PICK x \in newlines : \A y \in newlines : y <= x
    <3>1. newlines \in SUBSET (0..(Len(t) + 1)) /\ Len(t) + 1 \in Nat
      <4>1. \A k \in i..(end - 1) : k \in 0..(Len(t) + 1)
        BY <1>3
      <4> QED BY <1>7, <4>1
    <3> QED BY <1>13, <3>1, Greatest
  <2>2. x \in Int
    BY <1>7
  <2>3. Max(newlines) = x
    <3>1. \A z \in newlines : (\A y \in newlines : z >= y) => z = x
      <4> SUFFICES ASSUME NEW z \in newlines, \A y \in newlines : z >= y PROVE z = x
        OBVIOUS
      <4>1. z \in Int /\ z >= x /\ z <= x
        BY <1>7, <2>1
      <4> QED BY <2>2, <4>1
    <3>2. \A y \in newlines : x >= y
      <4> SUFFICES ASSUME NEW y \in newlines PROVE x >= y
        OBVIOUS
      <4>1. y \in Int /\ y <= x
        BY <1>7, <2>1
      <4> QED BY <2>2, <4>1
    <3> QED BY <3>1, <3>2 DEF Max
  <2>4. m = x + 1
    BY <1>5, <1>13, <2>3
  <2>5. m \in A /\ m > i
    BY <1>10, <2>4
  <2>6. \A j \in A : j <= m
    <3> SUFFICES ASSUME NEW j \in A PROVE j <= m
      OBVIOUS
    <3>1. j - 1 \in newlines /\ j \in Int
      BY <1>8, <1>9
    <3>2. j - 1 <= x
      BY <2>1, <3>1
    <3> QED BY <2>2, <2>4, <3>1, <3>2
  <2> QED BY <1>1, <1>13, <2>5, <2>6 DEF Gives, end, newlines, m
<1>14. CASE newlines = {}
  <2>1. A = {}
    BY <1>9, <1>14
  <2>2. Gives(A, i, i)
    BY <2>1 DEF Gives
  <2>3. m = IF end - 1 > i /\ end <= Len(t) THEN end - 1 ELSE end
    BY <1>5, <1>14
  <2>4. Gives(C, i, end)
    <3>1. CASE end = i
      <4>1. C = {}
        BY <1>8, <1>12, <3>1
      <4> QED BY <3>1, <4>1 DEF Gives
    <3>2. CASE end # i
      <4>1. end \in C /\ end > i /\ \A j \in C : j <= end
        BY <1>3, <1>8, <1>12, <3>2
      <4> QED BY <4>1 DEF Gives
    <3> QED BY <3>1, <3>2
  <2>5. CASE end = Len(t) + 1
    <3>1. m = end /\ end > i
      BY <2>3, <2>5
    <3>2. end \in B
      BY <1>3, <1>11, <2>5, <3>1
    <3>3. \A j \in B : j <= end
      BY <1>8, <1>11
    <3>4. Gives(B, i, m)
      BY <3>1, <3>2, <3>3 DEF Gives
    <3> QED BY <1>1, <1>14, <2>2, <2>3, <2>4, <2>5, <3>4 DEF end, newlines, m
  <2>6. CASE end # Len(t) + 1
    <3>1. end \in Nat /\ end <= Len(t) /\ t[end] \notin White
      BY <1>3, <2>6
    <3>2. \A j \in B : j > i /\ j <= end - 1
      <4> SUFFICES ASSUME NEW j \in B PROVE j > i /\ j <= end - 1
        OBVIOUS
      <4>1. j \in To /\ j > i /\ j <= end /\ (j <= Len(t) => t[j] \in White)
        BY <1>8, <1>11
      <4>2. j # end
        BY <3>1, <4>1
      <4> QED BY <3>1, <4>1, <4>2
    <3>3. CASE end - 1 > i
      <4>1. m = end - 1
        BY <2>3, <3>1, <3>3
      <4>2. end - 1 \in To /\ end - 1 <= end /\ end - 1 \in i..(end - 1)
        BY <1>3, <3>1, <3>3
      <4>3. end - 1 \in B
        BY <1>3, <1>11, <3>3, <4>2
      <4>4. Gives(B, i, m)
        BY <3>2, <3>3, <4>1, <4>3 DEF Gives
      <4> QED BY <1>1, <1>14, <2>2, <2>4, <3>3, <4>4 DEF end, newlines, m
    <3>4. CASE ~(end - 1 > i)
      <4>1. B = {}
        <5> SUFFICES ASSUME NEW j \in B PROVE FALSE
          OBVIOUS
        <5>1. j \in To
          BY <1>8
        <5> QED BY <3>1, <3>2, <3>4, <5>1
      <4>2. Gives(B, i, i)
        BY <4>1 DEF Gives
      <4>3. m = end
        BY <2>3, <3>4
      <4> QED BY <1>1, <1>14, <2>2, <2>4, <2>6, <3>4, <4>2, <4>3 DEF end, newlines, m
    <3> QED BY <3>3, <3>4
  <2> QED BY <2>5, <2>6
<1> QED BY <1>13, <1>14

(* The regex takes the longest match of the first alternative that has one.*)
LEMMA TakenMatch ==
    ASSUME NEW t, Len(t) \in Nat, NEW i \in 1..Len(t), NEW k \in 1..7, NEW e,
           Gives(Alternatives(t, i)[k], i, e), e > i,
           \A j \in 1..(k - 1) : Gives(Alternatives(t, i)[j], i, i)
    PROVE  RegexEnd(t, i) = e
<1> DEFINE a == Alternatives(t, i)
           K == {j \in DOMAIN a : a[j] # {}}
<1>1. DOMAIN a = 1..7 /\ \A j \in 1..7 : a[j] \subseteq i..(Len(t) + 1)
  BY DEF Alternatives
<1>2. RegexEnd(t, i) = Max(a[Min(K)])
  BY DEF RegexEnd
<1> HIDE DEF a
<1>3. \A j \in 1..7 : j \in K <=> a[j] # {}
  BY <1>1
<1>4. K \subseteq 1..7
  BY <1>1
<1> HIDE DEF K
<1>5. a[k] # {}
  <2>1. Gives(a[k], i, e)
    BY DEF a
  <2>2. i \in Int /\ (a[k] = {} => e = i)
    BY <2>1 DEF Gives
  <2> QED BY <2>2
<1>6. \A j \in 1..(k - 1) : a[j] = {}
  <2> SUFFICES ASSUME NEW j \in 1..(k - 1) PROVE a[j] = {}
    OBVIOUS
  <2>1. Gives(a[j], i, i)
    BY DEF a
  <2>2. ~(i > i)
    OBVIOUS
  <2> QED BY <2>1, <2>2 DEF Gives
<1>7. k \in K
  BY <1>3, <1>5
<1>8. ASSUME NEW j \in K PROVE k <= j
  <2>1. j \in 1..7 /\ a[j] # {}
    BY <1>3, <1>4
  <2>2. j \notin 1..(k - 1)
    BY <1>6, <2>1
  <2> QED BY <2>1, <2>2
<1>9. Min(K) = k
  <2>1. K \in SUBSET (0..7) /\ 7 \in Nat
    BY <1>4
  <2>2. Min(K) \in K /\ \A j \in K : Min(K) <= j
    BY <1>7, <2>1, Smallest
  <2>3. Min(K) \in 1..7 /\ k <= Min(K)
    BY <1>4, <1>8, <2>2
  <2>4. Min(K) <= k
    BY <1>7, <2>2
  <2> QED BY <2>3, <2>4
<1>10. a[k] \subseteq Int
  BY <1>1
<1>11. Max(a[k]) = e
  BY <1>5, <1>10, GivenMax DEF a
<1> QED BY <1>2, <1>9, <1>11

(* gpt2_pretokenize: the hand-made matchers, one after the other, find     *)
(* what the regex does.                                                    *)
LEMMA MatchersAreRegex ==
    ASSUME NEW t \in Seq(Class), NEW i \in 1..Len(t) PROVE MatchEnd(t, i) = RegexEnd(t, i)
<1> DEFINE a == Alternatives(t, i)
           contraction == MatchContraction(t, i)
           letters == IF t[i] = "number" THEN i + 1 ELSE MatchLettersRun(t, i)
           run == IF t[i] = "number" THEN i ELSE MatchLettersRun(t, i)
           number == IF t[i] = "number" THEN i + 1 ELSE i
           punct == MatchSpacePunct(t, i)
           white == MatchWsRun(t, i)
           end == RunEnd(t, i, White)
           newlines == {j \in i..(end - 1) : t[j] \in Newline}
<1>1. Len(t) \in Nat /\ i \in Nat /\ i <= Len(t) /\ ~(i > i)
  OBVIOUS
<1>2. Gives(a[1], i, contraction)
  BY ContractionGives
<1>3. Gives(a[2], i, run)
  BY <1>1, LettersGives
<1>4. Gives(a[3], i, number)
  <2>1. a[3] = {j \in i..(Len(t) + 1) : j = i + 1 /\ t[i] = "number"}
    BY DEF Alternatives
  <2> QED BY <1>1, <2>1 DEF Gives
<1>5. Gives(a[4], i, punct)
  BY <1>1, PunctGives
<1>6. /\ Gives(a[5], i, IF newlines = {} THEN i ELSE white)
      /\ newlines = {} => /\ Gives(a[6], i, IF end = Len(t) + 1 \/ end - 1 > i THEN white ELSE i)
                          /\ Gives(a[7], i, end)
                          /\ ~(end = Len(t) + 1 \/ end - 1 > i) => white = end
  BY <1>1, WhiteGives
<1>7. MatchEnd(t, i) = IF contraction > i THEN contraction ELSE IF letters > i THEN letters
                       ELSE IF punct > i THEN punct ELSE IF white > i THEN white ELSE i + 1
  BY DEF MatchEnd
<1>8. t[i] \in White \/ t[i] \in Punct \/ t[i] \in LetterOrMark \/ t[i] = "number"
  <2>1. t[i] \in Class
    OBVIOUS
  <2> QED BY <2>1 DEF Class, White, Punct, LetterOrMark, Letter
<1>9. t[i] \in White => end > i
  BY <1>1, RunOn
<1>10. t[i] \in Punct => punct > i
  <2> SUFFICES ASSUME t[i] \in Punct PROVE punct > i
    OBVIOUS
  <2>1. t[i] # "space"
    BY DEF Punct
  <2>2. RunEnd(t, i, Punct) > i /\ RunEnd(t, i, Punct) \in i..(Len(t) + 1)
    BY <1>1, RunOn, RunIs
  <2> DEFINE p == RunEnd(t, i, Punct)
  <2>3. punct = IF p = i THEN i ELSE RunEnd(t, p, Newline)
    BY <2>1 DEF MatchSpacePunct
  <2> HIDE DEF p
  <2>4. p \in 1..(Len(t) + 1) /\ p > i
    BY <2>2 DEF p
  <2>5. RunEnd(t, p, Newline) \in p..(Len(t) + 1)
    BY <1>1, <2>4, RunIs
  <2> QED BY <2>3, <2>4, <2>5
<1>11. t[i] \in LetterOrMark => run > i
  <2> SUFFICES ASSUME t[i] \in LetterOrMark PROVE run > i
    OBVIOUS
  <2>1. t[i] # "number"
    BY DEF LetterOrMark, Letter
  <2>2. run = RunEnd(t, i + 1, LetterOrMark)
    BY <2>1 DEF MatchLettersRun
  <2>3. RunEnd(t, i, LetterOrMark) = RunEnd(t, i + 1, LetterOrMark) /\ RunEnd(t, i, LetterOrMark) > i
    BY <1>1, RunOn
  <2> QED BY <2>2, <2>3
<1>12. end \in i..(Len(t) + 1)
  <2>1. i \in 1..(Len(t) + 1)
    OBVIOUS
  <2> QED BY <1>1, <2>1, RunIs
<1> HIDE DEF a, contraction, letters, run, punct, white, end, newlines
<1>13. CASE contraction > i
  <2>1. RegexEnd(t, i) = contraction
    <3>1. 1 \in 1..7 /\ \A j \in 1..(1 - 1) : Gives(a[j], i, i)
      OBVIOUS
    <3> QED BY <1>1, <1>2, <1>13, <3>1, TakenMatch DEF a
  <2> QED BY <1>7, <1>13, <2>1
<1>14. ASSUME ~(contraction > i) PROVE Gives(a[1], i, i)
  BY <1>2, <1>14 DEF Gives
<1>15. ASSUME ~(run > i) PROVE Gives(a[2], i, i)
  BY <1>3, <1>15 DEF Gives
<1>16. ASSUME ~(punct > i) PROVE Gives(a[4], i, i)
  BY <1>5, <1>16 DEF Gives
<1>17. CASE ~(contraction > i) /\ run > i
  <2>1. t[i] # "number" /\ letters = run
    BY <1>1, <1>17 DEF run, letters
  <2>2. RegexEnd(t, i) = run
    <3>1. 2 \in 1..7 /\ \A j \in 1..(2 - 1) : j = 1
      OBVIOUS
    <3>2. \A j \in 1..(2 - 1) : Gives(a[j], i, i)
      BY <1>14, <1>17, <3>1
    <3> QED BY <1>1, <1>3, <1>17, <3>1, <3>2, TakenMatch DEF a
  <2> QED BY <1>7, <1>17, <2>1, <2>2
<1>18. CASE ~(contraction > i) /\ t[i] = "number"
  <2>1. letters = i + 1 /\ number = i + 1 /\ ~(run > i) /\ i + 1 > i
    BY <1>1, <1>18 DEF letters, run
  <2>2. RegexEnd(t, i) = number
    <3>1. 3 \in 1..7 /\ \A j \in 1..(3 - 1) : j = 1 \/ j = 2
      OBVIOUS
    <3>2. \A j \in 1..(3 - 1) : Gives(a[j], i, i)
      BY <1>14, <1>15, <1>18, <2>1, <3>1
    <3> HIDE DEF number
    <3> QED BY <1>1, <1>4, <2>1, <3>1, <3>2, TakenMatch DEF a
  <2> QED BY <1>7, <1>18, <2>1, <2>2
<1>19. ASSUME t[i] # "number" PROVE Gives(a[3], i, i) /\ letters = run
  BY <1>4, <1>19 DEF letters, run
<1>20. CASE ~(contraction > i) /\ ~(run > i) /\ t[i] # "number" /\ punct > i
  <2>1. RegexEnd(t, i) = punct
    <3>1. 4 \in 1..7 /\ \A j \in 1..(4 - 1) : j = 1 \/ j = 2 \/ j = 3
      OBVIOUS
    <3>2. \A j \in 1..(4 - 1) : Gives(a[j], i, i)
      BY <1>14, <1>15, <1>19, <1>20, <3>1
    <3> QED BY <1>1, <1>5, <1>20, <3>1, <3>2, TakenMatch DEF a
  <2> QED BY <1>7, <1>19, <1>20, <2>1
<1>21. CASE ~(contraction > i) /\ ~(run > i) /\ t[i] # "number" /\ ~(punct > i)
  <2>1. end > i
    BY <1>8, <1>9, <1>10, <1>11, <1>21
  <2>2. \A j \in 1..4 : Gives(a[j], i, i)
    <3>1. \A j \in 1..4 : j = 1 \/ j = 2 \/ j = 3 \/ j = 4
      OBVIOUS
    <3> QED BY <1>14, <1>15, <1>16, <1>19, <1>21, <3>1
  <2>3. RegexEnd(t, i) = white /\ white > i
    <3>1. CASE newlines # {}
      <4>1. Gives(a[5], i, white)
        BY <1>6, <3>1
      <4>2. white > i
        <5>1. newlines # {} => a[5] # {}
          <6> SUFFICES ASSUME NEW x \in newlines PROVE a[5] # {}
            OBVIOUS
          <6>1. x \in i..(end - 1) /\ t[x] \in Newline
            BY DEF newlines
          <6>2. a[5] = {j \in i..(Len(t) + 1) : \E k \in i..(Len(t) + 1) :
                            k < j /\ All(t, i, k, White) /\ All(t, k, j, Newline)}
            BY DEF a, Alternatives
          <6>3. x \in i..(Len(t) + 1) /\ x + 1 \in i..(Len(t) + 1) /\ x < x + 1 /\ x <= end
            BY <1>12, <6>1
          <6>4. All(t, i, x, White)
            <7>1. i \in 1..(Len(t) + 1)
              BY <1>1
            <7> QED BY <1>1, <6>3, <7>1, RunAll DEF end
          <6>5. All(t, x, x + 1, Newline)
            <7>1. \A y \in x..((x + 1) - 1) : y = x
              BY <6>1
            <7> QED BY <6>1, <7>1 DEF All
          <6> QED BY <6>2, <6>3, <6>4, <6>5
        <5> QED BY <3>1, <4>1, <5>1 DEF Gives
      <4>3. 5 \in 1..7 /\ \A j \in 1..(5 - 1) : j \in 1..4
        OBVIOUS
      <4>4. \A j \in 1..(5 - 1) : Gives(a[j], i, i)
        BY <2>2, <4>3
      <4> QED BY <1>1, <4>1, <4>2, <4>3, <4>4, TakenMatch DEF a
    <3>2. CASE newlines = {} /\ (end = Len(t) + 1 \/ end - 1 > i)
      <4>1. Gives(a[5], i, i) /\ Gives(a[6], i, white)
        BY <1>6, <3>2
      <4>2. white > i
        <5>1. white = IF end - 1 > i /\ end <= Len(t) THEN end - 1 ELSE end
          BY <3>2 DEF white, MatchWsRun, newlines, end
        <5> QED BY <1>12, <2>1, <5>1
      <4>3. 6 \in 1..7 /\ \A j \in 1..(6 - 1) : j \in 1..4 \/ j = 5
        OBVIOUS
      <4>4. \A j \in 1..(6 - 1) : Gives(a[j], i, i)
        BY <2>2, <4>1, <4>3
      <4> QED BY <1>1, <4>1, <4>2, <4>3, <4>4, TakenMatch DEF a
    <3>3. CASE newlines = {} /\ ~(end = Len(t) + 1 \/ end - 1 > i)
      <4>1. Gives(a[5], i, i) /\ Gives(a[6], i, i) /\ Gives(a[7], i, end) /\ white = end
        BY <1>6, <3>3
      <4>3. 7 \in 1..7 /\ \A j \in 1..(7 - 1) : j \in 1..4 \/ j = 5 \/ j = 6
        OBVIOUS
      <4>4. \A j \in 1..(7 - 1) : Gives(a[j], i, i)
        BY <2>2, <4>1, <4>3
      <4> QED BY <1>1, <2>1, <4>1, <4>3, <4>4, TakenMatch DEF a
    <3> QED BY <3>1, <3>2, <3>3
  <2> QED BY <1>7, <1>19, <1>21, <2>3
<1> QED BY <1>13, <1>17, <1>18, <1>20, <1>21

-----------------------------------------------------------------------------
(* Sequences laid end to end, one behind the other                         *)

LEMMA FlatEmpty == FlattenSeq(<<>>) = <<>>
BY DEF FlattenSeq

(* What FlattenSeq computes, part after part:                              *)
(* g[k] is the first k parts of ss, laid end to end.                       *)
FlatTo(g, S, ss) ==
    /\ g[0] = <<>> /\ FlattenSeq(ss) = g[Len(ss)] /\ Len(ss) \in Nat
    /\ \A k \in 0..Len(ss) : g[k] \in Seq(S)
    /\ \A k \in 1..Len(ss) : ss[k] \in Seq(S) /\ g[k] = g[k - 1] \o ss[k]

LEMMA FlatSteps == ASSUME NEW S, NEW ss \in Seq(Seq(S)) PROVE \E g : FlatTo(g, S, ss)
<1> DEFINE n == Len(ss)
           h == CHOOSE f : IsFlat(f, n, ss)
           g == [k \in 0..n |-> IF k = 0 THEN <<>> ELSE h[k]]
<1>1. n \in Nat /\ \A k \in 1..n : ss[k] \in Seq(S)
  <2> DEFINE Q == Seq(S)
  <2>1. ss \in Seq(Q)
    OBVIOUS
  <2> HIDE DEF Q
  <2>2. n \in Nat /\ \A i \in 1..n : ss[i] \in Q
    BY <2>1
  <2> QED BY <2>2 DEF Q
<1>2. IsFlat(h, n, ss)
  BY FlatExists
<1>3. n # 0 => FlattenSeq(ss) = h[n]
  BY <1>2 DEF FlattenSeq, IsFlat
<1>4. n = 0 => FlattenSeq(ss) = <<>>
  <2> SUFFICES ASSUME n = 0 PROVE FlattenSeq(ss) = <<>>
    OBVIOUS
  <2>1. ss = <<>>
    OBVIOUS
  <2> QED BY <2>1, FlatEmpty
<1> HIDE DEF h, n
<1>5. \A k \in 1..n : h[k] = IF k = 1 THEN ss[k] ELSE h[k - 1] \o ss[k]
  BY <1>2 DEF IsFlat
<1>6. /\ g[0] = <<>> /\ \A k \in 1..n : g[k] = h[k] /\ k - 1 \in 0..n
  BY <1>1
<1> HIDE DEF g
<1>7. \A k \in 1..n : g[k] = g[k - 1] \o ss[k]
  <2> SUFFICES ASSUME NEW k \in 1..n PROVE g[k] = g[k - 1] \o ss[k]
    OBVIOUS
  <2>1. CASE k = 1
    <3>1. <<>> \o ss[k] = ss[k]
      BY <1>1, ConcatEmptySeq
    <3>2. k - 1 = 0
      BY <2>1
    <3> QED BY <1>5, <1>6, <2>1, <3>1, <3>2
  <2>2. CASE k # 1
    <3>1. k - 1 \in 1..n
      BY <1>1, <2>2
    <3> QED BY <1>5, <1>6, <2>2, <3>1
  <2> QED BY <2>1, <2>2
<1> DEFINE T == {k \in 0..n : g[k] \in Seq(S)}
<1>8. 0 \in T
  <2>1. 0 \in 0..n /\ <<>> \in Seq(S)
    BY <1>1
  <2> QED BY <1>6, <2>1
<1>9. ASSUME NEW k \in 0..(n - 1), k \in T PROVE k + 1 \in T
  <2>1. PICK j \in 1..n : j = k + 1 /\ j - 1 = k
    BY <1>1
  <2>2. g[j] = g[k] \o ss[j] /\ ss[j] \in Seq(S) /\ g[k] \in Seq(S)
    BY <1>1, <1>7, <1>9, <2>1
  <2>3. g[j] \in Seq(S)
    BY <2>2, ConcatProperties
  <2> QED BY <2>1, <2>3
<1>10. T = 0..n
  <2>1. T \in SUBSET (0..n)
    OBVIOUS
  <2> HIDE DEF T
  <2> QED BY <1>1, <1>8, <1>9, <2>1, UpTo
<1>11. \A k \in 0..n : g[k] \in Seq(S)
  BY <1>10
<1>12. FlattenSeq(ss) = g[n]
  <2>1. n = 0 \/ n \in 1..n
    BY <1>1
  <2> QED BY <1>3, <1>4, <1>6, <2>1
<1> QED BY <1>1, <1>6, <1>7, <1>11, <1>12 DEF n, FlatTo

LEMMA FlatTyped ==
    ASSUME NEW S, NEW ss \in Seq(Seq(S)) PROVE FlattenSeq(ss) \in Seq(S)
<1>1. PICK g : FlatTo(g, S, ss)
  BY FlatSteps
<1>2. Len(ss) \in 0..Len(ss)
  BY <1>1 DEF FlatTo
<1> QED BY <1>1, <1>2 DEF FlatTo

(* The parts of two sequences, the one behind the other.                   *)
LEMMA FlatConcat ==
    ASSUME NEW S, NEW ss \in Seq(Seq(S)), NEW tt \in Seq(Seq(S))
    PROVE  FlattenSeq(ss \o tt) = FlattenSeq(ss) \o FlattenSeq(tt)
<1> DEFINE Q == Seq(S)
           m == Len(ss)
           n == Len(tt)
           uu == ss \o tt
<1>1. /\ uu \in Seq(Q) /\ Len(uu) = m + n /\ m \in Nat /\ n \in Nat
      /\ \A k \in 1..m : uu[k] = ss[k]
      /\ \A k \in 1..n : uu[m + k] = tt[k]
  <2>1. ss \in Seq(Q) /\ tt \in Seq(Q)
    OBVIOUS
  <2> HIDE DEF Q
  <2>2. m \in Nat /\ n \in Nat
    BY <2>1
  <2>3. /\ uu \in Seq(Q) /\ Len(uu) = m + n
        /\ \A i \in 1..(m + n) : uu[i] = IF i <= m THEN ss[i] ELSE tt[i - m]
    BY <2>1, ConcatProperties
  <2>4. (\A k \in 1..m : k \in 1..(m + n) /\ k <= m)
        /\ \A k \in 1..n : m + k \in 1..(m + n) /\ ~(m + k <= m) /\ (m + k) - m = k
    BY <2>2
  <2> HIDE DEF uu, m, n
  <2> QED BY <2>2, <2>3, <2>4
<1> HIDE DEF uu
<1>2. PICK f : FlatTo(f, S, ss)
  BY FlatSteps
<1>3. PICK g : FlatTo(g, S, tt)
  BY FlatSteps
<1>4. PICK h : FlatTo(h, S, uu)
  <2>1. uu \in Seq(Seq(S))
    BY <1>1
  <2> QED BY <2>1, FlatSteps
<1>5. /\ f[0] = <<>> /\ FlattenSeq(ss) = f[m]
      /\ \A k \in 0..m : f[k] \in Seq(S)
      /\ \A k \in 1..m : ss[k] \in Seq(S) /\ f[k] = f[k - 1] \o ss[k]
  BY <1>2 DEF FlatTo
<1>6. /\ g[0] = <<>> /\ FlattenSeq(tt) = g[n]
      /\ \A k \in 0..n : g[k] \in Seq(S)
      /\ \A k \in 1..n : tt[k] \in Seq(S) /\ g[k] = g[k - 1] \o tt[k]
  BY <1>3 DEF FlatTo
<1>7. /\ h[0] = <<>> /\ FlattenSeq(uu) = h[m + n]
      /\ \A k \in 1..(m + n) : h[k] = h[k - 1] \o uu[k]
  <2>1. Len(uu) = m + n
    BY <1>1
  <2> HIDE DEF m, n
  <2> QED BY <1>4, <2>1 DEF FlatTo
<1> HIDE DEF m, n
<1> DEFINE T == {k \in 0..m : h[k] = f[k]}
<1>8. 0 \in T
  BY <1>1, <1>5, <1>7
<1>9. ASSUME NEW k \in 0..(m - 1), k \in T PROVE k + 1 \in T
  <2>1. PICK j \in 1..m : j = k + 1 /\ j - 1 = k /\ j \in 1..(m + n)
    BY <1>1
  <2>2. h[j] = f[j]
    BY <1>1, <1>5, <1>7, <1>9, <2>1
  <2> QED BY <2>1, <2>2
<1>10. h[m] = f[m]
  <2>1. T \in SUBSET (0..m)
    OBVIOUS
  <2> HIDE DEF T
  <2>2. T = 0..m
    BY <1>1, <1>8, <1>9, <2>1, UpTo
  <2> QED BY <1>1, <2>2 DEF T
<1>11. f[m] \in Seq(S)
  <2>1. m \in 0..m
    BY <1>1
  <2> QED BY <1>5, <2>1
<1> HIDE DEF T
<1> DEFINE U == {k \in 0..n : h[m + k] = f[m] \o g[k]}
<1>12. 0 \in U
  <2>1. f[m] \o <<>> = f[m]
    BY <1>11, ConcatEmptySeq
  <2>2. m + 0 = m /\ 0 \in 0..n
    BY <1>1
  <2> QED BY <1>6, <1>10, <2>1, <2>2
<1>13. ASSUME NEW k \in 0..(n - 1), k \in U PROVE k + 1 \in U
  <2>1. PICK j \in 1..n : j = k + 1 /\ j - 1 = k /\ m + j \in 1..(m + n) /\ (m + j) - 1 = m + k
    BY <1>1
  <2>2. h[m + j] = h[m + k] \o tt[j] /\ g[j] = g[k] \o tt[j]
    BY <1>1, <1>6, <1>7, <2>1
  <2>3. (f[m] \o g[k]) \o tt[j] = f[m] \o (g[k] \o tt[j])
    <3>1. k \in 0..n
      BY <1>1
    <3>2. g[k] \in Seq(S) /\ tt[j] \in Seq(S)
      BY <1>6, <3>1
    <3> DEFINE a == f[m]
               b == g[k]
               c == tt[j]
    <3>3. a \in Seq(S) /\ b \in Seq(S) /\ c \in Seq(S)
      BY <1>11, <3>2
    <3> HIDE DEF a, b, c
    <3>4. (a \o b) \o c = a \o (b \o c)
      BY <3>3, ConcatAssociative, SMTT(60)
    <3> QED BY <3>4 DEF a, b, c
  <2>4. h[m + j] = f[m] \o g[j]
    BY <1>13, <2>2, <2>3
  <2>5. j \in 0..n
    BY <2>1
  <2> QED BY <2>1, <2>4, <2>5
<1>14. h[m + n] = f[m] \o g[n]
  <2>1. U \in SUBSET (0..n)
    OBVIOUS
  <2> HIDE DEF U
  <2>2. U = 0..n
    BY <1>1, <1>12, <1>13, <2>1, UpTo
  <2>3. n \in U
    BY <1>1, <2>2
  <2> QED BY <2>3 DEF U
<1> QED BY <1>5, <1>6, <1>7, <1>14 DEF uu

LEMMA FlatOne ==
    ASSUME NEW S, NEW s \in Seq(S) PROVE FlattenSeq(<<s>>) = s
<1> DEFINE Q == Seq(S)
           one == <<s>>
<1>1. one \in Seq(Q) /\ Len(one) = 1 /\ one[1] = s
  OBVIOUS
<1> HIDE DEF one
<1>2. PICK g : FlatTo(g, S, one)
  BY <1>1, FlatSteps
<1>3. 1 \in 1..1 /\ 1 - 1 = 0
  OBVIOUS
<1>4. g[1] = <<>> \o s /\ FlattenSeq(one) = g[1]
  BY <1>1, <1>2, <1>3 DEF FlatTo
<1> QED BY <1>4, ConcatEmptySeq DEF one

(* A first part, and what is behind it.                                    *)
LEMMA FlatFirst ==
    ASSUME NEW S, NEW s \in Seq(S), NEW tt \in Seq(Seq(S))
    PROVE  FlattenSeq(<<s>> \o tt) = s \o FlattenSeq(tt)
<1> DEFINE Q == Seq(S)
           one == <<s>>
<1>1. one \in Seq(Q)
  OBVIOUS
<1> HIDE DEF one
<1>2. FlattenSeq(one \o tt) = FlattenSeq(one) \o FlattenSeq(tt)
  BY <1>1, FlatConcat
<1>3. FlattenSeq(one) = s
  BY FlatOne DEF one
<1> QED BY <1>2, <1>3 DEF one

(* One round of the naive scan joins texts to texts.                       *)
LEMMA JoinTyped ==
    ASSUME NEW table, \A pair \in DOMAIN table : table[pair] \in Nat, NEW s \in Seq(Text)
    PROVE  JoinLowest(table, s) \in Seq(Text)
<1> DEFINE m == Len(s)
           pair(i) == <<s[i], s[i + 1]>>
           ranked == {i \in 1..(m - 1) : pair(i) \in DOMAIN table}
<1>1. m \in Nat
  OBVIOUS
<1>2. CASE ranked = {}
  <2>1. JoinLowest(table, s) = s
    BY <1>2 DEF JoinLowest
  <2> QED BY <2>1
<1>3. CASE ranked # {}
  <2> DEFINE rank(i) == table[pair(i)]
  <2>1. ranked \subseteq 1..(m - 1) /\ \A i \in ranked : pair(i) \in DOMAIN table
    OBVIOUS
  <2>2. \A i \in 1..(m - 1) : pair(i) \in DOMAIN table => i \in ranked
    OBVIOUS
  <2>3. \A i \in ranked : rank(i) \in Nat
    BY <2>1
  <2> HIDE DEF ranked, rank
  <2>4. PICK q \in ranked : \A i \in ranked : rank(q) <= rank(i)
    <3>1. PICK i \in ranked : TRUE
      BY <1>3
    <3> DEFINE b == rank(i)
               C == {rank(j) : j \in {k \in ranked : rank(k) <= b}}
    <3>2. b \in Nat /\ b <= b
      BY <2>3
    <3>3. C \in SUBSET (0..b) /\ b \in C
      <4>1. \A j \in ranked : rank(j) <= b => rank(j) \in 0..b
        BY <2>3, <3>2
      <4> QED BY <3>2, <4>1
    <3>4. \A x \in C : \E j \in ranked : x = rank(j)
      OBVIOUS
    <3>5. \A j \in ranked : rank(j) <= b => rank(j) \in C
      OBVIOUS
    <3> HIDE DEF C, b
    <3>6. Min(C) \in C /\ \A x \in C : Min(C) <= x
      BY <3>2, <3>3, Smallest
    <3>7. PICK q \in ranked : rank(q) = Min(C)
      BY <3>4, <3>6
    <3>8. ASSUME NEW j \in ranked PROVE rank(q) <= rank(j)
      <4>1. PICK x \in Nat : x = rank(j)
        BY <2>3
      <4>2. PICK y \in Nat : y = rank(q) /\ y <= b
        BY <2>3, <3>3, <3>6, <3>7
      <4>3. x <= b => y <= x
        BY <3>5, <3>6, <3>7, <4>1, <4>2
      <4> QED BY <3>2, <4>1, <4>2, <4>3
    <3> QED BY <3>8
  <2> DEFINE D == {i \in ranked : rank(i) = rank(q)}
  <2>5. D \in SUBSET (0..m) /\ q \in D
    <3>1. \A i \in 1..(m - 1) : i \in 0..m
      BY <1>1
    <3> QED BY <2>1, <3>1
  <2>6. \A i \in ranked : i \in D <=> rank(i) = rank(q)
    OBVIOUS
  <2>7. D \subseteq ranked
    OBVIOUS
  <2> HIDE DEF D
  <2>8. PICK p \in D : \A i \in D : p <= i
    BY <1>1, <2>5, Smallest
  <2>9. p \in ranked /\ rank(p) = rank(q) /\ p \in 1..(m - 1)
    BY <2>1, <2>6, <2>7
  <2>10. ASSUME NEW j \in 1..(m - 1), pair(j) \in DOMAIN table
         PROVE  rank(p) < rank(j) \/ (rank(p) = rank(j) /\ p <= j)
    <3>1. j \in ranked
      BY <2>2, <2>10
    <3>2. rank(p) <= rank(j) /\ rank(p) \in Nat /\ rank(j) \in Nat
      BY <2>3, <2>4, <2>9, <3>1
    <3>3. rank(p) = rank(j) => p <= j
      BY <2>6, <2>8, <2>9, <3>1
    <3> QED BY <3>2, <3>3
  <2>11. pair(p) \in DOMAIN table
    BY <2>1, <2>9
  <2>12. /\ pair(p) \in DOMAIN table
         /\ \A j \in 1..(m - 1) : pair(j) \in DOMAIN table =>
               table[pair(p)] < table[pair(j)] \/ (table[pair(p)] = table[pair(j)] /\ p <= j)
    BY <2>10, <2>11 DEF rank
  <2>13. PICK n \in Nat : n = Len(s) /\ p \in 1..(n - 1)
    BY <1>1, <2>9
  <2>14. JoinLowest(table, s) = Without(s, n, p) /\ Without(s, n, p) \in Seq(Text)
    <3>1. \A j \in 1..(n - 1) : <<s[j], s[j + 1]>> \in DOMAIN table =>
               \/ table[<<s[p], s[p + 1]>>] < table[<<s[j], s[j + 1]>>]
               \/ table[<<s[p], s[p + 1]>>] = table[<<s[j], s[j + 1]>>] /\ p <= j
      BY <2>12, <2>13
    <3>2. <<s[p], s[p + 1]>> \in DOMAIN table
      BY <2>12
    <3> QED BY <2>13, <3>1, <3>2, JoinAt
  <2> QED BY <2>14
<1> QED BY <1>2, <1>3

LEMMA NaiveTyped ==
    ASSUME NEW table, \A pair \in DOMAIN table : table[pair] \in Nat, NEW word \in Text
    PROVE  NaiveSymbols(table, word) \in Seq(Text)
<1> DEFINE cs == Characters(word)
           n == Len(cs)
<1>1. /\ n \in Nat /\ DOMAIN cs = 1..n
      /\ \A k \in 1..n : cs[k].start \in 1..Len(word) /\ cs[k].end \in cs[k].start..Len(word)
  <2> DEFINE Character == [start : Nat, end : Nat, cp : Nat]
  <2>1. cs \in Seq(Character)
    BY CharactersCover
  <2> HIDE DEF Character, cs
  <2>2. n \in Nat /\ DOMAIN cs = 1..n
    BY <2>1
  <2> QED BY <2>2, CharactersCover DEF cs
<1>2. PICK g : IsRounds(g, table, Firsts(word), n) /\ NaiveSymbols(table, word) = g[n]
  BY <1>1, NaiveRounds
<1>3. Firsts(word) \in Seq(Text)
  <2>1. Firsts(word) = [i \in 1..n |-> SubSeq(word, cs[i].start, cs[i].end)]
    BY <1>1 DEF Firsts
  <2>2. \A i \in 1..n : SubSeq(word, cs[i].start, cs[i].end) \in Text
    <3> SUFFICES ASSUME NEW i \in 1..n PROVE SubSeq(word, cs[i].start, cs[i].end) \in Text
      OBVIOUS
    <3>1. PICK a \in 1..Len(word) : a = cs[i].start
      BY <1>1
    <3>2. PICK b \in a..Len(word) : b = cs[i].end
      BY <1>1, <3>1
    <3>3. Len(word) \in Nat
      BY TextBytes
    <3>4. a \in 1..(Len(word) + 1) /\ b \in (a - 1)..Len(word)
      BY <3>3
    <3>5. SubSeq(word, a, b) \in Text
      BY <3>4, PartOf
    <3> QED BY <3>1, <3>2, <3>5
  <2> HIDE DEF cs, n
  <2> QED BY <1>1, <2>1, <2>2
<1> HIDE DEF cs, n
<1> DEFINE T == {k \in 0..n : g[k] \in Seq(Text)}
<1>4. \A k \in 0..n : g[k] = IF k = 0 THEN Firsts(word) ELSE JoinLowest(table, g[k - 1])
  BY <1>2 DEF IsRounds
<1>5. 0 \in T
  BY <1>1, <1>3, <1>4
<1>6. ASSUME NEW k \in 0..(n - 1), k \in T PROVE k + 1 \in T
  <2>1. PICK j \in 0..n : j = k + 1 /\ j # 0 /\ j - 1 = k
    BY <1>1
  <2>2. g[k] \in Seq(Text) /\ g[j] = JoinLowest(table, g[k])
    BY <1>4, <1>6, <2>1
  <2>3. g[j] \in Seq(Text)
    BY <2>2, JoinTyped
  <2> QED BY <2>1, <2>3
<1>7. n \in T
  <2>1. T \in SUBSET (0..n)
    OBVIOUS
  <2> HIDE DEF T
  <2>2. T = 0..n
    BY <1>1, <1>5, <1>6, <2>1, UpTo
  <2> QED BY <1>1, <2>2
<1> QED BY <1>2, <1>7

(* The ids of any symbols.                                                 *)
LEMMA IdsTyped ==
    ASSUME NEW S, NEW t, IdsIn(t, S), NEW symbols \in Seq(Text)
    PROVE  IdsOf(t, symbols) \in Seq(S)
<1> DEFINE n == Len(symbols)
           ss == [k \in DOMAIN symbols |-> EmitSymbol(t, symbols[k])]
           Q == Seq(S)
           long == [k \in 0..n |-> 0]
<1>1. n \in Nat /\ DOMAIN symbols = 1..n
  OBVIOUS
<1>2. \A symbol \in Text : EmitSymbol(t, symbol) \in Q
  <2> SUFFICES ASSUME NEW symbol \in Text PROVE EmitSymbol(t, symbol) \in Q
    OBVIOUS
  <2>1. CASE symbol # <<>>
    BY <2>1, EmitFits
  <2>2. CASE symbol = <<>>
    <3>1. CASE symbol \in DOMAIN t.vocab
      <4>1. EmitSymbol(t, symbol) = <<t.vocab[symbol]>> /\ t.vocab[symbol] \in S
        BY <3>1 DEF EmitSymbol, IdsIn
      <4> QED BY <4>1
    <3>2. CASE symbol \notin DOMAIN t.vocab
      <4> DEFINE ofByte(b) == IF FallbackToken(t.type, b) \in DOMAIN t.vocab
                              THEN <<t.vocab[FallbackToken(t.type, b)]>>
                              ELSE IF t.unk_id >= 0 THEN <<t.unk_id>> ELSE <<>>
                 none == [i \in DOMAIN symbol |-> ofByte(symbol[i])]
      <4>1. EmitSymbol(t, symbol) = FlattenSeq(none)
        BY <3>2 DEF EmitSymbol
      <4>2. none = <<>>
        <5>1. DOMAIN symbol = {}
          BY <2>2
        <5> HIDE DEF ofByte
        <5> QED BY <5>1
      <4> HIDE DEF none
      <4>3. FlattenSeq(none) = <<>>
        BY <4>2 DEF FlattenSeq
      <4> QED BY <4>1, <4>3
    <3> QED BY <3>1, <3>2
  <2> QED BY <2>1, <2>2
<1>3. ss \in Seq(Q)
  <2>1. \A k \in 1..n : EmitSymbol(t, symbols[k]) \in Q
    BY <1>1, <1>2
  <2> HIDE DEF Q
  <2> QED BY <1>1, <2>1
<1>4. IdsOf(t, symbols) = FlattenSeq(ss)
  BY DEF IdsOf
<1> HIDE DEF ss
<1>5. FlattenSeq(ss) \in Seq(S)
  BY <1>3, FlatTyped DEF Q
<1> QED BY <1>4, <1>5

-----------------------------------------------------------------------------
(* The words of a gap, and their ids                                       *)

LEMMA Classes == ASSUME NEW cp PROVE ClassOf(cp) \in Class
BY DEF ClassOf, Class

LEMMA SplitsAgree ==
    ASSUME NEW t \in Seq(Class) PROVE Gpt2Pretokenize(t) = RegexSplit(t)
<1> DEFINE end == [i \in DOMAIN t |-> MatchEnd(t, i)]
           other == [i \in DOMAIN t |-> RegexEnd(t, i)]
<1>1. end = other
  <2>1. \A i \in DOMAIN t : MatchEnd(t, i) = RegexEnd(t, i)
    BY MatchersAreRegex
  <2> QED BY <2>1
<1>2. Gpt2Pretokenize(t) = Chain(Len(t), [i \in DOMAIN t |-> <<i, end[i] - 1>>], end)
  BY DEF Gpt2Pretokenize
<1>3. RegexSplit(t) = Chain(Len(t), [i \in DOMAIN t |-> <<i, other[i] - 1>>], other)
  BY DEF RegexSplit
<1> HIDE DEF end, other
<1> QED BY <1>1, <1>2, <1>3

(* The ids of a word of a gap, as the naive scan gives them.               *)
WordIds(t, word) == IdsOf(t, NaiveSymbols(t.merges, word))

LEMMA GapWords ==
    ASSUME NEW t, NEW gap \in Text, gap # <<>>
    PROVE  GapIds(t, gap) = FlattenSeq([i \in DOMAIN Words(t.type, gap) |-> WordIds(t, Words(t.type, gap)[i])])
<1> DEFINE cs == Characters(gap)
           classes == [i \in DOMAIN cs |-> ClassOf(cs[i].cp)]
           spans == RegexSplit(classes)
           words == IF t.type = "sentencepiece" THEN <<LowerBars(gap)>>
                    ELSE [i \in DOMAIN spans |-> ByteLevel(SubSeq(gap, cs[spans[i][1]].start,
                                                                  cs[spans[i][2]].end))]
<1>1. GapIds(t, gap) = FlattenSeq([i \in DOMAIN words |-> WordIds(t, words[i])])
  BY DEF GapIds, WordIds
<1>2. classes \in Seq(Class)
  <2> DEFINE Character == [start : Nat, end : Nat, cp : Nat]
  <2>1. cs \in Seq(Character)
    BY CharactersCover
  <2> HIDE DEF Character, cs
  <2>2. Len(cs) \in Nat /\ DOMAIN cs = 1..Len(cs)
    BY <2>1
  <2>3. \A i \in 1..Len(cs) : ClassOf(cs[i].cp) \in Class
    BY Classes
  <2> QED BY <2>2, <2>3
<1> HIDE DEF classes
<1>3. Gpt2Pretokenize(classes) = spans
  BY <1>2, SplitsAgree
<1>4. Words(t.type, gap) =
        IF t.type = "sentencepiece" THEN <<LowerBars(gap)>>
        ELSE [i \in DOMAIN Gpt2Pretokenize(classes) |->
                ByteLevel(SubSeq(gap, cs[Gpt2Pretokenize(classes)[i][1]].start,
                                 cs[Gpt2Pretokenize(classes)[i][2]].end))]
  BY DEF Words, classes
<1>5. Words(t.type, gap) = words
  <2> HIDE DEF cs
  <2> QED BY <1>3, <1>4
<1> HIDE DEF words
<1> QED BY <1>1, <1>5

LEMMA WordIdsTyped ==
    ASSUME NEW S, NEW t, Encodes(t), IdsIn(t, S), NEW word \in Text
    PROVE  WordIds(t, word) \in Seq(S)
<1>1. NaiveSymbols(t.merges, word) \in Seq(Text)
  BY NaiveTyped DEF Encodes
<1> QED BY <1>1, IdsTyped DEF WordIds

LEMMA GapTyped ==
    ASSUME NEW S, NEW t, Encodes(t), IdsIn(t, S), NEW gap \in Text
    PROVE  GapIds(t, gap) \in Seq(S)
<1>1. CASE gap = <<>>
  <2>1. GapIds(t, gap) = <<>>
    BY <1>1 DEF GapIds
  <2> QED BY <2>1
<1>2. CASE gap # <<>>
  <2> DEFINE words == Words(t.type, gap)
             ss == [i \in DOMAIN words |-> WordIds(t, words[i])]
             Q == Seq(S)
  <2>1. words \in Seq(Text)
    BY <1>2, WordsFit
  <2>2. GapIds(t, gap) = FlattenSeq(ss)
    BY <1>2, GapWords
  <2> HIDE DEF words
  <2>3. Len(words) \in Nat /\ DOMAIN words = 1..Len(words) /\ \A i \in 1..Len(words) : WordIds(t, words[i]) \in Q
    BY <2>1, WordIdsTyped
  <2>4. ss \in Seq(Q)
    <3> HIDE DEF Q
    <3> QED BY <2>3
  <2> HIDE DEF ss
  <2> QED BY <2>2, <2>4, FlatTyped
<1> QED BY <1>1, <1>2

-----------------------------------------------------------------------------
(* A loop from any of its positions on                                     *)

Beyond(n, item, next) == CHOOSE g : IsFrom(g, 1, n, item, next)

(* From each position on, its item and what is behind it.                  *)
Behind(S, n, item, next) ==
    /\ Chain(n, item, next) = Beyond(n, item, next)[1]
    /\ Beyond(n, item, next)[n + 1] = <<>>
    /\ \A i \in 1..n : Beyond(n, item, next)[i] = <<item[i]>> \o Beyond(n, item, next)[next[i]]
    /\ \A i \in 1..(n + 1) : Beyond(n, item, next)[i] \in Seq(S)

LEMMA ChainBeyond ==
    ASSUME NEW S, NEW n, n \in Nat, NEW item, NEW next, Forward(n, next),
           \A i \in 1..n : item[i] \in S
    PROVE  Behind(S, n, item, next)
<1> DEFINE from == Beyond(n, item, next)
           T == {k \in 0..n : \A j \in 0..k : from[n + 1 - j] \in Seq(S)}
<1>1. IsFrom(from, 1, n, item, next)
  BY FromExists DEF Beyond
<1>2. Chain(n, item, next) = from[1]
  BY DEF Chain, IsFrom, Beyond
<1> HIDE DEF from
<1>3. from[n + 1] = <<>> /\ \A i \in 1..n : from[i] = <<item[i]>> \o from[next[i]]
  <2>1. \A i \in 1..(n + 1) : from[i] = IF i > n THEN <<>> ELSE <<item[i]>> \o from[next[i]]
    BY <1>1 DEF IsFrom
  <2>2. n + 1 \in 1..(n + 1) /\ n + 1 > n /\ \A i \in 1..n : i \in 1..(n + 1) /\ ~(i > n)
    OBVIOUS
  <2> QED BY <2>1, <2>2
<1>4. 0 \in T
  <2>1. n + 1 - 0 = n + 1 /\ \A j \in 0..0 : j = 0
    OBVIOUS
  <2>2. <<>> \in Seq(S)
    OBVIOUS
  <2>3. 0 \in 0..n
    OBVIOUS
  <2>4. \A j \in 0..0 : from[n + 1 - j] \in Seq(S)
    <3> SUFFICES ASSUME NEW j \in 0..0 PROVE from[n + 1 - j] \in Seq(S)
      OBVIOUS
    <3>1. n + 1 - j = n + 1
      BY <2>1
    <3> QED BY <1>3, <2>2, <3>1
  <2> QED BY <2>3, <2>4
<1>5. ASSUME NEW k \in 0..(n - 1), k \in T PROVE k + 1 \in T
  <2> DEFINE i == n + 1 - (k + 1)
  <2>1. i \in 1..n /\ next[i] \in (i + 1)..(n + 1)
    BY DEF Forward
  <2>2. n + 1 - next[i] \in 0..k /\ n + 1 - (n + 1 - next[i]) = next[i]
    BY <2>1
  <2>3. from[next[i]] \in Seq(S)
    <3> HIDE DEF i
    <3>1. \A j \in 0..k : from[n + 1 - j] \in Seq(S)
      BY <1>5
    <3> QED BY <2>2, <3>1
  <2>4. from[i] = <<item[i]>> \o from[next[i]]
    BY <1>3, <2>1
  <2> HIDE DEF i
  <2>5. from[i] \in Seq(S)
    <3>1. <<item[i]>> \in Seq(S)
      BY <2>1
    <3> QED BY <2>3, <2>4, <3>1, ConcatProperties
  <2>6. \A j \in 0..(k + 1) : j \in 0..k \/ j = k + 1
    BY <1>5
  <2>7. \A j \in 0..(k + 1) : from[n + 1 - j] \in Seq(S)
    BY <1>5, <2>5, <2>6 DEF i
  <2> QED BY <2>7
<1>6. n \in T
  <2>1. T \in SUBSET (0..n)
    OBVIOUS
  <2> HIDE DEF T
  <2> QED BY <1>4, <1>5, <2>1, UpTo
<1>7. \A i \in 1..(n + 1) : from[i] \in Seq(S)
  <2> SUFFICES ASSUME NEW i \in 1..(n + 1) PROVE from[i] \in Seq(S)
    OBVIOUS
  <2>1. n + 1 - i \in 0..n /\ n + 1 - (n + 1 - i) = i
    OBVIOUS
  <2> QED BY <1>6, <2>1
<1> QED BY <1>2, <1>3, <1>7 DEF from, Behind

(* What is laid end to end from a position on: its item, and from where    *)
(* the loop goes on.                                                       *)
LEMMA FlatBeyond ==
    ASSUME NEW S, NEW n, n \in Nat, NEW item, NEW next, Forward(n, next),
           \A i \in 1..n : item[i] \in Seq(S)
    PROVE  LET rest(i) == FlattenSeq(Beyond(n, item, next)[i])
           IN  /\ FlattenSeq(Chain(n, item, next)) = rest(1)
               /\ rest(n + 1) = <<>>
               /\ \A i \in 1..n : rest(i) = item[i] \o rest(next[i])
               /\ \A i \in 1..(n + 1) : rest(i) \in Seq(S)
<1> DEFINE Q == Seq(S)
           from == Beyond(n, item, next)
           rest(i) == FlattenSeq(from[i])
<1>1. \A i \in 1..n : item[i] \in Q
  OBVIOUS
<1> HIDE DEF Q
<1>2. /\ Chain(n, item, next) = from[1] /\ from[n + 1] = <<>>
      /\ \A i \in 1..n : from[i] = <<item[i]>> \o from[next[i]]
      /\ \A i \in 1..(n + 1) : from[i] \in Seq(Q)
  <2>1. Behind(Q, n, item, next)
    BY <1>1, ChainBeyond
  <2> QED BY <2>1 DEF Behind
<1> HIDE DEF from
<1>3. \A i \in 1..(n + 1) : rest(i) \in Seq(S)
  BY <1>2, FlatTyped DEF Q
<1>4. ASSUME NEW i \in 1..n PROVE rest(i) = item[i] \o rest(next[i])
  <2>1. next[i] \in 1..(n + 1)
    <3>1. next[i] \in (i + 1)..(n + 1)
      BY DEF Forward
    <3> QED BY <3>1
  <2>2. from[next[i]] \in Seq(Seq(S)) /\ item[i] \in Seq(S)
    BY <1>2, <2>1 DEF Q
  <2> QED BY <1>2, <2>2, FlatFirst
<1> QED BY <1>2, <1>3, <1>4, FlatEmpty DEF from

-----------------------------------------------------------------------------
(* Where the special tokens are                                            *)

Occurs(s, p, k) == IsPrefix(k, SubSeq(s, p, Len(s)))

LEMMA OccursIs ==
    ASSUME NEW s \in Text, NEW k \in Text, k # <<>>, NEW p \in 1..Len(s)
    PROVE  Occurs(s, p, k) <=> p + Len(k) <= Len(s) + 1 /\ SubSeq(s, p, p + Len(k) - 1) = k
<1> DEFINE l == Len(s)
           u == SubSeq(s, p, l)
           n == Len(k)
<1>1. s \in Seq(Byte) /\ k \in Seq(Byte)
  BY DEF Text
<1> HIDE DEF Byte
<1>2. l \in Nat /\ n \in Nat /\ n >= 1
  BY <1>1
<1>3. SubSeq(k, 1, n) = k
  BY <1>1, SubSeqFull
<1>4. Len(u) = l - p + 1
  <2>1. p \in 1..(l + 1) /\ l \in (p - 1)..l
    BY <1>2
  <2> QED BY <2>1, PartOf
<1>5. Occurs(s, p, k) <=> n <= Len(u) /\ k = SubSeq(u, 1, n)
  BY <1>3 DEF Occurs, IsPrefix
<1>6. n <= Len(u) <=> p + n <= l + 1
  BY <1>2, <1>4
<1>7. ASSUME p + n <= l + 1 PROVE SubSeq(u, 1, n) = SubSeq(s, p, p + n - 1)
  <2>1. p \in 1..Len(s) /\ l \in 1..Len(s) /\ 1 \in 1..(l - p + 1) /\ n \in 1..(l - p + 1)
    BY <1>2, <1>7
  <2>2. SubSeq(SubSeq(s, p, l), 1, n) = SubSeq(s, p + 1 - 1, p + n - 1)
    BY <1>1, <2>1, SubSeqOfSubSeq
  <2>3. p + 1 - 1 = p
    OBVIOUS
  <2> QED BY <2>2, <2>3
<1> HIDE DEF u
<1> QED BY <1>5, <1>6, <1>7 DEF l, n

(* find_sub: the first occurrence from a position on.                      *)
FirstFrom(s, i, k, f) ==
    /\ f = 0 => \A p \in i..Len(s) : ~Occurs(s, p, k)
    /\ f # 0 => f \in i..Len(s) /\ Occurs(s, f, k) /\ \A p \in i..(f - 1) : ~Occurs(s, p, k)

LEMMA FindsFirst ==
    ASSUME NEW s \in Text, NEW k \in Text, k # <<>>, NEW i \in Nat \ {0}
    PROVE  FirstFrom(s, i, k, FindSub(s, i, k))
<1> DEFINE l == Len(s)
           n == Len(k)
           I == {p \in i..(l - n + 1) : SubSeq(s, p, p + n - 1) = k}
           f == FindSub(s, i, k)
<1>1. l \in Nat /\ n \in Nat /\ n >= 1
  <2>1. l \in Nat /\ n \in Nat
    BY TextBytes
  <2>2. n # 0
    <3>1. k \in Seq(Byte)
      BY DEF Text
    <3> HIDE DEF Byte
    <3> QED BY <3>1
  <2> QED BY <2>1, <2>2
<1>2. f = IF I = {} THEN 0 ELSE Min(I)
  BY DEF FindSub
<1>3. ASSUME NEW p \in i..l PROVE p \in I <=> Occurs(s, p, k)
  <2>1. p \in 1..Len(s)
    BY <1>1
  <2>2. p \in i..(l - n + 1) <=> p + n <= l + 1
    BY <1>1
  <2> QED BY <2>1, <2>2, OccursIs
<1>4. I \subseteq i..l
  BY <1>1
<1> HIDE DEF I, f
<1>5. CASE I = {}
  <2>1. f = 0
    BY <1>2, <1>5
  <2>2. \A p \in i..l : ~Occurs(s, p, k)
    BY <1>3, <1>5
  <2> QED BY <2>1, <2>2 DEF FirstFrom, f
<1>6. CASE I # {}
  <2>1. I \in SUBSET (0..l)
    <3>1. \A p \in i..l : p \in 0..l
      BY <1>1
    <3> QED BY <1>4, <3>1
  <2>2. f \in I /\ \A p \in I : f <= p
    BY <1>1, <1>2, <1>6, <2>1, Smallest
  <2>3. f \in i..l /\ f # 0 /\ Occurs(s, f, k)
    <3>1. f \in i..l
      BY <1>4, <2>2
    <3>2. f # 0
      BY <3>1
    <3> QED BY <1>3, <2>2, <3>1, <3>2
  <2>4. \A p \in i..(f - 1) : ~Occurs(s, p, k)
    <3> SUFFICES ASSUME NEW p \in i..(f - 1) PROVE ~Occurs(s, p, k)
      OBVIOUS
    <3>1. p \in i..l /\ ~(f <= p)
      BY <1>1, <2>3
    <3> QED BY <1>3, <2>2, <3>1
  <2> QED BY <2>3, <2>4 DEF FirstFrom, f
<1> QED BY <1>5, <1>6

-----------------------------------------------------------------------------
(* The reference, cut by cut                                               *)

HereOf(special, s, p) == {k \in special : Occurs(s, p, k)}
AtOf(special, s, i) == {p \in i..Len(s) : HereOf(special, s, p) # {}}
KeyOf(special, s, i) ==
    CHOOSE k \in HereOf(special, s, Min(AtOf(special, s, i))) :
        \A l \in HereOf(special, s, Min(AtOf(special, s, i))) : Len(l) <= Len(k)
CutOf(t, special, s) ==
    [i \in DOMAIN s |->
        IF AtOf(special, s, i) = {} THEN GapIds(t, SubSeq(s, i, Len(s)))
        ELSE GapIds(t, SubSeq(s, i, Min(AtOf(special, s, i)) - 1))
             \o <<t.special_tokens[KeyOf(special, s, i)]>>]
BehindOf(special, s) ==
    [i \in DOMAIN s |->
        IF AtOf(special, s, i) = {} THEN Len(s) + 1
        ELSE Min(AtOf(special, s, i)) + Len(KeyOf(special, s, i))]

(* What the reference gives from a position on.                            *)
RestOf(t, special, s, i) ==
    FlattenSeq(Beyond(Len(s), CutOf(t, special, s), BehindOf(special, s))[i])

LEMMA ReferenceCuts ==
    ASSUME NEW t, NEW special, NEW s
    PROVE  ReferenceIds(t, special, s) = FlattenSeq(Chain(Len(s), CutOf(t, special, s), BehindOf(special, s)))
BY DEF ReferenceIds, CutOf, BehindOf, KeyOf, AtOf, HereOf, Occurs

Keyed(special) == \A k \in special : k \in Text /\ k # <<>>

LEMMA KeyThere ==
    ASSUME NEW special, Keyed(special), NEW s \in Text, NEW i \in 1..Len(s), AtOf(special, s, i) # {}
    PROVE  LET first == Min(AtOf(special, s, i))
               key == KeyOf(special, s, i)
           IN  /\ first \in i..Len(s) /\ HereOf(special, s, first) # {}
               /\ \A p \in i..(first - 1) : HereOf(special, s, p) = {}
               /\ key \in HereOf(special, s, first)
               /\ first + Len(key) \in (i + 1)..(Len(s) + 1)
<1> DEFINE A == AtOf(special, s, i)
           l == Len(s)
           first == Min(A)
           H == HereOf(special, s, first)
           key == KeyOf(special, s, i)
<1>1. l \in Nat /\ i \in Nat /\ i >= 1
  BY TextBytes
<1>2. A \subseteq i..l /\ \A p \in i..l : p \in A <=> HereOf(special, s, p) # {}
  BY DEF AtOf
<1>3. key = CHOOSE k \in H : \A j \in H : Len(j) <= Len(k)
  BY DEF KeyOf
<1> HIDE DEF A, key
<1>4. A \in SUBSET (0..l) /\ A # {}
  <2>1. \A p \in i..l : p \in 0..l
    BY <1>1
  <2> QED BY <1>2, <2>1 DEF A
<1>5. first \in A /\ \A p \in A : first <= p
  BY <1>1, <1>4, Smallest
<1>6. first \in i..l /\ H # {}
  BY <1>2, <1>5
<1>7. \A p \in i..(first - 1) : HereOf(special, s, p) = {}
  <2> SUFFICES ASSUME NEW p \in i..(first - 1) PROVE HereOf(special, s, p) = {}
    OBVIOUS
  <2> HIDE DEF first
  <2>1. p \in i..l /\ ~(first <= p)
    BY <1>1, <1>6
  <2> QED BY <1>2, <1>5, <2>1 DEF first
<1> HIDE DEF first
<1>8. \A k \in H : k \in Text /\ Len(k) \in 1..(l + 1) /\ first + Len(k) <= l + 1
  <2> SUFFICES ASSUME NEW k \in H PROVE k \in Text /\ Len(k) \in 1..(l + 1) /\ first + Len(k) <= l + 1
    OBVIOUS
  <2>1. k \in Text /\ k # <<>> /\ Occurs(s, first, k)
    BY DEF HereOf, Keyed
  <2>2. first \in 1..Len(s)
    BY <1>1, <1>6
  <2>3. first + Len(k) <= l + 1
    BY <2>1, <2>2, OccursIs
  <2>4. Len(k) \in Nat /\ Len(k) # 0
    <3>1. k \in Seq(Byte)
      BY <2>1 DEF Text
    <3> HIDE DEF Byte
    <3> QED BY <2>1, <3>1
  <2> QED BY <1>1, <2>1, <2>2, <2>3, <2>4
<1> HIDE DEF H
<1>9. key \in H
  <2> DEFINE L == {Len(k) : k \in H}
  <2>1. L \in SUBSET (0..(l + 1)) /\ L # {} /\ l + 1 \in Nat
    <3>1. \A k \in H : Len(k) \in 0..(l + 1)
      BY <1>1, <1>8
    <3>2. H # {}
      BY <1>6 DEF H
    <3>3. l + 1 \in Nat
      BY <1>1
    <3> HIDE DEF l
    <3> QED BY <3>1, <3>2, <3>3
  <2>2. \A x \in L : \E k \in H : x = Len(k)
    OBVIOUS
  <2>3. \A k \in H : Len(k) \in L
    OBVIOUS
  <2> HIDE DEF L
  <2>4. \E x \in L : \A y \in L : y <= x
    BY <2>1, Greatest
  <2>5. \E k \in H : \A j \in H : Len(j) <= Len(k)
    BY <2>2, <2>3, <2>4
  <2> QED BY <1>3, <2>5 DEF H
<1>10. first + Len(key) \in (i + 1)..(l + 1)
  <2>1. Len(key) \in 1..(l + 1) /\ first + Len(key) <= l + 1
    BY <1>8, <1>9
  <2> QED BY <1>1, <1>6, <2>1
<1> QED BY <1>6, <1>7, <1>9, <1>10 DEF H, first, key, A, l

AllIds(t) == Int \cup {t.unk_id} \cup {t.vocab[k] : k \in DOMAIN t.vocab}
                 \cup {t.special_tokens[k] : k \in DOMAIN t.special_tokens}

LEMMA IdsAre ==
    ASSUME NEW t
    PROVE  IdsIn(t, AllIds(t)) /\ \A k \in DOMAIN t.special_tokens : t.special_tokens[k] \in AllIds(t)
BY DEF IdsIn, AllIds

LEMMA RestCuts ==
    ASSUME NEW t, Encodes(t), NEW special \in SUBSET DOMAIN t.special_tokens, Keyed(special), NEW s \in Text
    PROVE  /\ ReferenceIds(t, special, s) = RestOf(t, special, s, 1)
           /\ RestOf(t, special, s, Len(s) + 1) = <<>>
           /\ \A i \in 1..Len(s) :
                  RestOf(t, special, s, i) =
                      CutOf(t, special, s)[i] \o RestOf(t, special, s, BehindOf(special, s)[i])
           /\ \A i \in 1..(Len(s) + 1) : RestOf(t, special, s, i) \in Seq(AllIds(t))
<1> DEFINE S == AllIds(t)
           l == Len(s)
           item == CutOf(t, special, s)
           next == BehindOf(special, s)
<1>1. l \in Nat /\ DOMAIN s = 1..l
  BY TextBytes
<1>2. IdsIn(t, S) /\ \A k \in special : t.special_tokens[k] \in S
  BY IdsAre
<1>3. Forward(l, next)
  <2> SUFFICES ASSUME NEW i \in 1..l PROVE next[i] \in (i + 1)..(l + 1)
    BY DEF Forward
  <2>1. next[i] = IF AtOf(special, s, i) = {} THEN l + 1
                  ELSE Min(AtOf(special, s, i)) + Len(KeyOf(special, s, i))
    BY <1>1 DEF BehindOf
  <2>2. l + 1 \in (i + 1)..(l + 1)
    BY <1>1
  <2> QED BY <2>1, <2>2, KeyThere
<1>4. ASSUME NEW i \in 1..l PROVE item[i] \in Seq(S)
  <2>1. CASE AtOf(special, s, i) = {}
    <3>1. item[i] = GapIds(t, SubSeq(s, i, l))
      BY <1>1, <2>1 DEF CutOf
    <3>2. i \in 1..(Len(s) + 1) /\ l \in (i - 1)..Len(s)
      BY <1>1
    <3>3. SubSeq(s, i, l) \in Text
      BY <3>2, PartOf
    <3> HIDE DEF S
    <3> QED BY <1>2, <3>1, <3>3, GapTyped
  <2>2. CASE AtOf(special, s, i) # {}
    <3> DEFINE first == Min(AtOf(special, s, i))
               key == KeyOf(special, s, i)
    <3>1. item[i] = GapIds(t, SubSeq(s, i, first - 1)) \o <<t.special_tokens[key]>>
      BY <1>1, <2>2 DEF CutOf
    <3>2. first \in i..l /\ key \in special
      BY <2>2, KeyThere DEF HereOf
    <3> HIDE DEF first, key, S
    <3>3. i \in 1..(Len(s) + 1) /\ first - 1 \in (i - 1)..Len(s)
      BY <1>1, <3>2
    <3>4. SubSeq(s, i, first - 1) \in Text
      BY <3>3, PartOf
    <3>5. GapIds(t, SubSeq(s, i, first - 1)) \in Seq(S)
      BY <1>2, <3>4, GapTyped
    <3>6. <<t.special_tokens[key]>> \in Seq(S)
      BY <1>2, <3>2
    <3> QED BY <3>1, <3>5, <3>6, ConcatProperties
  <2> QED BY <2>1, <2>2
<1> HIDE DEF S, item, next
<1>5. LET rest(i) == FlattenSeq(Beyond(l, item, next)[i])
      IN  /\ FlattenSeq(Chain(l, item, next)) = rest(1)
          /\ rest(l + 1) = <<>>
          /\ \A i \in 1..l : rest(i) = item[i] \o rest(next[i])
          /\ \A i \in 1..(l + 1) : rest(i) \in Seq(S)
  BY <1>1, <1>3, <1>4, FlatBeyond
<1>6. \A i : RestOf(t, special, s, i) = FlattenSeq(Beyond(l, item, next)[i])
  BY DEF RestOf, item, next
<1>7. ReferenceIds(t, special, s) = FlattenSeq(Chain(l, item, next))
  BY ReferenceCuts DEF item, next
<1> QED BY <1>5, <1>6, <1>7 DEF S, item, next

-----------------------------------------------------------------------------
(* What is still owed to the reference                                     *)

Special == IF parse_special THEN DOMAIN tok.special_tokens ELSE {}

(* The cached sites are first occurrences from where the cursor was.       *)
SiteInv ==
    pc = "scan" =>
        /\ DOMAIN sites = Special /\ Keyed(Special)
        /\ \A k \in Special : tok.special_tokens[k] \in Nat
        /\ \A k \in Special : \E q \in 1..pos : sites[k] = FindSub(text, q, k)
        /\ pos \in 1..(Len(text) + 1)

ItemIds(t, item) == IF item.special >= 0 THEN <<item.special>> ELSE WordIds(t, item.word)
OwedOf(t, items) == [i \in DOMAIN items |-> ItemIds(t, items[i])]

Reference == ReferenceIds(tok, Special, text)

(* The ids so far, those of todo, and those behind the cursor.             *)
OwedInv ==
    /\ pc = "load" => ids = <<>> /\ todo = <<>> /\ pos = 1
    /\ pc = "wordpiece" => tok.type = "wordpiece"
    /\ pc = "scan" => /\ ids \in Seq(AllIds(tok))
                      /\ Reference = ids \o (FlattenSeq(OwedOf(tok, todo)) \o RestOf(tok, Special, text, pos))
    /\ pc = "decode" /\ tok.type # "wordpiece" => ids = Reference

LEMMA ProbedFirst ==
    ASSUME TextInv, SiteInv, pc = "scan", NEW k \in Special
    PROVE  /\ FirstFrom(text, pos, k, Probed(k))
           /\ \E q \in 1..pos : Probed(k) = FindSub(text, q, k)
<1>1. text \in Text /\ pos \in Nat \ {0} /\ Len(text) \in Nat /\ k \in Text /\ k # <<>>
  BY TextBytes DEF TextInv, SiteInv, Keyed
<1>2. PICK q \in 1..pos : sites[k] = FindSub(text, q, k)
  BY DEF SiteInv
<1>3. CASE sites[k] # 0 /\ sites[k] < pos
  <2>1. Probed(k) = FindSub(text, pos, k) /\ pos \in 1..pos
    BY <1>1, <1>3 DEF Probed
  <2> QED BY <1>1, <2>1, FindsFirst
<1>4. CASE ~(sites[k] # 0 /\ sites[k] < pos)
  <2>1. Probed(k) = FindSub(text, q, k)
    BY <1>2, <1>4 DEF Probed
  <2> DEFINE f == FindSub(text, q, k)
  <2>2. FirstFrom(text, q, k, f)
    <3>1. q \in Nat \ {0}
      BY <1>1
    <3> QED BY <1>1, <3>1, FindsFirst
  <2>3. ~(f # 0 /\ f < pos)
    BY <1>2, <1>4
  <2> HIDE DEF f
  <2>4. f = 0 => \A p \in pos..Len(text) : ~Occurs(text, p, k)
    <3>1. \A p \in pos..Len(text) : p \in q..Len(text)
      BY <1>1
    <3> QED BY <2>2, <3>1 DEF FirstFrom
  <2>5. ASSUME f # 0
        PROVE  f \in pos..Len(text) /\ Occurs(text, f, k) /\ \A p \in pos..(f - 1) : ~Occurs(text, p, k)
    <3>1. f \in q..Len(text) /\ Occurs(text, f, k) /\ \A p \in q..(f - 1) : ~Occurs(text, p, k)
      BY <2>2, <2>5 DEF FirstFrom
    <3>2. f \in pos..Len(text)
      BY <1>1, <2>3, <2>5, <3>1
    <3>3. \A p \in pos..(f - 1) : p \in q..(f - 1)
      BY <1>1, <3>2
    <3> QED BY <3>1, <3>2, <3>3
  <2> QED BY <2>1, <2>4, <2>5 DEF FirstFrom, f
<1> QED BY <1>3, <1>4

(* A round of the scan cuts where the reference does.                      *)
LEMMA ScanCuts ==
    ASSUME TextInv, SiteInv, pc = "scan", pos <= Len(text)
    PROVE  /\ AtOf(Special, text, pos) = {} <=> Ahead = {}
           /\ Ahead # {} => Min(AtOf(Special, text, pos)) = First /\ KeyOf(Special, text, pos) = Best
<1> DEFINE A == AtOf(Special, text, pos)
           l == Len(text)
<1>1. l \in Nat /\ pos \in 1..l /\ text \in Text /\ DOMAIN sites = Special /\ Keyed(Special)
  BY TextBytes DEF TextInv, SiteInv
<1>2. \A k \in Special : FirstFrom(text, pos, k, Probed(k))
  BY ProbedFirst
<1>3. \A k : k \in Ahead <=> k \in Special /\ Probed(k) # 0
  BY <1>1 DEF Ahead
<1>4. \A p \in pos..l : p \in A <=> \E k \in Special : Occurs(text, p, k)
  BY DEF AtOf, HereOf
<1>5. A \subseteq pos..l
  BY DEF AtOf
<1> HIDE DEF A
<1>6. \A k \in Ahead : Probed(k) \in pos..l /\ Occurs(text, Probed(k), k) /\ Probed(k) \in A
  BY <1>2, <1>3, <1>4 DEF FirstFrom
<1>7. ASSUME NEW k \in Special, NEW p \in pos..l, Occurs(text, p, k)
      PROVE  k \in Ahead /\ Probed(k) <= p
  <2>1. Probed(k) # 0
    BY <1>2, <1>7 DEF FirstFrom
  <2>2. Probed(k) \in pos..l /\ p \notin pos..(Probed(k) - 1)
    BY <1>2, <1>7, <2>1 DEF FirstFrom
  <2>3. Probed(k) <= p
    BY <1>1, <2>2
  <2> QED BY <1>3, <2>1, <2>3
<1>8. A = {} <=> Ahead = {}
  <2>1. ASSUME NEW p \in A PROVE Ahead # {}
    <3>1. p \in pos..l
      BY <1>5
    <3>2. PICK k \in Special : Occurs(text, p, k)
      BY <1>4, <3>1
    <3> QED BY <1>7, <3>1, <3>2
  <2> QED BY <1>6, <2>1
<1>9. ASSUME Ahead # {} PROVE Min(A) = First /\ KeyOf(Special, text, pos) = Best
  <2> DEFINE P == {Probed(k) : k \in Ahead}
  <2>1. First = Min(P)
    BY DEF First
  <2>2. P \in SUBSET (0..l) /\ P # {}
    <3>1. \A k \in Ahead : Probed(k) \in 0..l
      <4>1. \A x \in pos..l : x \in 0..l
        BY <1>1
      <4> QED BY <1>6, <4>1
    <3> QED BY <1>9, <3>1
  <2>3. \A x \in P : \E k \in Ahead : x = Probed(k)
    OBVIOUS
  <2>4. \A k \in Ahead : Probed(k) \in P
    OBVIOUS
  <2> HIDE DEF P
  <2>5. First \in P /\ \A x \in P : First <= x
    BY <1>1, <2>1, <2>2, Smallest
  <2>6. PICK k0 \in Ahead : First = Probed(k0)
    BY <2>3, <2>5
  <2>7. First \in A /\ First \in pos..l
    BY <1>6, <2>6
  <2>8. ASSUME NEW p \in A PROVE First <= p
    <3>1. p \in pos..l
      BY <1>5
    <3>2. PICK k \in Special : Occurs(text, p, k)
      BY <1>4, <3>1
    <3>3. k \in Ahead /\ Probed(k) <= p
      BY <1>7, <3>1, <3>2
    <3>4. First <= Probed(k) /\ Probed(k) \in pos..l
      BY <1>6, <2>4, <2>5, <3>3
    <3> QED BY <1>1, <2>7, <3>1, <3>3, <3>4
  <2>9. Min(A) = First
    <3>1. A \in SUBSET (0..l) /\ A # {}
      <4>1. \A x \in pos..l : x \in 0..l
        BY <1>1
      <4> QED BY <1>5, <2>7, <4>1
    <3>2. Min(A) \in A /\ \A p \in A : Min(A) <= p
      BY <1>1, <3>1, Smallest
    <3>3. Min(A) <= First /\ First <= Min(A) /\ Min(A) \in pos..l
      BY <1>5, <2>7, <2>8, <3>2
    <3> QED BY <1>1, <2>7, <3>3
  <2>10. HereOf(Special, text, First) = Here
    <3>1. ASSUME NEW k \in Here PROVE k \in HereOf(Special, text, First)
      <4>1. k \in Ahead /\ Probed(k) = First
        BY DEF Here
      <4> QED BY <1>3, <1>6, <4>1 DEF HereOf
    <3>2. ASSUME NEW k \in HereOf(Special, text, First) PROVE k \in Here
      <4>1. k \in Special /\ Occurs(text, First, k)
        BY DEF HereOf
      <4>2. k \in Ahead /\ Probed(k) <= First
        BY <1>7, <2>7, <4>1
      <4>3. First <= Probed(k) /\ Probed(k) \in pos..l
        BY <1>6, <2>4, <2>5, <4>2
      <4>4. Probed(k) = First
        BY <1>1, <2>7, <4>2, <4>3
      <4> QED BY <4>2, <4>4 DEF Here
    <3> QED BY <3>1, <3>2
  <2>11. KeyOf(Special, text, pos) = Best
    BY <2>9, <2>10 DEF KeyOf, Best, A
  <2> QED BY <2>9, <2>11
<1> QED BY <1>8, <1>9 DEF A

LEMMA ItemTyped ==
    ASSUME NEW t, Encodes(t), NEW item \in Item PROVE ItemIds(t, item) \in Seq(AllIds(t))
<1>1. item.word \in Text /\ item.special \in AllIds(t)
  BY DEF Item, AllIds
<1> DEFINE S == AllIds(t)
<1>2. IdsIn(t, S)
  BY IdsAre
<1> HIDE DEF S
<1>3. WordIds(t, item.word) \in Seq(S)
  BY <1>1, <1>2, WordIdsTyped
<1>4. <<item.special>> \in Seq(S)
  BY <1>1 DEF S
<1> QED BY <1>3, <1>4 DEF ItemIds, S

LEMMA OwedTyped ==
    ASSUME NEW t, Encodes(t), NEW items \in Seq(Item)
    PROVE  /\ OwedOf(t, items) \in Seq(Seq(AllIds(t))) /\ Len(OwedOf(t, items)) = Len(items)
           /\ Len(items) \in Nat /\ \A i \in 1..Len(items) : OwedOf(t, items)[i] = ItemIds(t, items[i])
<1> DEFINE Q == Seq(AllIds(t))
           n == Len(items)
           owed == OwedOf(t, items)
<1>1. n \in Nat /\ DOMAIN items = 1..n /\ \A i \in 1..n : ItemIds(t, items[i]) \in Q
  <2> HIDE DEF Q
  <2>1. n \in Nat /\ DOMAIN items = 1..n /\ \A i \in 1..n : items[i] \in Item
    OBVIOUS
  <2> QED BY <2>1, ItemTyped DEF Q
<1>2. owed = [i \in 1..n |-> ItemIds(t, items[i])]
  BY <1>1 DEF OwedOf
<1> HIDE DEF owed, Q, n
<1>3. owed \in Seq(Q) /\ Len(owed) = n /\ \A i \in 1..n : owed[i] = ItemIds(t, items[i])
  BY <1>1, <1>2
<1> QED BY <1>1, <1>3 DEF Q, owed, n

LEMMA OwedConcat ==
    ASSUME NEW t, Encodes(t), NEW a \in Seq(Item), NEW b \in Seq(Item)
    PROVE  FlattenSeq(OwedOf(t, a \o b)) = FlattenSeq(OwedOf(t, a)) \o FlattenSeq(OwedOf(t, b))
<1> DEFINE Q == Seq(AllIds(t))
           c == a \o b
           x == OwedOf(t, a)
           y == OwedOf(t, b)
           z == OwedOf(t, c)
           m == Len(a)
           n == Len(b)
<1>1. /\ m \in Nat /\ n \in Nat /\ c \in Seq(Item) /\ Len(c) = m + n
      /\ \A i \in 1..(m + n) : c[i] = IF i <= m THEN a[i] ELSE b[i - m]
  BY ConcatProperties
<1> HIDE DEF c
<1>2. /\ x \in Seq(Q) /\ Len(x) = m /\ y \in Seq(Q) /\ Len(y) = n /\ z \in Seq(Q) /\ Len(z) = m + n
      /\ \A i \in 1..m : x[i] = ItemIds(t, a[i])
      /\ \A i \in 1..n : y[i] = ItemIds(t, b[i])
      /\ \A i \in 1..(m + n) : z[i] = ItemIds(t, c[i])
  BY <1>1, OwedTyped
<1> HIDE DEF x, y, z, Q, m, n
<1>3. /\ x \o y \in Seq(Q) /\ Len(x \o y) = m + n
      /\ \A i \in 1..(m + n) : (x \o y)[i] = IF i <= m THEN x[i] ELSE y[i - m]
  BY <1>2, ConcatProperties
<1>4. \A i \in 1..(m + n) : z[i] = (x \o y)[i]
  <2> SUFFICES ASSUME NEW i \in 1..(m + n) PROVE z[i] = (x \o y)[i]
    OBVIOUS
  <2>1. CASE i <= m
    <3>1. i \in 1..m
      BY <1>1, <2>1
    <3>2. z[i] = ItemIds(t, c[i])
      BY <1>2
    <3>3. c[i] = a[i]
      BY <1>1, <2>1
    <3>4. x[i] = ItemIds(t, a[i])
      BY <1>2, <3>1
    <3>5. (x \o y)[i] = x[i]
      BY <1>3, <2>1
    <3> QED BY <3>2, <3>3, <3>4, <3>5
  <2>2. CASE ~(i <= m)
    <3>1. i - m \in 1..n
      BY <1>1, <2>2
    <3>2. z[i] = ItemIds(t, c[i])
      BY <1>2
    <3>3. c[i] = b[i - m]
      BY <1>1, <2>2
    <3>4. y[i - m] = ItemIds(t, b[i - m])
      BY <1>2, <3>1
    <3>5. (x \o y)[i] = y[i - m]
      BY <1>3, <2>2
    <3> QED BY <3>2, <3>3, <3>4, <3>5
  <2> QED BY <2>1, <2>2
<1>5. z = x \o y
  BY <1>2, <1>3, <1>4, SeqEqual
<1>6. FlattenSeq(x \o y) = FlattenSeq(x) \o FlattenSeq(y)
  BY <1>2, FlatConcat DEF Q
<1> QED BY <1>5, <1>6 DEF x, y, z, c

LEMMA OwedOne ==
    ASSUME NEW t, Encodes(t), NEW item \in Item
    PROVE  FlattenSeq(OwedOf(t, <<item>>)) = ItemIds(t, item)
<1> DEFINE x == OwedOf(t, <<item>>)
           one == <<item>>
<1>1. one \in Seq(Item) /\ Len(one) = 1 /\ one[1] = item /\ DOMAIN one = {1}
  OBVIOUS
<1>2. x = <<ItemIds(t, item)>>
  <2>1. x = [i \in {1} |-> ItemIds(t, item)]
    BY <1>1 DEF OwedOf
  <2> QED BY <2>1
<1> HIDE DEF x
<1>3. ItemIds(t, item) \in Seq(AllIds(t))
  BY ItemTyped
<1> QED BY <1>2, <1>3, FlatOne DEF x

(* One item is emitted.                                                    *)
LEMMA EmittedItem ==
    ASSUME NEW t, Encodes(t), NEW items \in Seq(Item), items # <<>>,
           NEW got \in Seq(AllIds(t)), NEW rest \in Seq(AllIds(t))
    PROVE  /\ got \o ItemIds(t, Head(items)) \in Seq(AllIds(t))
           /\ got \o (FlattenSeq(OwedOf(t, items)) \o rest)
                  = (got \o ItemIds(t, Head(items))) \o (FlattenSeq(OwedOf(t, Tail(items))) \o rest)
<1> DEFINE S == AllIds(t)
           b == ItemIds(t, Head(items))
           c == FlattenSeq(OwedOf(t, Tail(items)))
<1>1. /\ Head(items) \in Item /\ Tail(items) \in Seq(Item) /\ <<Head(items)>> \in Seq(Item)
      /\ items = <<Head(items)>> \o Tail(items)
  <2>1. Head(items) \in Item /\ Tail(items) \in Seq(Item) /\ <<Head(items)>> \in Seq(Item)
    OBVIOUS
  <2>2. SubSeq(items, 1, Len(items)) = items
    BY SubSeqFull
  <2>3. 1 \in 1..Len(items) /\ Len(items) \in 1..Len(items) /\ 1 + 1 = 2 /\ items[1] = Head(items)
    OBVIOUS
  <2>4. SubSeq(items, 1, Len(items)) = <<items[1]>> \o SubSeq(items, 1 + 1, Len(items))
    BY <2>3, SubSeqRecursiveFirst
  <2>5. Tail(items) = SubSeq(items, 2, Len(items))
    BY TailIsSubSeq
  <2> QED BY <2>1, <2>2, <2>3, <2>4, <2>5
<1>2. FlattenSeq(OwedOf(t, items)) = b \o c
  <2>1. FlattenSeq(OwedOf(t, <<Head(items)>> \o Tail(items))) = FlattenSeq(OwedOf(t, <<Head(items)>>)) \o c
    BY <1>1, OwedConcat
  <2>2. FlattenSeq(OwedOf(t, <<Head(items)>>)) = b
    BY <1>1, OwedOne
  <2> QED BY <1>1, <2>1, <2>2
<1>3. b \in Seq(S) /\ c \in Seq(S)
  <2>1. OwedOf(t, Tail(items)) \in Seq(Seq(S))
    BY <1>1, OwedTyped
  <2>2. b \in Seq(S)
    BY <1>1, ItemTyped
  <2> HIDE DEF S
  <2> QED BY <2>1, <2>2, FlatTyped
<1> HIDE DEF b, c, S
<1>4. got \in Seq(S) /\ rest \in Seq(S)
  BY DEF S
<1>5. (b \o c) \o rest = b \o (c \o rest)
  BY <1>3, <1>4, ConcatAssociative
<1>6. c \o rest \in Seq(S)
  BY <1>3, <1>4, ConcatProperties
<1>7. (got \o b) \o (c \o rest) = got \o (b \o (c \o rest))
  <2> DEFINE d == c \o rest
  <2>1. d \in Seq(S)
    BY <1>6
  <2> HIDE DEF d
  <2>2. (got \o b) \o d = got \o (b \o d)
    BY <1>3, <1>4, <2>1, ConcatAssociative, SMTT(60)
  <2> QED BY <2>2 DEF d
<1>8. got \o b \in Seq(S)
  BY <1>3, <1>4, ConcatProperties
<1> QED BY <1>2, <1>5, <1>7, <1>8 DEF b, c, S

(* The special tokens of a loaded tokenizer are strings, and have ids.     *)
LEMMA LoadedSpecial ==
    ASSUME NEW d \in Directory, LoadsDir(d)
    PROVE  \A k \in DOMAIN LoadDir(d).special_tokens :
               k \in Text /\ k # <<>> /\ LoadDir(d).special_tokens[k] \in Nat
<1> DEFINE f == FileOf(d)
<1>1. Listed(f) /\ AddedConsistent(f) /\ Typed(f)
  BY FileListed, FileTyped DEF LoadsDir, Accepted
<1>2. LoadDir(d).special_tokens = SpecialTokens(f)
  BY DEF LoadDir, LoadJson
<1> HIDE DEF f
<1>3. Bounded(Added(f))
  BY <1>1 DEF Listed, Bounded, Added
<1>4. \A k \in DOMAIN SpecialTokens(f) : \E i \in Added(f) :
          AddedContents(f)[i] = k /\ SpecialTokens(f)[k] = AddedIds(f)[i]
  BY <1>3, LastEntry DEF SpecialTokens
<1>5. \A i \in Added(f) : /\ AddedContents(f)[i] = f.added[i].content /\ f.added[i].content # <<>>
                          /\ AddedIds(f)[i] = f.added[i].id /\ i \in DOMAIN f.added
  BY DEF Added, AddedContents, AddedIds
<1>6. \A i \in Added(f) : f.added[i].id \in Nat
  <2>1. \A id : ValidId(id) => id \in Nat
    BY NamesAssumption DEF ValidId
  <2> QED BY <1>1, <2>1 DEF AddedConsistent
<1> QED BY <1>1, <1>2, <1>4, <1>5, <1>6 DEF Typed

(* The next state of what is still owed: the reference's variables stay.   *)
LEMMA SameReference ==
    ASSUME tok' = tok, parse_special' = parse_special, text' = text
    PROVE  /\ Special' = Special /\ Reference' = Reference
           /\ AllIds(tok)' = AllIds(tok)
           /\ \A i : RestOf(tok', Special', text', i) = RestOf(tok, Special, text, i)
BY DEF Special, Reference, AllIds

LEMMA LoadOwes == ASSUME TextInv, Ready, OwedInv, Load PROVE SiteInv' /\ OwedInv'
<1>1. CASE LoadsDir(dir)
  <2> DEFINE t == LoadDir(dir)
             normal == Normal(t.norm_form, text)
  <2>1. /\ pc = "load" /\ tok' = t /\ text' = normal /\ pos' = pos /\ parse_special' = parse_special
        /\ ids' = ids /\ todo' = todo
        /\ pc' = IF t.type = "wordpiece" THEN "wordpiece" ELSE "scan"
        /\ sites' = IF parse_special
                    THEN [k \in DOMAIN t.special_tokens |-> FindSub(normal, 1, k)] ELSE <<>>
    BY <1>1 DEF Load
  <2>2. ids = <<>> /\ todo = <<>> /\ pos = 1
    BY <2>1 DEF OwedInv
  <2>3. dir \in Directory /\ text \in Text
    BY DEF TextInv, Loaded
  <2>4. Encodes(t) /\ \A k \in DOMAIN t.special_tokens : k \in Text /\ k # <<>> /\ t.special_tokens[k] \in Nat
    BY <1>1, <2>3, LoadedEncodes, LoadedSpecial
  <2> HIDE DEF t
  <2>5. normal \in Text /\ Len(normal) \in Nat
    <3>1. t.norm_form \in {"NFC", "NFKC", "none"}
      BY <2>4 DEF Encodes
    <3> QED BY <2>3, <3>1, NormalText, TextBytes
  <2> HIDE DEF normal
  <2> DEFINE special == IF parse_special THEN DOMAIN t.special_tokens ELSE {}
  <2>6. Special' = special
    BY <2>1 DEF Special
  <2>7. special \in SUBSET DOMAIN t.special_tokens /\ Keyed(special)
    BY <2>4 DEF Keyed
  <2>8. DOMAIN sites' = special /\ \A k \in special : sites'[k] = FindSub(normal, 1, k)
    <3>1. DOMAIN <<>> = {}
      OBVIOUS
    <3>2. CASE parse_special
      BY <2>1, <3>2
    <3>3. CASE ~parse_special
      BY <2>1, <3>1, <3>3
    <3> QED BY <3>2, <3>3
  <2>9. SiteInv'
    <3>1. 1 \in 1..1 /\ 1 \in 1..(Len(normal) + 1)
      BY <2>5
    <3>2. \A k \in special : t.special_tokens[k] \in Nat
      BY <2>4, <2>7
    <3> HIDE DEF special
    <3>3. /\ DOMAIN sites' = Special' /\ Keyed(Special')
          /\ \A k \in Special' : tok'.special_tokens[k] \in Nat
          /\ \A k \in Special' : \E q \in 1..pos' : sites'[k] = FindSub(text', q, k)
          /\ pos' \in 1..(Len(text') + 1)
      BY <2>1, <2>2, <2>6, <2>7, <2>8, <3>1, <3>2
    <3> QED BY <3>3 DEF SiteInv
  <2>10. OwedInv'
    <3> HIDE DEF special
    <3>1. Reference' = RestOf(t, special, normal, 1) /\ RestOf(t, special, normal, 1) \in Seq(AllIds(t))
      <4>1. Reference' = ReferenceIds(t, special, normal)
        BY <2>1, <2>6 DEF Reference
      <4>2. 1 \in 1..(Len(normal) + 1)
        BY <2>5
      <4> QED BY <2>4, <2>5, <2>7, <4>1, <4>2, RestCuts
    <3>2. FlattenSeq(OwedOf(t, <<>>)) = <<>>
      <4>1. OwedOf(t, <<>>) = <<>>
        BY DEF OwedOf
      <4> QED BY <4>1, FlatEmpty
    <3>3. RestOf(t, special, normal, 1) = <<>> \o (FlattenSeq(OwedOf(t, <<>>)) \o RestOf(t, special, normal, 1))
      BY <3>1, <3>2, ConcatEmptySeq
    <3>4. <<>> \in Seq(AllIds(t))
      OBVIOUS
    <3>5. /\ ids' \in Seq(AllIds(tok'))
          /\ Reference' = ids' \o (FlattenSeq(OwedOf(tok', todo')) \o RestOf(tok', Special', text', pos'))
      BY <2>1, <2>2, <2>6, <3>1, <3>3, <3>4
    <3>6. pc' # "load" /\ pc' # "decode" /\ (pc' = "wordpiece" => tok'.type = "wordpiece")
      BY <2>1
    <3>7. AllIds(tok)' = AllIds(tok')
      BY DEF AllIds
    <3> QED BY <3>5, <3>6, <3>7 DEF OwedInv
  <2> QED BY <2>9, <2>10
<1>2. CASE ~LoadsDir(dir)
  <2>1. pc' = "refused"
    BY <1>2 DEF Load
  <2> QED BY <2>1 DEF SiteInv, OwedInv
<1> QED BY <1>1, <1>2

-----------------------------------------------------------------------------
(* A round of the scan owes what the reference's cut gives                 *)

LEMMA ScanMoves ==
    ASSUME TextInv, Ready, SiteInv, Scan
    PROVE  /\ pos \in 1..Len(text) /\ pos' = BehindOf(Special, text)[pos]
           /\ pos' \in (pos + 1)..(Len(text) + 1)
<1>1. pc = "scan" /\ pos <= Len(text) /\ text \in Text
  BY DEF Scan, TextInv
<1>2. Len(text) \in Nat /\ DOMAIN text = 1..Len(text) /\ pos \in 1..Len(text) /\ Keyed(Special)
  BY <1>1, TextBytes DEF SiteInv
<1>3. pos' = IF Ahead = {} THEN Len(text) + 1 ELSE First + Len(Best)
  BY DEF Scan, Ahead, First, Here, Best
<1>4. BehindOf(Special, text)[pos] =
        IF AtOf(Special, text, pos) = {} THEN Len(text) + 1
        ELSE Min(AtOf(Special, text, pos)) + Len(KeyOf(Special, text, pos))
  BY <1>2 DEF BehindOf
<1>5. pos' = BehindOf(Special, text)[pos]
  BY <1>1, <1>3, <1>4, ScanCuts
<1>6. CASE AtOf(Special, text, pos) = {}
  BY <1>2, <1>4, <1>5, <1>6
<1>7. CASE AtOf(Special, text, pos) # {}
  BY <1>1, <1>2, <1>4, <1>5, <1>7, KeyThere
<1> QED BY <1>2, <1>5, <1>6, <1>7

LEMMA ScanSites ==
    ASSUME TextInv, Ready, SiteInv, Scan PROVE SiteInv'
<1>1. pc = "scan" /\ UNCHANGED <<tok, parse_special, text, pc>> /\ sites' = [k \in DOMAIN sites |-> Probed(k)]
  BY DEF Scan
<1>2. pos \in 1..Len(text) /\ pos' \in (pos + 1)..(Len(text) + 1) /\ Len(text) \in Nat
  BY ScanMoves, TextBytes DEF TextInv
<1>3. Special' = Special
  BY <1>1 DEF Special
<1>4. \A k \in Special : \E q \in 1..pos' : sites'[k] = FindSub(text', q, k)
  <2> SUFFICES ASSUME NEW k \in Special PROVE \E q \in 1..pos' : sites'[k] = FindSub(text', q, k)
    OBVIOUS
  <2>1. PICK q \in 1..pos : Probed(k) = FindSub(text, q, k)
    BY <1>1, ProbedFirst
  <2>2. q \in 1..pos'
    BY <1>2
  <2>3. k \in DOMAIN sites
    BY <1>1 DEF SiteInv
  <2> QED BY <1>1, <2>1, <2>2, <2>3
<1>5. pos' \in 1..(Len(text') + 1)
  BY <1>1, <1>2
<1>6. DOMAIN sites' = Special' /\ Keyed(Special') /\ \A k \in Special' : tok'.special_tokens[k] \in Nat
  BY <1>1, <1>3 DEF SiteInv
<1> QED BY <1>3, <1>4, <1>5, <1>6 DEF SiteInv

(* The words of the gap, as items.                                         *)
LEMMA GapOwed ==
    ASSUME NEW t, Encodes(t), NEW gap \in Text
    PROVE  LET words == IF gap = <<>> THEN <<>> ELSE Words(t.type, gap)
               heads == [i \in DOMAIN words |-> [word |-> words[i], special |-> -1]]
           IN  heads \in Seq(Item) /\ FlattenSeq(OwedOf(t, heads)) = GapIds(t, gap)
<1> DEFINE words == IF gap = <<>> THEN <<>> ELSE Words(t.type, gap)
           heads == [i \in DOMAIN words |-> [word |-> words[i], special |-> -1]]
<1>1. CASE gap = <<>>
  <2>1. heads = <<>>
    BY <1>1
  <2>2. OwedOf(t, <<>>) = <<>>
    BY DEF OwedOf
  <2>3. GapIds(t, gap) = <<>>
    BY <1>1 DEF GapIds
  <2>4. <<>> \in Seq(Item)
    OBVIOUS
  <2> QED BY <2>1, <2>2, <2>3, <2>4, FlatEmpty
<1>2. CASE gap # <<>>
  <2>1. words = Words(t.type, gap)
    BY <1>2
  <2>2. words \in Seq(Text)
    BY <1>2, WordsFit
  <2>3. GapIds(t, gap) = FlattenSeq([i \in DOMAIN words |-> WordIds(t, words[i])])
    BY <1>2, <2>1, GapWords
  <2> HIDE DEF words
  <2>4. Len(words) \in Nat /\ DOMAIN words = 1..Len(words) /\ \A i \in DOMAIN words : words[i] \in Text
    BY <2>2
  <2>5. \A i \in DOMAIN words : heads[i] \in Item /\ heads[i].word = words[i] /\ heads[i].special = -1
    BY <2>4 DEF Item
  <2>6. heads = [i \in 1..Len(words) |-> heads[i]]
    BY <2>4
  <2>7. DOMAIN heads = DOMAIN words
    OBVIOUS
  <2> HIDE DEF heads
  <2>8. heads \in Seq(Item)
    BY <2>4, <2>5, <2>6
  <2>9. \A i \in DOMAIN words : ItemIds(t, heads[i]) = WordIds(t, words[i])
    BY <2>5 DEF ItemIds
  <2>10. OwedOf(t, heads) = [i \in DOMAIN words |-> WordIds(t, words[i])]
    BY <2>7, <2>9 DEF OwedOf
  <2> QED BY <2>3, <2>8, <2>10 DEF heads, words
<1> QED BY <1>1, <1>2

LEMMA ScanOwed ==
    ASSUME TextInv, Ready, SiteInv, Scan
    PROVE  FlattenSeq(OwedOf(tok, todo')) = CutOf(tok, Special, text)[pos]
<1> DEFINE words == IF Gap = <<>> THEN <<>> ELSE Words(tok.type, Gap)
           heads == [i \in DOMAIN words |-> [word |-> words[i], special |-> -1]]
<1>1. pc = "scan" /\ pos <= Len(text) /\ Encodes(tok)
  BY DEF Scan, Ready
<1>2. Len(text) \in Nat /\ pos \in DOMAIN text /\ DOMAIN sites = Special
  BY ScanMoves, TextBytes, <1>1 DEF TextInv, SiteInv
<1>3. Gap \in Text
  BY <1>1, ScanFinds
<1>4. heads \in Seq(Item) /\ FlattenSeq(OwedOf(tok, heads)) = GapIds(tok, Gap)
  BY <1>1, <1>3, GapOwed
<1>5. CASE Ahead = {}
  <2>1. todo' = heads \o <<>>
    BY <1>5 DEF Scan, Ahead, Gap, First
  <2> HIDE DEF heads
  <2>2. todo' = heads
    BY <1>4, <2>1, ConcatEmptySeq
  <2>3. Gap = SubSeq(text, pos, Len(text))
    <3>1. Gap = SubSeq(text, pos, (Len(text) + 1) - 1) /\ (Len(text) + 1) - 1 = Len(text)
      BY <1>2, <1>5 DEF Gap
    <3> QED BY <3>1
  <2>4. AtOf(Special, text, pos) = {}
    BY <1>1, <1>5, ScanCuts
  <2>5. CutOf(tok, Special, text)[pos] = GapIds(tok, SubSeq(text, pos, Len(text)))
    BY <1>2, <2>4 DEF CutOf
  <2> QED BY <1>4, <2>2, <2>3, <2>5
<1>6. CASE Ahead # {}
  <2> DEFINE item == [word |-> <<>>, special |-> tok.special_tokens[Best]]
  <2>1. todo' = heads \o <<item>>
    BY <1>6 DEF Scan, Ahead, Gap, First, Here, Best
  <2>2. tok.special_tokens[Best] \in Nat
    <3>1. Best \in DOMAIN sites
      BY <1>1, <1>6, ScanFinds
    <3> QED BY <1>1, <1>2, <3>1 DEF SiteInv
  <2>3. item \in Item /\ item.special = tok.special_tokens[Best] /\ item.special >= 0
    <3>1. <<>> \in Text
      BY DEF Text
    <3> QED BY <2>2, <3>1 DEF Item
  <2> HIDE DEF heads, item
  <2>4. <<item>> \in Seq(Item)
    BY <2>3
  <2>5. FlattenSeq(OwedOf(tok, todo')) = FlattenSeq(OwedOf(tok, heads)) \o FlattenSeq(OwedOf(tok, <<item>>))
    BY <1>1, <1>4, <2>1, <2>4, OwedConcat
  <2>6. FlattenSeq(OwedOf(tok, <<item>>)) = <<tok.special_tokens[Best]>>
    BY <1>1, <2>3, OwedOne DEF ItemIds
  <2>7. /\ AtOf(Special, text, pos) # {} /\ Min(AtOf(Special, text, pos)) = First
        /\ KeyOf(Special, text, pos) = Best
    BY <1>1, <1>6, ScanCuts
  <2>8. CutOf(tok, Special, text)[pos] =
          GapIds(tok, SubSeq(text, pos, First - 1)) \o <<tok.special_tokens[Best]>>
    BY <1>2, <2>7 DEF CutOf
  <2>9. Gap = SubSeq(text, pos, First - 1)
    BY <1>6 DEF Gap
  <2> QED BY <1>4, <2>5, <2>6, <2>8, <2>9
<1> QED BY <1>5, <1>6

LEMMA ScanOwes ==
    ASSUME TextInv, Ready, WordInv, SiteInv, OwedInv, Scan PROVE SiteInv' /\ OwedInv'
<1>1. /\ pc = "scan" /\ todo = <<>> /\ Encodes(tok) /\ text \in Text /\ Keyed(Special)
      /\ UNCHANGED <<tok, parse_special, text, pc, ids>>
  BY DEF Scan, Ready, TextInv, SiteInv
<1>2. /\ ids \in Seq(AllIds(tok))
      /\ Reference = ids \o (FlattenSeq(OwedOf(tok, todo)) \o RestOf(tok, Special, text, pos))
  BY <1>1 DEF OwedInv
<1>3. Special \in SUBSET DOMAIN tok.special_tokens
  BY DEF Special
<1>4. pos \in 1..Len(text) /\ pos' = BehindOf(Special, text)[pos]
  BY ScanMoves
<1>5. /\ RestOf(tok, Special, text, pos) \in Seq(AllIds(tok))
      /\ RestOf(tok, Special, text, pos) = CutOf(tok, Special, text)[pos] \o RestOf(tok, Special, text, pos')
  <2>1. pos \in 1..(Len(text) + 1)
    BY <1>4
  <2> QED BY <1>1, <1>3, <1>4, <2>1, RestCuts
<1>6. FlattenSeq(OwedOf(tok, todo)) \o RestOf(tok, Special, text, pos) = RestOf(tok, Special, text, pos)
  <2>1. OwedOf(tok, <<>>) = <<>>
    BY DEF OwedOf
  <2> QED BY <1>1, <1>5, <2>1, FlatEmpty, ConcatEmptySeq
<1>7. Reference = ids \o (FlattenSeq(OwedOf(tok, todo')) \o RestOf(tok, Special, text, pos'))
  BY <1>2, <1>5, <1>6, ScanOwed
<1>8. /\ ids' \in Seq(AllIds(tok)')
      /\ Reference' = ids' \o (FlattenSeq(OwedOf(tok', todo')) \o RestOf(tok', Special', text', pos'))
  BY <1>1, <1>2, <1>7, SameReference
<1>9. OwedInv'
  BY <1>1, <1>8 DEF OwedInv
<1> QED BY <1>9, ScanSites

(* The head of todo is emitted as the reference has it.                    *)
LEMMA EmitOwes ==
    ASSUME TextInv, Ready, WordInv, SiteInv, OwedInv, pc = "scan", todo # <<>>,
           UNCHANGED <<tok, parse_special, text, pc, sites, pos>>,
           ids' = ids \o ItemIds(tok, Head(todo)), todo' = Tail(todo)
    PROVE  SiteInv' /\ OwedInv'
<1>1. /\ ids \in Seq(AllIds(tok)) /\ todo \in Seq(Item) /\ Encodes(tok)
      /\ Reference = ids \o (FlattenSeq(OwedOf(tok, todo)) \o RestOf(tok, Special, text, pos))
  BY DEF OwedInv, WordInv, Ready
<1>2. RestOf(tok, Special, text, pos) \in Seq(AllIds(tok))
  <2>1. Special \in SUBSET DOMAIN tok.special_tokens
    BY DEF Special
  <2>2. text \in Text /\ Keyed(Special) /\ pos \in 1..(Len(text) + 1)
    BY DEF TextInv, SiteInv
  <2> QED BY <1>1, <2>1, <2>2, RestCuts
<1>3. /\ ids' \in Seq(AllIds(tok))
      /\ Reference = ids' \o (FlattenSeq(OwedOf(tok, todo')) \o RestOf(tok, Special, text, pos))
  BY <1>1, <1>2, EmittedItem
<1>4. /\ ids' \in Seq(AllIds(tok)')
      /\ Reference' = ids' \o (FlattenSeq(OwedOf(tok', todo')) \o RestOf(tok', Special', text', pos'))
  BY <1>3, SameReference
<1>5. OwedInv'
  BY <1>4 DEF OwedInv
<1>6. Special' = Special
  BY SameReference
<1>7. SiteInv'
  BY <1>6 DEF SiteInv
<1> QED BY <1>5, <1>7

LEMMA WordEmitted ==
    ASSUME WordInv, RoomInv, ScannedWord, nodes # <<>>, heap = {}
    PROVE  /\ pc = "scan" /\ todo # <<>> /\ Symbols = NaiveSymbols(tok.merges, Head(todo).word)
           /\ ItemIds(tok, Head(todo)) = IdsOf(tok, Symbols)
<1>1. /\ todo # <<>> /\ Head(todo).special < 0 /\ input = Head(todo).word /\ chars = Characters(input)
      /\ todo \in Seq(Item) /\ MergeInv /\ Onward
  BY DEF WordInv
<1>2. Head(todo) \in Item
  BY <1>1
<1>3. Head(todo).word \in Text /\ Head(todo).special \in Int
  BY <1>2 DEF Item
<1>4. ranks = tok.merges /\ Scanned
  BY DEF ScannedWord
<1>5. Symbols = NaiveSymbols(ranks, input)
  BY <1>1, <1>3, <1>4, ScannedEnd
<1>6. ~(Head(todo).special >= 0)
  BY <1>1, <1>3
<1>7. pc = "scan"
  BY <1>1 DEF RoomInv
<1> QED BY <1>1, <1>4, <1>5, <1>6, <1>7 DEF ItemIds, WordIds

LEMMA OwedKept ==
    ASSUME TextInv, Ready, WordInv, RoomInv, SiteInv, OwedInv, ScannedWord, [Next]_vars
    PROVE  SiteInv' /\ OwedInv'
<1>1. CASE Load
  BY <1>1, LoadOwes
<1>2. CASE Scan
  BY <1>2, ScanOwes
<1>3. CASE EmitSpecial
  <2>1. /\ pc = "scan" /\ todo # <<>> /\ UNCHANGED <<tok, parse_special, text, pc, sites, pos>>
        /\ Head(todo).special >= 0 /\ ids' = Append(ids, Head(todo).special) /\ todo' = Tail(todo)
    BY <1>3 DEF EmitSpecial
  <2>2. ItemIds(tok, Head(todo)) = <<Head(todo).special>>
    BY <2>1 DEF ItemIds
  <2>3. ids' = ids \o ItemIds(tok, Head(todo))
    <3>1. ids \in Seq(AllIds(tok)) /\ Head(todo) \in Item
      BY <2>1 DEF OwedInv, WordInv
    <3>2. Head(todo).special \in AllIds(tok)
      BY <3>1 DEF Item, AllIds
    <3>3. Append(ids, Head(todo).special) = ids \o <<Head(todo).special>>
      BY <3>1, <3>2, AppendIsConcat
    <3> QED BY <2>1, <2>2, <3>3
  <2> QED BY <2>1, <2>3, EmitOwes
<1>4. CASE EmitWord
  <2>1. /\ nodes # <<>> /\ heap = {} /\ UNCHANGED <<tok, parse_special, text, pc, sites, pos>>
        /\ ids' = ids \o IdsOf(tok, Symbols) /\ todo' = Tail(todo)
    BY <1>4 DEF EmitWord
  <2>2. pc = "scan" /\ todo # <<>> /\ ItemIds(tok, Head(todo)) = IdsOf(tok, Symbols)
    BY <2>1, WordEmitted
  <2> QED BY <2>1, <2>2, EmitOwes
<1>5. CASE Encoded
  <2>1. /\ pc = "scan" /\ todo = <<>> /\ pos > Len(text) /\ pc' = "decode"
        /\ UNCHANGED <<tok, parse_special, text, ids>> /\ Encodes(tok) /\ text \in Text
    BY <1>5 DEF Encoded, Ready, TextInv
  <2>2. pos = Len(text) + 1
    <3>1. Len(text) \in Nat /\ pos \in 1..(Len(text) + 1)
      BY <2>1, TextBytes DEF SiteInv
    <3> QED BY <2>1, <3>1
  <2>3. RestOf(tok, Special, text, pos) = <<>>
    <3>1. Special \in SUBSET DOMAIN tok.special_tokens
      BY DEF Special
    <3>2. Keyed(Special)
      BY <2>1 DEF SiteInv
    <3> QED BY <2>1, <2>2, <3>1, <3>2, RestCuts
  <2>4. FlattenSeq(OwedOf(tok, todo)) = <<>>
    <3>1. OwedOf(tok, <<>>) = <<>>
      BY DEF OwedOf
    <3> QED BY <2>1, <3>1, FlatEmpty
  <2>5. ids \in Seq(AllIds(tok)) /\ Reference = ids \o (<<>> \o <<>>)
    BY <2>1, <2>3, <2>4 DEF OwedInv
  <2>6. <<>> \in Seq(AllIds(tok)) /\ <<>> \o <<>> = <<>>
    OBVIOUS
  <2>7. Reference = ids
    BY <2>5, <2>6, ConcatEmptySeq
  <2>8. Reference' = Reference
    BY <2>1, SameReference
  <2> QED BY <2>1, <2>7, <2>8 DEF OwedInv, SiteInv
<1>6. CASE EncodeWhole
  <2>1. pc = "wordpiece" /\ pc' = "decode" /\ tok' = tok
    BY <1>6 DEF EncodeWhole
  <2> QED BY <2>1 DEF OwedInv, SiteInv
<1>7. CASE UNCHANGED <<tok, parse_special, text, sites, pos, todo, ids>> /\ (pc' = pc \/ pc' = "done")
  <2>1. Special' = Special /\ Reference' = Reference
    BY <1>7, SameReference
  <2>2. AllIds(tok)' = AllIds(tok)
    BY <1>7, SameReference
  <2>3. RestOf(tok', Special', text', pos') = RestOf(tok, Special, text, pos)
    BY <1>7, SameReference
  <2>4. SiteInv'
    BY <1>7, <2>1 DEF SiteInv
  <2>5. OwedInv'
    BY <1>7, <2>1, <2>2, <2>3 DEF OwedInv
  <2> QED BY <2>4, <2>5
<1>8. SplitWord \/ Merge \/ Feed \/ Flush \/ DecodeWhole \/ UNCHANGED vars
          => UNCHANGED <<tok, parse_special, text, sites, pos, todo, ids>> /\ (pc' = pc \/ pc' = "done")
  BY DEF vars, SplitWord, Merge, Feed, Flush, DecodeWhole
<1> QED BY <1>1, <1>2, <1>3, <1>4, <1>5, <1>6, <1>7, <1>8 DEF Next

(* A word at the beginning of its merging: no round has been made.         *)
LEMMA ScannedBegins ==
    (MergeInit /\ input \in Text /\ chars = Characters(input) /\ nodes # <<>> => Scanned)'
<1>1. MergeInit /\ input \in Text /\ chars = Characters(input) /\ nodes # <<>> => Scanned
  BY ScannedFirst
<1> QED BY <1>1, PTL

LEMMA ScannedKept ==
    ASSUME TextInv, Ready, WordInv, RoomInv, ScannedWord, [Next]_vars
    PROVE  ScannedWord'
<1>1. CASE SplitWord
  <2> DEFINE word == Head(todo).word
  <2>1. todo # <<>> /\ pc = "scan" /\ tok' = tok /\ Split(word, Characters(word), tok.merges)
    BY <1>1 DEF SplitWord
  <2>2. word \in Text
    <3>1. Head(todo) \in Item
      BY <2>1 DEF WordInv
    <3> QED BY <3>1 DEF Item
  <2> HIDE DEF word
  <2>3. MergeInit'
    BY <2>1, <2>2, SplitBegins DEF Ready
  <2>4. input' = word /\ chars' = Characters(word) /\ ranks' = tok.merges
    BY <2>1 DEF Split
  <2>5. input' \in Text /\ chars' = Characters(input')
    BY <2>2, <2>4
  <2>6. nodes' # <<>> => Scanned'
    BY <2>3, <2>5, ScannedBegins
  <2> QED BY <2>1, <2>4, <2>6 DEF ScannedWord
<1>2. CASE Merge
  <2>1. MergeStep /\ UNCHANGED <<given, tok>> /\ nodes # <<>>
    <3>1. MergeStep /\ tok' = tok
      BY <1>2 DEF Merge
    <3>2. PICK c \in heap : TRUE
      BY <3>1 DEF MergeStep
    <3>3. c.left \in DOMAIN nodes
      BY Length DEF WordInv, MergeInv, MergeTypeOK
    <3>4. nodes # <<>>
      BY <3>3
    <3> QED BY <3>1, <3>4 DEF MergeStep
  <2>2. todo \in Seq(Item) /\ todo # <<>> /\ input = Head(todo).word /\ chars = Characters(input) /\ MergeInv
    BY <2>1 DEF WordInv
  <2>3. input \in Text
    <3>1. Head(todo) \in Item
      BY <2>2
    <3> QED BY <2>2, <3>1 DEF Item
  <2>4. ranks = tok.merges /\ Scanned
    BY <2>1 DEF ScannedWord
  <2>5. Scanned'
    BY <2>1, <2>2, <2>3, <2>4, ScannedStep
  <2> QED BY <2>1, <2>4, <2>5 DEF ScannedWord, given
<1>3. CASE EmitWord
  BY <1>3 DEF EmitWord, ScannedWord
<1>4. CASE Load
  <2>1. nodes = <<>>
    <3>1. pc = "load"
      BY <1>4 DEF Load
    <3> QED BY <3>1 DEF WordInv, RoomInv
  <2> QED BY <1>4, <2>1 DEF Load, ScannedWord
<1>5. CASE UNCHANGED <<mergevars, tok>>
  <2>1. UNCHANGED <<nodes, given>> /\ ranks' = ranks
    BY <1>5 DEF mergevars, given
  <2>2. Scanned => Scanned'
    BY <2>1, ScannedSame
  <2> QED BY <1>5, <2>1, <2>2 DEF ScannedWord
<1>6. EncodeWhole \/ Scan \/ EmitSpecial \/ Encoded \/ Feed \/ Flush \/ DecodeWhole \/ UNCHANGED vars
          => UNCHANGED <<mergevars, tok>>
  BY DEF vars, mergevars, given, EncodeWhole, Scan, EmitSpecial, Encoded, Feed, Flush, DecodeWhole
<1> QED BY <1>1, <1>2, <1>3, <1>4, <1>5, <1>6 DEF Next

ReferenceInv == EncodeInv /\ SiteInv /\ OwedInv /\ ScannedWord

LEMMA ReferenceInvariant == Spec => []ReferenceInv
<1>1. Init => SiteInv /\ OwedInv /\ ScannedWord
  BY DEF Init, SiteInv, OwedInv, ScannedWord
<1>2. EncodeInv /\ SiteInv /\ OwedInv /\ ScannedWord /\ [Next]_vars => (SiteInv /\ OwedInv /\ ScannedWord)'
  <2> SUFFICES ASSUME EncodeInv, SiteInv, OwedInv, ScannedWord, [Next]_vars
               PROVE  SiteInv' /\ OwedInv' /\ ScannedWord'
    OBVIOUS
  <2> QED BY OwedKept, ScannedKept DEF EncodeInv
<1> QED BY <1>1, <1>2, EncodeInvariant, PTL DEF Spec, ReferenceInv

(* tokenizer_encode_alloc: whatever the vocabulary, the merges, the        *)
(* special tokens and the text, the ids are the reference's: the text cut  *)
(* at the earliest and then longest special token, the gaps split by the   *)
(* regex of GPT-2, the words merged by the naive scan; and bpe_merge has   *)
(* made that scan's symbols of each word when its heap is empty.           *)
THEOREM EncodingIsReference == Spec => []EncodeIsReference
<1>1. ASSUME ReferenceInv PROVE EncodeIsReference
  <2>1. nodes # <<>> /\ heap = {} => Symbols = NaiveSymbols(tok.merges, Head(todo).word)
    BY <1>1, WordEmitted DEF ReferenceInv, EncodeInv
  <2>2. pc = "decode" /\ tok.type # "wordpiece" =>
            ids = ReferenceIds(tok, IF parse_special THEN DOMAIN tok.special_tokens ELSE {}, text)
    BY <1>1 DEF ReferenceInv, OwedInv, Reference, Special
  <2> QED BY <2>1, <2>2 DEF EncodeIsReference
<1>2. ReferenceInv => EncodeIsReference
  BY <1>1
<1> QED BY <1>2, ReferenceInvariant, PTL

=============================================================================
