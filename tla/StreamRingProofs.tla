-------------------------- MODULE StreamRingProofs --------------------------
(***************************************************************************)
(* The ring buffer of stream_t implements the bounded FIFO of StreamQueue, *)
(* for every capacity and every number of pushes, and owns the message of  *)
(* every error exactly once (Fates).                                       *)
(***************************************************************************)
EXTENDS StreamRing, SequenceTheorems, FiniteSetTheorems, FunctionTheorems, TLAPS

(* What a slot of the ring may hold: a chunk, or nothing yet.              *)
Cell == Chunks \cup {Empty}

(* The first n chunks of ring b read from position p: Live, as a function  *)
(* of the three fields, so that lemmas about it hold before and after a    *)
(* step alike.                                                             *)
Window(b, p, n) == [i \in 1..n |-> b[(p + (i - 1)) % Cap]]

(* What the refinement needs besides the types: the live window holds only *)
(* chunks that were pushed, and a thread inside a call owns its reference, *)
(* so that the stream it works on has not been freed.                      *)
LiveFilled == Live \in Seq(Chunks)
Owned == /\ refcount = (IF prodRef THEN 1 ELSE 0) + (IF consRef THEN 1 ELSE 0)
         /\ prod # "idle" => prodRef
         /\ cons # "idle" => consRef
         /\ prod = "push" => pchunk \in Chunks
IInv == TypeOK /\ LiveFilled /\ Owned

-----------------------------------------------------------------------------
(* The index arithmetic of the ring: wrapping is subtracting the capacity. *)
LEMMA Wrap ==
  ASSUME NEW c \in Nat \ {0}, NEW a \in Nat, a < c + c
  PROVE  a % c = IF a < c THEN a ELSE a - c
  BY SMT

(* Where the i-th chunk after read_pos is stored.                          *)
LEMMA SlotIs ==
  ASSUME NEW p \in 0..(Cap - 1), NEW i \in 0..Cap
  PROVE  /\ (p + i) % Cap \in 0..(Cap - 1)
         /\ (p + i) % Cap = IF p + i < Cap THEN p + i ELSE p + i - Cap
<1>1. Cap \in Nat \ {0} /\ p + i \in Nat /\ p + i < Cap + Cap
  BY CapAssumption
<1>2. \A a \in Nat : a < Cap + Cap => a % Cap = IF a < Cap THEN a ELSE a - Cap
  BY <1>1, Wrap
<1>3. PICK a \in Nat : a = p + i
  BY <1>1
<1>4. a % Cap = IF a < Cap THEN a ELSE a - Cap
  BY <1>1, <1>2, <1>3
<1>5. (IF a < Cap THEN a ELSE a - Cap) \in 0..(Cap - 1)
  BY <1>1, <1>3
<1>6. a % Cap \in 0..(Cap - 1)
  BY <1>4, <1>5
<1> DEFINE m == a % Cap
           k == (p + i) % Cap
<1> SUFFICES /\ k \in 0..(Cap - 1)
             /\ k = IF p + i < Cap THEN p + i ELSE p + i - Cap
  BY Zenon
<1>7. k = m
  BY <1>3, Zenon
<1>8. m = (IF a < Cap THEN a ELSE a - Cap) /\ m \in 0..(Cap - 1)
  BY <1>4, <1>6
<1> HIDE DEF m, k
<1>9. QED
  BY <1>1, <1>3, <1>7, <1>8

(* Different positions of the live window are different slots.             *)
LEMMA SlotInjective ==
  ASSUME NEW p \in 0..(Cap - 1), NEW i \in 0..(Cap - 1), NEW j \in 0..(Cap - 1), i # j
  PROVE  (p + i) % Cap # (p + j) % Cap
<1> DEFINE s == (p + i) % Cap
           t == (p + j) % Cap
<1>1. Cap \in Nat \ {0} /\ i \in 0..Cap /\ j \in 0..Cap
  BY CapAssumption
<1>2. s = IF p + i < Cap THEN p + i ELSE p + i - Cap
  BY <1>1, SlotIs
<1>3. t = IF p + j < Cap THEN p + j ELSE p + j - Cap
  BY <1>1, SlotIs
<1> HIDE DEF s, t
<1>4. s # t
  BY <1>1, <1>2, <1>3
<1>5. QED
  BY <1>4 DEF s, t

LEMMA WindowIsSeq ==
  ASSUME NEW b \in [0..(Cap - 1) -> Cell], NEW p \in 0..(Cap - 1), NEW n \in 0..Cap
  PROVE  /\ Window(b, p, n) \in Seq(Cell)
         /\ Len(Window(b, p, n)) = n
         /\ \A i \in 1..n : Window(b, p, n)[i] = b[(p + (i - 1)) % Cap]
<1>1. n \in Nat /\ \A i \in 1..n : i - 1 \in 0..Cap
  BY CapAssumption
<1>2. \A i \in 1..n : (p + (i - 1)) % Cap \in 0..(Cap - 1)
  BY <1>1, SlotIs
<1>3. Window(b, p, n) \in [1..n -> Cell]
  BY <1>2, Zenon DEF Window
<1>4. Window(b, p, n) \in Seq(Cell)
  BY <1>1, <1>3, SeqDef, Zenon
<1>5. Len(Window(b, p, n)) = n
  BY <1>1, <1>3, <1>4, LenProperties
<1>6. QED
  BY <1>4, <1>5, Zenon DEF Window

(* A push stores behind the newest chunk.                                  *)
LEMMA WindowAppend ==
  ASSUME NEW b \in [0..(Cap - 1) -> Cell], NEW p \in 0..(Cap - 1),
         NEW n \in 0..(Cap - 1), NEW c \in Cell
  PROVE  Window([b EXCEPT ![(p + n) % Cap] = c], p, n + 1) = Append(Window(b, p, n), c)
<1> DEFINE k == (p + n) % Cap
           d == [b EXCEPT ![k] = c]
           w == Window(b, p, n)
           v == Window(d, p, n + 1)
<1>1. n \in Nat /\ n \in 0..Cap /\ n + 1 \in 0..Cap /\ Cap \in Nat \ {0}
  BY CapAssumption
<1>2. k \in 0..(Cap - 1)
  BY <1>1, SlotIs
<1>3. d \in [0..(Cap - 1) -> Cell] /\ d[k] = c
  <2> HIDE DEF k
  <2> QED  BY <1>2
<1>4. w \in Seq(Cell) /\ Len(w) = n /\ \A i \in 1..n : w[i] = b[(p + (i - 1)) % Cap]
  BY <1>1, WindowIsSeq
<1>5. /\ v \in Seq(Cell) /\ Len(v) = n + 1
      /\ \A i \in 1..(n + 1) : v[i] = d[(p + (i - 1)) % Cap]
  <2> HIDE DEF d
  <2> QED  BY <1>1, <1>3, WindowIsSeq
<1>6. ASSUME NEW i \in 1..n  PROVE v[i] = w[i]
  <2> DEFINE h == (p + (i - 1)) % Cap
  <2>1. i \in 1..(n + 1) /\ i - 1 \in 0..(Cap - 1) /\ i - 1 \in 0..Cap /\ i - 1 # n
    BY <1>1
  <2>2. h \in 0..(Cap - 1)
    BY <2>1, SlotIs
  <2>3. h # k
    BY <2>1, SlotInjective
  <2>4. v[i] = d[h] /\ w[i] = b[h]
    <3> HIDE DEF v, w, d
    <3> QED  BY <2>1, <1>4, <1>5
  <2>5. d[h] = b[h]
    <3> HIDE DEF h, k
    <3> QED  BY <2>2, <2>3
  <2>6. QED
    BY <2>4, <2>5, Zenon
<1>7. v[n + 1] = c
  <2>1. n + 1 \in 1..(n + 1) /\ n + 1 - 1 = n
    BY <1>1
  <2>2. v[n + 1] = d[(p + (n + 1 - 1)) % Cap]
    <3> HIDE DEF v, d
    <3> QED  BY <2>1, <1>5
  <2>3. QED
    BY <2>1, <2>2, <1>3, Zenon
<1> HIDE DEF v, w, d, k
<1>8. /\ Append(w, c) \in Seq(Cell)
      /\ Len(Append(w, c)) = n + 1
      /\ \A i \in 1..n : Append(w, c)[i] = w[i]
      /\ Append(w, c)[n + 1] = c
  BY <1>1, <1>4, AppendProperties
<1>9. \A i \in 1..Len(v) : v[i] = Append(w, c)[i]
  <2> SUFFICES ASSUME NEW i \in 1..(n + 1)
               PROVE  v[i] = Append(w, c)[i]
    BY <1>5
  <2>1. CASE i = n + 1
    BY <2>1, <1>7, <1>8
  <2>2. CASE i # n + 1
    <3>1. i \in 1..n
      BY <1>1, <2>2
    <3>2. QED
      BY <3>1, <1>6, <1>8
  <2>3. QED
    BY <2>1, <2>2
<1>10. v = Append(w, c)
  BY <1>5, <1>8, <1>9, SeqEqual
<1>11. QED
  BY <1>10 DEF v, w, d, k

(* stream_next advances read_pos past the oldest chunk.                    *)
LEMMA WindowTail ==
  ASSUME NEW b \in [0..(Cap - 1) -> Cell], NEW p \in 0..(Cap - 1), NEW n \in 1..Cap
  PROVE  /\ (p + 1) % Cap \in 0..(Cap - 1)
         /\ Window(b, p, n) # <<>>
         /\ Head(Window(b, p, n)) = b[p]
         /\ Window(b, (p + 1) % Cap, n - 1) = Tail(Window(b, p, n))
<1> DEFINE q == (p + 1) % Cap
           w == Window(b, p, n)
           v == Window(b, q, n - 1)
<1>1. /\ n \in Nat /\ n \in 0..Cap /\ n - 1 \in 0..Cap /\ 1 \in 0..Cap /\ 0 \in 0..Cap
      /\ Cap \in Nat \ {0} /\ p + 0 = p /\ 1 - 1 = 0 /\ 1 \in 1..n
  BY CapAssumption
<1>2. q \in 0..(Cap - 1) /\ q = IF p + 1 < Cap THEN p + 1 ELSE p + 1 - Cap
  BY <1>1, SlotIs
<1>3. w \in Seq(Cell) /\ Len(w) = n /\ \A i \in 1..n : w[i] = b[(p + (i - 1)) % Cap]
  BY <1>1, WindowIsSeq
<1>4. /\ v \in Seq(Cell) /\ Len(v) = n - 1
      /\ \A i \in 1..(n - 1) : v[i] = b[(q + (i - 1)) % Cap]
  <2> HIDE DEF q
  <2> QED  BY <1>1, <1>2, WindowIsSeq
<1>5. ASSUME NEW i \in 1..(n - 1)  PROVE v[i] = w[i + 1]
  <2> DEFINE h == (q + (i - 1)) % Cap
             g == (p + ((i + 1) - 1)) % Cap
  <2>1. i + 1 \in 1..n /\ i - 1 \in 0..Cap /\ i + 1 - 1 \in 0..Cap
    BY <1>1
  <2>2. h = IF q + (i - 1) < Cap THEN q + (i - 1) ELSE q + (i - 1) - Cap
    <3> HIDE DEF q
    <3> QED  BY <2>1, <1>2, SlotIs
  <2>3. g = IF p + (i + 1 - 1) < Cap THEN p + (i + 1 - 1) ELSE p + (i + 1 - 1) - Cap
    BY <2>1, SlotIs
  <2>4. h = g
    <3> HIDE DEF q, h, g
    <3> QED  BY <1>1, <1>2, <2>2, <2>3
  <2>5. v[i] = b[h]
    BY <1>4, Zenon
  <2>6. w[i + 1] = b[g]
    <3> HIDE DEF w
    <3> QED  BY <1>3, <2>1
  <2>7. QED
    BY <2>4, <2>5, <2>6, Zenon
<1>6. w[1] = b[p]
  <2>1. w[1] = b[(p + (1 - 1)) % Cap]
    <3> HIDE DEF w
    <3> QED  BY <1>1, <1>3
  <2>2. (p + 0) % Cap = IF p + 0 < Cap THEN p + 0 ELSE p + 0 - Cap
    BY <1>1, SlotIs
  <2>3. (p + 0) % Cap = p
    <3> DEFINE z == (p + 0) % Cap
    <3> z = IF p + 0 < Cap THEN p + 0 ELSE p + 0 - Cap
      BY <2>2
    <3> HIDE DEF z
    <3> z = p
      BY <1>1
    <3> QED  BY DEF z
  <2>4. QED
    BY <1>1, <2>1, <2>3, Zenon
<1> HIDE DEF v, w, q
<1>7. w # <<>>
  BY <1>1, <1>3
<1>8. /\ Head(w) = w[1] /\ Tail(w) \in Seq(Cell) /\ Len(Tail(w)) = n - 1
      /\ \A i \in 1..(n - 1) : Tail(w)[i] = w[i + 1]
  BY <1>1, <1>3, <1>7, HeadTailProperties
<1>9. v = Tail(w)
  BY <1>1, <1>4, <1>5, <1>8, SeqEqual
<1>10. Head(w) = b[p]
  BY <1>6, <1>8
<1>11. QED
  BY <1>2, <1>7, <1>9, <1>10 DEF v, w, q

(* The terminal on a full ring replaces the newest chunk.                  *)
LEMMA WindowLast ==
  ASSUME NEW b \in [0..(Cap - 1) -> Cell], NEW p \in 0..(Cap - 1), NEW c \in Cell
  PROVE  Window([b EXCEPT ![(p + (Cap - 1)) % Cap] = c], p, Cap)
            = [Window(b, p, Cap) EXCEPT ![Cap] = c]
<1> DEFINE k == (p + (Cap - 1)) % Cap
           d == [b EXCEPT ![k] = c]
           w == Window(b, p, Cap)
           v == Window(d, p, Cap)
<1>1. Cap - 1 \in 0..Cap /\ Cap \in 0..Cap /\ Cap \in Nat \ {0} /\ Cap \in 1..Cap
  BY CapAssumption
<1>2. k \in 0..(Cap - 1)
  BY <1>1, SlotIs
<1>3. d \in [0..(Cap - 1) -> Cell] /\ d[k] = c
  <2> HIDE DEF k
  <2> QED  BY <1>2
<1>4. \A i \in 1..Cap : w[i] = b[(p + (i - 1)) % Cap]
  BY <1>1, WindowIsSeq
<1>5. \A i \in 1..Cap : v[i] = d[(p + (i - 1)) % Cap]
  <2> HIDE DEF d
  <2> QED  BY <1>1, <1>3, WindowIsSeq
<1>6. ASSUME NEW i \in 1..Cap, i # Cap  PROVE v[i] = w[i]
  <2> DEFINE h == (p + (i - 1)) % Cap
  <2>1. i - 1 \in 0..(Cap - 1) /\ i - 1 \in 0..Cap /\ i - 1 # Cap - 1 /\ Cap - 1 \in 0..(Cap - 1)
    BY <1>1, <1>6
  <2>2. h \in 0..(Cap - 1)
    BY <2>1, SlotIs
  <2>3. h # k
    BY <2>1, SlotInjective
  <2>4. v[i] = d[h] /\ w[i] = b[h]
    <3> HIDE DEF v, w, d
    <3> QED  BY <1>4, <1>5
  <2>5. d[h] = b[h]
    <3> HIDE DEF h, k
    <3> QED  BY <2>2, <2>3
  <2>6. QED
    BY <2>4, <2>5, Zenon
<1>7. v[Cap] = c
  <2> HIDE DEF v, d
  <2> QED  BY <1>1, <1>3, <1>5 DEF k
<1>8. w = [i \in 1..Cap |-> w[i]] /\ v = [i \in 1..Cap |-> v[i]]
  BY DEF Window
<1> HIDE DEF v, w, d, k
<1>9. v = [w EXCEPT ![Cap] = c]
  BY <1>1, <1>6, <1>7, <1>8
<1>10. QED
  BY <1>9 DEF v, w, d, k

LEMMA LiveIsWindow ==
  /\ Live = Window(buf, read_pos, len)
  /\ Live' = Window(buf', read_pos', len')
  BY DEF Live, Slot, Window

(* What the invariant says of the oldest chunk.                            *)
LEMMA LiveProperties ==
  ASSUME IInv
  PROVE  /\ Live \in Seq(Chunks) /\ Len(Live) = len
         /\ len > 0 => /\ Live # <<>> /\ Head(Live) = buf[read_pos]
                       /\ buf[read_pos] \in Chunks
                       /\ (read_pos + 1) % Cap \in 0..(Cap - 1)
                       /\ Tail(Live) = Window(buf, (read_pos + 1) % Cap, len - 1)
<1>1. buf \in [0..(Cap - 1) -> Cell] /\ read_pos \in 0..(Cap - 1) /\ len \in 0..Cap
  BY DEF IInv, TypeOK, Cell
<1>2. Live \in Seq(Chunks) /\ Len(Live) = len
  BY <1>1, WindowIsSeq, LiveIsWindow DEF IInv, LiveFilled
<1>3. ASSUME len > 0
      PROVE  /\ Live # <<>> /\ Head(Live) = buf[read_pos]
             /\ (read_pos + 1) % Cap \in 0..(Cap - 1)
             /\ Tail(Live) = Window(buf, (read_pos + 1) % Cap, len - 1)
  <2>1. len \in 1..Cap
    BY <1>1, <1>3, CapAssumption
  <2>2. QED
    BY <1>1, <2>1, WindowTail, LiveIsWindow
<1>4. ASSUME len > 0  PROVE buf[read_pos] \in Chunks
  BY <1>2, <1>3, <1>4, HeadTailProperties
<1>5. QED
  BY <1>2, <1>3, <1>4

(* The step of the abstract queue that a critical section stands for.      *)
LEMMA StoreIsPut ==
  ASSUME IInv, NEW c \in Chunks, len < Cap,
         buf' = [buf EXCEPT ![Slot(len)] = c], len' = len + 1, read_pos' = read_pos
  PROVE  /\ Live' = Append(Live, c) /\ Len(Live) < Cap /\ Live' \in Seq(Chunks)
         /\ buf' \in [0..(Cap - 1) -> Cell] /\ len' \in 0..Cap
<1>1. /\ buf \in [0..(Cap - 1) -> Cell] /\ read_pos \in 0..(Cap - 1)
      /\ len \in 0..(Cap - 1) /\ len \in 0..Cap /\ c \in Cell
  BY CapAssumption DEF IInv, TypeOK, Cell
<1>2. Live' = Append(Live, c)
  BY <1>1, WindowAppend, LiveIsWindow DEF Slot
<1>3. Live \in Seq(Chunks) /\ Len(Live) = len
  BY LiveProperties
<1>4. Live' \in Seq(Chunks) /\ Len(Live) < Cap
  BY <1>2, <1>3, AppendProperties
<1>5. len' \in 0..Cap
  BY <1>1, CapAssumption
<1>6. Slot(len) \in 0..(Cap - 1)
  BY <1>1, SlotIs DEF Slot
<1>7. buf' \in [0..(Cap - 1) -> Cell]
  BY <1>1, <1>6
<1>8. QED
  BY <1>2, <1>4, <1>5, <1>7

LEMMA OverwriteIsTerminate ==
  ASSUME IInv, len = Cap, len' = len, read_pos' = read_pos,
         buf' = [buf EXCEPT ![Slot(len - 1)] = Cancelled]
  PROVE  /\ Live' = [Live EXCEPT ![Cap] = Cancelled] /\ Len(Live) = Cap
         /\ Live' \in Seq(Chunks)
         /\ buf' \in [0..(Cap - 1) -> Cell]
<1>1. /\ buf \in [0..(Cap - 1) -> Cell] /\ read_pos \in 0..(Cap - 1)
      /\ Cancelled \in Cell /\ Cancelled \in Chunks
      /\ Cap \in Nat \ {0} /\ Cap - 1 \in 0..Cap /\ Cap \in 1..Cap
  BY CapAssumption DEF IInv, TypeOK, Cell, Chunks
<1>2. Live' = [Live EXCEPT ![Cap] = Cancelled]
  BY <1>1, WindowLast, LiveIsWindow DEF Slot
<1>3. Live \in Seq(Chunks) /\ Len(Live) = Cap
  BY LiveProperties
<1>4. Live' \in Seq(Chunks)
  BY <1>1, <1>2, <1>3
<1>5. Slot(len - 1) \in 0..(Cap - 1)
  BY <1>1, SlotIs DEF Slot
<1>6. buf' \in [0..(Cap - 1) -> Cell]
  BY <1>1, <1>5
<1>7. QED
  BY <1>2, <1>3, <1>4, <1>6

-----------------------------------------------------------------------------
(* Every other action leaves the three fields of the queue alone.          *)
LEMMA SameLive ==
  ASSUME UNCHANGED <<buf, len, read_pos>>
  PROVE  Live' = Live
  BY LiveIsWindow

LEMMA FreeType ==
  ASSUME TypeOK, NEW ids, Free(ids)
  PROVE  frees' \in [Ids -> Nat]
  BY DEF TypeOK, Free

LEMMA InitInv == Init => IInv
<1> SUFFICES ASSUME Init PROVE IInv
  OBVIOUS
<1>1. TypeOK
  <2>1. buf \in [0..(Cap - 1) -> Chunks \cup {Empty}]
    BY DEF Init
  <2>2. len \in 0..Cap /\ read_pos \in 0..(Cap - 1) /\ pushes \in 0..MaxPush /\ refcount \in 0..2
    BY CapAssumption, MaxPushAssumption DEF Init
  <2>3. frees \in [Ids -> Nat] /\ got \in Seq(Chunks)
    BY DEF Init
  <2>4. QED
    BY <2>1, <2>2, <2>3, Zenon DEF Init, TypeOK
<1>2. Live = <<>>
  BY DEF Init, Live
<1>3. Owned
  BY DEF Init, Owned
<1>4. QED
  BY <1>1, <1>2, <1>3 DEF IInv, LiveFilled

(* Every critical section keeps the invariant and is a step of the queue,  *)
(* or one that the queue does not see.                                     *)
LEMMA Step ==
  ASSUME IInv, [Next]_vars
  PROVE  IInv' /\ [Queue!QNext]_(Queue!qvars)
<1> DEFINE Hidden == UNCHANGED <<buf, len, read_pos, cancelled, got, refcount>>
<1>1. ASSUME Hidden, TypeOK', Owned'
      PROVE  IInv' /\ [Queue!QNext]_(Queue!qvars)
  <2>1. Live' = Live
    BY <1>1, SameLive
  <2>2. QED
    BY <1>1, <2>1 DEF IInv, LiveFilled, Queue!qvars
<1>2. CASE UNCHANGED vars
  BY <1>1, <1>2 DEF vars, ring, producer, consumer, IInv, TypeOK, Owned
<1>3. ASSUME NEW tag \in {"TOKEN", "ERROR", "DONE"}, StreamPush(tag)
      PROVE  IInv' /\ [Queue!QNext]_(Queue!qvars)
  <2> USE <1>3 DEF StreamPush, ring, consumer
  <2>1. pushes + 1 \in Ids /\ pushes' \in 0..MaxPush
    BY MaxPushAssumption DEF IInv, TypeOK, Ids
  <2>2. pchunk' \in Chunks
    BY <2>1 DEF Chunks
  <2>3. errs' \subseteq Ids
    BY <2>1 DEF IInv, TypeOK
  <2>4. TypeOK'
    BY <2>1, <2>2, <2>3 DEF IInv, TypeOK
  <2>5. Owned'
    BY <2>2 DEF IInv, Owned
  <2>6. QED
    BY <2>4, <2>5, <1>1
<1>4. CASE PushWait
  BY <1>1, <1>4 DEF PushWait, ring, producer, consumer, IInv, TypeOK, Owned
<1>5. CASE PushRefused
  <2>1. frees' \in [Ids -> Nat]
    BY <1>5, FreeType DEF PushRefused, IInv
  <2>2. TypeOK' /\ Owned'
    BY <1>5, <2>1 DEF PushRefused, ring, consumer, IInv, TypeOK, Owned
  <2>3. QED
    BY <1>1, <1>5, <2>2 DEF PushRefused, ring, consumer
<1>6. CASE PushStore
  <2> USE <1>6 DEF PushStore, PushAwake
  <2>1. pchunk \in Chunks
    BY DEF IInv, Owned
  <2>2. /\ Live' = Append(Live, pchunk) /\ Len(Live) < Cap /\ Live' \in Seq(Chunks)
        /\ buf' \in [0..(Cap - 1) -> Cell] /\ len' \in 0..Cap
    BY <2>1, StoreIsPut
  <2>3. TypeOK' /\ Owned'
    BY <2>2 DEF IInv, TypeOK, Owned, Cell, Broadcast, consumer
  <2>4. Queue!Put(pchunk)
    BY <2>2 DEF Queue!Put, IInv, Owned, TypeOK, consumer
  <2>5. QED
    BY <2>1, <2>2, <2>3, <2>4 DEF IInv, LiveFilled, Queue!QNext
<1>7. CASE Notify
  BY <1>1, <1>7 DEF Notify, ring, consumer, IInv, TypeOK, Owned
<1>8. CASE StreamFinishCancelled
  <2> USE <1>8 DEF StreamFinishCancelled
  <2>1. Cancelled \in Chunks
    BY DEF Chunks
  <2>2. /\ Live' \in Seq(Chunks) /\ buf' \in [0..(Cap - 1) -> Cell] /\ len' \in 0..Cap
        /\ frees' \in [Ids -> Nat]
        /\ \/ Len(Live) < Cap /\ Live' = Append(Live, Cancelled)
           \/ Len(Live) = Cap /\ Live' = [Live EXCEPT ![Cap] = Cancelled]
    <3>1. CASE len < Cap
      BY <2>1, <3>1, StoreIsPut DEF IInv, TypeOK
    <3>2. CASE len = Cap
      BY <3>2, CapAssumption, OverwriteIsTerminate, FreeType DEF IInv, TypeOK
    <3>3. QED
      BY <3>1, <3>2
  <2>3. TypeOK' /\ Owned'
    BY <2>2 DEF IInv, TypeOK, Owned, Cell, Broadcast, consumer
  <2>4. Queue!Terminate
    BY <2>2 DEF Queue!Terminate, IInv, Owned, TypeOK, consumer
  <2>5. QED
    BY <2>2, <2>3, <2>4 DEF IInv, LiveFilled, Queue!QNext
<1>9. ASSUME NEW mode \in {"forever", "timed"}, StreamNext(mode)
      PROVE  IInv' /\ [Queue!QNext]_(Queue!qvars)
  BY <1>1, <1>9 DEF StreamNext, ring, producer, IInv, TypeOK, Owned
<1>10. ASSUME TakeHead, consRef, cons' \in {"idle", cons}
       PROVE  IInv' /\ [Queue!QNext]_(Queue!qvars)
  <2> USE <1>10 DEF TakeHead
  <2>1. /\ Live \in Seq(Chunks) /\ Len(Live) = len /\ Live # <<>>
        /\ Head(Live) = buf[read_pos] /\ buf[read_pos] \in Chunks
        /\ read_pos' \in 0..(Cap - 1)
        /\ Tail(Live) = Window(buf, read_pos', len - 1)
    BY LiveProperties
  <2>2. Live' = Tail(Live) /\ Live' \in Seq(Chunks)
    BY <2>1, LiveIsWindow, HeadTailProperties
  <2>3. len' \in 0..Cap
    BY CapAssumption DEF IInv, TypeOK
  <2>4. got' \in Seq(Chunks)
    BY <2>1, AppendProperties DEF IInv, TypeOK
  <2>5. TypeOK' /\ Owned'
    BY <2>1, <2>3, <2>4 DEF IInv, TypeOK, Owned, Broadcast, producer
  <2>6. Queue!Take
    BY <2>1, <2>2 DEF Queue!Take, IInv, TypeOK, Owned
  <2>7. QED
    BY <2>2, <2>5, <2>6 DEF IInv, LiveFilled, Queue!QNext
<1>11. CASE NextPoll \/ NextTake
  BY <1>10, <1>11 DEF NextPoll, NextTake, NextAwake, IInv, Owned
<1>12. CASE NextWait \/ NextNothing \/ NextTimeout
  <2> USE DEF ring, producer, consumer, IInv, TypeOK, Owned
  <2>1. CASE NextWait
    BY <1>1, <2>1 DEF NextWait
  <2>2. CASE NextNothing
    BY <1>1, <2>2 DEF NextNothing
  <2>3. CASE NextTimeout
    BY <1>1, <2>3 DEF NextTimeout
  <2>4. QED
    BY <1>12, <2>1, <2>2, <2>3
<1>13. CASE StreamCancel
  <2> USE <1>13 DEF StreamCancel, producer, consumer
  <2>1. Live' = Live
    BY SameLive
  <2>2. TypeOK' /\ Owned'
    BY DEF IInv, TypeOK, Owned, Broadcast
  <2>3. Queue!Cancel
    BY <2>1 DEF Queue!Cancel, IInv, Owned, TypeOK
  <2>4. QED
    BY <2>1, <2>2, <2>3 DEF IInv, LiveFilled, Queue!QNext
<1>14. ASSUME ProducerRelease \/ ConsumerRelease
       PROVE  IInv' /\ [Queue!QNext]_(Queue!qvars)
  <2> USE <1>14 DEF ProducerRelease, ConsumerRelease, StreamRelease, producer, consumer
  <2>1. frees' \in [Ids -> Nat]
    BY FreeType DEF IInv, TypeOK
  <2>2. refcount \in 1..2 /\ refcount' = refcount - 1
    BY DEF IInv, TypeOK, Owned
  <2>3. len' \in 0..Cap
    BY CapAssumption DEF IInv, TypeOK
  <2>4. refcount' \in 0..2
    BY <2>2
  <2>5. TypeOK' /\ Owned'
    <3>1. UNCHANGED <<buf, read_pos, cancelled, sleepers, prod, pchunk, ended, pushes, errs, cons, got>>
      OBVIOUS
    <3>2. TypeOK'
      BY ONLY IInv, <1>14, <2>1, <2>3, <2>4, <3>1
         DEF IInv, TypeOK, ProducerRelease, ConsumerRelease, producer, consumer
    <3>3. ASSUME ProducerRelease PROVE Owned'
      BY ONLY IInv, <2>2, <3>1, <3>3 DEF IInv, TypeOK, Owned, ProducerRelease, consumer
    <3>4. ASSUME ConsumerRelease PROVE Owned'
      BY ONLY IInv, <2>2, <3>1, <3>4 DEF IInv, TypeOK, Owned, ConsumerRelease, producer
    <3>5. QED
      BY <1>14, <3>2, <3>3, <3>4
  <2>6. CASE refcount = 1
    <3>1. Live' = <<>>
      BY <2>6 DEF Live
    <3>2. Queue!Discard
      BY <2>2, <2>6, <3>1 DEF Queue!Discard
    <3>3. QED
      BY <2>5, <3>1, <3>2 DEF IInv, LiveFilled, Queue!QNext
  <2>7. CASE refcount # 1
    <3>1. Live' = Live
      BY <2>7, SameLive
    <3>2. refcount > 0 /\ refcount' > 0
      BY ONLY <2>2, <2>7
    <3>3. QED
      BY <2>5, <3>1, <3>2 DEF IInv, LiveFilled, Queue!qvars
  <2>8. QED
    BY <2>6, <2>7
<1>15. QED
  BY <1>2, <1>3, <1>4, <1>5, <1>6, <1>7, <1>8, <1>9, <1>11, <1>12, <1>13, <1>14
     DEF Next, Producing, Consuming

-----------------------------------------------------------------------------
(* stream_t keeps its types for every capacity: len and read_pos never     *)
(* leave the ring, whatever the order of its callers.                      *)
THEOREM TypeCorrect == Spec => []TypeOK
<1>1. IInv /\ [Next]_vars => IInv'
  BY Step
<1>2. IInv => TypeOK
  BY DEF IInv
<1>3. QED
  BY InitInv, <1>1, <1>2, PTL DEF Spec

(* stream_t is a bounded FIFO: stream_push, stream_next, stream_cancel,    *)
(* stream_finish_cancelled and stream_release, in any interleaving of      *)
(* their critical sections, only do what StreamQueue allows.               *)
THEOREM RingImplementsQueue == Spec => ImplementsQueue
<1>1. Init => Queue!QInit
  BY DEF Init, Queue!QInit, Live
<1>2. IInv /\ [Next]_vars => IInv' /\ [Queue!QNext]_(Queue!qvars)
  BY Step
<1>3. QED
  BY InitInv, <1>1, <1>2, PTL DEF Spec, ImplementsQueue, Queue!QSpec

-----------------------------------------------------------------------------
(* Who owns the message of the ERROR chunk e.                              *)
Is(c, e) == IF c.tag = "ERROR" /\ c.id = e THEN 1 ELSE 0
Where(s, e) == {i \in 1..Len(s) : s[i].tag = "ERROR" /\ s[i].id = e}
Count(s, e) == Cardinality(Where(s, e))
Holders(e) == Count(Live, e) + Count(got, e) + frees[e]
              + (IF prod = "push" THEN Is(pchunk, e) ELSE 0)

(* A message that was made has one owner or was freed once, the others     *)
(* have none; serial numbers are given out in order.                       *)
Fates == /\ errs \subseteq 1..pushes
         /\ prod = "push" /\ pchunk.id \in errs => pchunk.tag = "ERROR"
         /\ \A e \in Ids : Holders(e) = IF e \in errs THEN 1 ELSE 0

LEMMA CountType ==
  ASSUME NEW s \in Seq(Chunks), NEW e
  PROVE  /\ IsFiniteSet(Where(s, e)) /\ Count(s, e) \in Nat
         /\ Count(s, e) = 0 <=> Where(s, e) = {}
<1>1. IsFiniteSet(1..Len(s)) /\ Where(s, e) \in SUBSET (1..Len(s))
  BY FS_Interval, LenProperties DEF Where
<1>2. IsFiniteSet(Where(s, e))
  BY <1>1, FS_Subset
<1>3. QED
  BY <1>2, FS_CardinalityType, FS_EmptySet DEF Count

LEMMA CountEmpty == ASSUME NEW e PROVE Count(<<>>, e) = 0
<1>1. Where(<<>>, e) = {}
  BY DEF Where
<1>2. QED
  BY <1>1, FS_EmptySet DEF Count

LEMMA CountAppend ==
  ASSUME NEW s \in Seq(Chunks), NEW c \in Chunks, NEW e
  PROVE  Count(Append(s, c), e) = Count(s, e) + Is(c, e)
<1> DEFINE n == Len(s)
           t == Append(s, c)
<1>1. n \in Nat /\ Len(t) = n + 1 /\ (\A i \in 1..n : t[i] = s[i]) /\ t[n + 1] = c
  BY AppendProperties, LenProperties
<1>2. n + 1 \notin Where(s, e) /\ IsFiniteSet(Where(s, e))
  <2>1. n + 1 \notin 1..n
    BY <1>1
  <2>2. IsFiniteSet(Where(s, e))
    BY CountType
  <2>3. QED
    BY <2>1, <2>2 DEF Where
<1>3. CASE Is(c, e) = 1
  <2>1. Where(t, e) = Where(s, e) \cup {n + 1}
    <3> HIDE DEF t, n
    <3>1. c.tag = "ERROR" /\ c.id = e
      BY <1>3 DEF Is
    <3>2. \A i \in 1..(n + 1) : i \in 1..n \/ i = n + 1
      BY <1>1
    <3>3. n + 1 \in 1..(n + 1) /\ 1..n \subseteq 1..(n + 1)
      BY <1>1
    <3>4. QED
      BY <1>1, <3>1, <3>2, <3>3 DEF Where, n
  <2>2. Cardinality(Where(s, e) \cup {n + 1}) = Cardinality(Where(s, e)) + 1
    BY <1>2, FS_AddElement
  <2>3. QED
    BY <1>3, <2>1, <2>2 DEF Count
<1>4. CASE Is(c, e) # 1
  <2>1. Where(t, e) = Where(s, e)
    <3> HIDE DEF t, n
    <3>1. ~(c.tag = "ERROR" /\ c.id = e) /\ Is(c, e) = 0
      BY <1>4 DEF Is
    <3>2. \A i \in 1..(n + 1) : i \in 1..n \/ i = n + 1
      BY <1>1
    <3>3. 1..n \subseteq 1..(n + 1)
      BY <1>1
    <3>4. QED
      BY <1>1, <3>1, <3>2, <3>3 DEF Where, n
  <2>2. Is(c, e) = 0 /\ Count(s, e) \in Nat
    BY <1>4, CountType DEF Is
  <2>3. QED
    BY <2>1, <2>2 DEF Count
<1>5. QED
  BY <1>3, <1>4

LEMMA CountTail ==
  ASSUME NEW s \in Seq(Chunks), s # <<>>, NEW e
  PROVE  Count(s, e) = Count(Tail(s), e) + Is(Head(s), e)
<1> DEFINE n == Len(s)
           t == Tail(s)
           W == Where(s, e) \ {1}
           f == [i \in Where(t, e) |-> i + 1]
<1>1. /\ n \in Nat \ {0} /\ t \in Seq(Chunks) /\ Len(t) = n - 1
      /\ (\A i \in 1..(n - 1) : t[i] = s[i + 1]) /\ Head(s) = s[1]
  BY HeadTailProperties, EmptySeq, LenProperties
<1>2. /\ \A i \in Where(t, e) : i \in 1..(n - 1) /\ i + 1 \in 2..n /\ i + 1 \in W
      /\ \A j \in W : j - 1 \in Where(t, e) /\ j = (j - 1) + 1
  <2>1. ASSUME NEW i \in Where(t, e)  PROVE i \in 1..(n - 1) /\ i + 1 \in 2..n /\ i + 1 \in W
    <3>1. i \in 1..(n - 1) /\ t[i].tag = "ERROR" /\ t[i].id = e
      BY <1>1 DEF Where
    <3>2. i + 1 \in 2..n /\ i + 1 \in 1..n /\ i + 1 # 1
      BY <1>1, <3>1
    <3>3. QED
      BY <1>1, <3>1, <3>2 DEF Where
  <2>2. ASSUME NEW j \in W  PROVE j - 1 \in Where(t, e) /\ j = (j - 1) + 1
    <3>1. j \in 1..n /\ j # 1 /\ s[j].tag = "ERROR" /\ s[j].id = e
      BY DEF Where
    <3>2. j - 1 \in 1..(n - 1) /\ j = (j - 1) + 1
      BY <1>1, <3>1
    <3>3. t[j - 1] = s[j]
      BY <1>1, <3>2
    <3>4. QED
      BY <1>1, <3>1, <3>2, <3>3 DEF Where
  <2>3. QED
    BY <2>1, <2>2
<1>3. IsFiniteSet(Where(s, e)) /\ IsFiniteSet(Where(t, e))
  BY <1>1, CountType
<1>4. ExistsBijection(Where(t, e), W)
  <2> HIDE DEF W, n, t
  <2>1. f \in [Where(t, e) -> W]
    BY <1>2
  <2>2. \A i, j \in Where(t, e) : f[i] = f[j] => i = j
    BY <1>2
  <2>3. \A j \in W : \E i \in Where(t, e) : f[i] = j
    BY <1>2
  <2>4. f \in Bijection(Where(t, e), W)
    <3> HIDE DEF f
    <3>1. f \in Injection(Where(t, e), W)
      BY <2>1, <2>2, Fun_IsInj
    <3>2. f \in Surjection(Where(t, e), W)
      BY <2>1, <2>3, Fun_IsSurj
    <3>3. QED
      BY <3>1, <3>2 DEF Bijection
  <2>5. QED
    BY <2>4 DEF ExistsBijection
<1>5. Cardinality(W) = Cardinality(Where(t, e))
  BY <1>3, <1>4, FS_Bijection
<1>6. Cardinality(W) = IF 1 \in Where(s, e) THEN Cardinality(Where(s, e)) - 1
                       ELSE Cardinality(Where(s, e))
  BY <1>3, FS_RemoveElement
<1>7. 1 \in Where(s, e) <=> Is(Head(s), e) = 1
  <2>1. 1 \in 1..n
    BY <1>1
  <2>2. QED
    BY <1>1, <2>1 DEF Where, Is
<1>8. Cardinality(Where(s, e)) \in Nat /\ Is(Head(s), e) \in {0, 1}
  BY <1>3, FS_CardinalityType DEF Is
<1> HIDE DEF W, n, t
<1>9. QED
  BY <1>5, <1>6, <1>7, <1>8 DEF Count, t

LEMMA CountLast ==
  ASSUME NEW s \in Seq(Chunks), NEW n \in Nat \ {0}, Len(s) = n, NEW e
  PROVE  Count(s, e) = Count([s EXCEPT ![n] = Cancelled], e) + Is(s[n], e)
<1> DEFINE t == [s EXCEPT ![n] = Cancelled]
<1>1. n \in 1..n /\ s \in [1..n -> Chunks]
  BY LenProperties
<1>2. /\ t[n] = Cancelled /\ (\A i \in 1..n : i # n => t[i] = s[i])
      /\ t = [i \in 1..n |-> t[i]]
  BY <1>1
<1>3. Len(t) = n
  BY <1>1, <1>2
<1>4. Cancelled.tag # "ERROR"
  BY DEF Cancelled
<1>5. Where(t, e) = Where(s, e) \ {n}
  <2> HIDE DEF t
  <2> QED  BY <1>2, <1>3, <1>4 DEF Where
<1>6. IsFiniteSet(Where(s, e)) /\ Cardinality(Where(s, e)) \in Nat
  BY CountType DEF Count
<1>7. Cardinality(Where(s, e) \ {n}) = IF n \in Where(s, e) THEN Cardinality(Where(s, e)) - 1
                                       ELSE Cardinality(Where(s, e))
  BY <1>6, FS_RemoveElement
<1>8. n \in Where(s, e) <=> Is(s[n], e) = 1
  BY <1>1 DEF Where, Is
<1>9. Is(s[n], e) \in {0, 1}
  BY DEF Is
<1> HIDE DEF t
<1>10. Cardinality(Where(s, e)) = Cardinality(Where(t, e)) + Is(s[n], e)
  <2>1. CASE n \in Where(s, e)
    BY <1>5, <1>6, <1>7, <1>8, <2>1
  <2>2. CASE n \notin Where(s, e)
    BY <1>5, <1>6, <1>7, <1>8, <1>9, <2>2
  <2>3. QED
    BY <2>1, <2>2
<1>11. QED
  BY <1>10 DEF Count, t

(* The message of e is in the sequence, if one chunk of it can hold it.    *)
LEMMA CountSome ==
  ASSUME NEW s \in Seq(Chunks), NEW e, Count(s, e) <= 1
  PROVE  Count(s, e) = IF \E i \in 1..Len(s) : e \in MessageOf(s[i]) THEN 1 ELSE 0
<1>1. Count(s, e) \in Nat /\ (Count(s, e) = 0 <=> Where(s, e) = {})
  BY CountType
<1>2. Where(s, e) = {} <=> ~ \E i \in 1..Len(s) : e \in MessageOf(s[i])
  BY DEF Where, MessageOf
<1>3. QED
  BY <1>1, <1>2

LEMMA InitFates == Init => Fates
<1> SUFFICES ASSUME Init, NEW e \in Ids  PROVE Holders(e) = 0
  BY DEF Init, Fates
<1>1. Live = <<>> /\ got = <<>> /\ frees[e] = 0 /\ prod = "idle"
  BY DEF Init, Live
<1>2. Count(Live, e) = 0 /\ Count(got, e) = 0
  BY <1>1, CountEmpty
<1>3. QED
  BY <1>1, <1>2 DEF Holders

(* Every critical section hands each message on, or frees it.              *)
LEMMA FatesKept ==
  ASSUME IInv, Fates, [Next]_vars
  PROVE  Fates'
<1> DEFINE Same == UNCHANGED <<errs, pushes, pchunk>>
           Arg == IF prod = "push" THEN 1 ELSE 0
<1>1. /\ Live \in Seq(Chunks) /\ Len(Live) = len /\ got \in Seq(Chunks)
      /\ frees \in [Ids -> Nat] /\ pushes \in Nat /\ len \in 0..Cap /\ Cap \in Nat \ {0}
      /\ read_pos \in 0..(Cap - 1)
  BY LiveProperties, CapAssumption DEF IInv, TypeOK
<1>2. ASSUME NEW e \in Ids
      PROVE  /\ Count(Live, e) \in Nat /\ Count(got, e) \in Nat /\ frees[e] \in Nat
             /\ Holders(e) = IF e \in errs THEN 1 ELSE 0
  BY <1>1, <1>2, CountType DEF Fates
<1>3. ASSUME Same, prod' = "push" => prod = "push", \A e \in Ids : Holders(e)' = Holders(e)
      PROVE  Fates'
  BY <1>3 DEF Fates
<1>4. CASE UNCHANGED vars
  <2>1. Live' = Live
    BY <1>4, SameLive DEF vars, ring
  <2>2. QED
    BY <1>3, <1>4, <2>1 DEF vars, producer, consumer, Holders
<1>5. CASE PushWait \/ Notify \/ NextWait \/ NextNothing \/ NextTimeout \/ StreamCancel
           \/ \E mode \in {"forever", "timed"} : StreamNext(mode)
  <2>1. /\ UNCHANGED <<buf, len, read_pos, got, frees, pushes, errs, pchunk>>
        /\ prod' = "push" <=> prod = "push"
    BY <1>5 DEF PushWait, Notify, NextWait, NextNothing, NextTimeout, StreamCancel, StreamNext,
                ring, producer, consumer
  <2>2. Live' = Live
    BY <2>1, SameLive
  <2>3. QED
    BY <1>3, <2>1, <2>2 DEF Holders
<1>6. ASSUME NEW tag \in {"TOKEN", "ERROR", "DONE"}, StreamPush(tag)
      PROVE  Fates'
  <2> DEFINE n == pushes + 1
  <2>1. /\ UNCHANGED <<buf, len, read_pos, got, frees>> /\ prod = "idle" /\ prod' = "push"
        /\ pushes' = n /\ pchunk' = [tag |-> tag, id |-> n]
        /\ errs' = errs \cup (IF tag = "ERROR" THEN {n} ELSE {})
    BY <1>6 DEF StreamPush, ring, consumer
  <2>2. Live' = Live
    BY <2>1, SameLive
  <2>3. n \in Nat /\ n \notin errs /\ errs \subseteq 1..n /\ n \in 1..n
    BY <1>1 DEF Fates
  <2> HIDE DEF n
  <2>4. ASSUME NEW e \in Ids
        PROVE  Holders(e)' = IF e \in errs' THEN 1 ELSE 0
    <3>1. Holders(e) = Count(Live, e) + Count(got, e) + frees[e]
      BY <1>2, <2>1 DEF Holders
    <3>2. Holders(e)' = Count(Live, e) + Count(got, e) + frees[e] + Is(pchunk', e)
      BY <2>1, <2>2 DEF Holders
    <3>3. Is(pchunk', e) = IF tag = "ERROR" /\ e = n THEN 1 ELSE 0
      BY <2>1 DEF Is
    <3>4. e \in errs' <=> e \in errs \/ (tag = "ERROR" /\ e = n)
      BY <2>1
    <3>5. QED
      BY <1>2, <2>3, <3>1, <3>2, <3>3, <3>4
  <2>5. QED
    BY <2>1, <2>3, <2>4 DEF Fates
<1>7. CASE PushRefused
  <2>1. /\ UNCHANGED <<buf, len, read_pos, got, pushes, errs, pchunk>>
        /\ prod = "push" /\ prod' = "idle" /\ Free(MessageOf(pchunk))
    BY <1>7 DEF PushRefused, PushAwake, ring, consumer
  <2>2. Live' = Live
    BY <2>1, SameLive
  <2>3. ASSUME NEW e \in Ids  PROVE Holders(e)' = Holders(e)
    <3>1. frees'[e] = frees[e] + Is(pchunk, e)
      BY <2>1 DEF Free, MessageOf, Is
    <3>2. Is(pchunk, e) \in {0, 1}
      BY DEF Is
    <3>3. Holders(e)' = Count(Live, e) + Count(got, e) + frees'[e]
      BY <1>2, <2>1, <2>2, <3>1, <3>2 DEF Holders
    <3>4. QED
      BY <1>2, <2>1, <3>1, <3>2, <3>3 DEF Holders
  <2>4. QED
    BY <1>3, <2>1, <2>3
<1>8. CASE PushStore
  <2>1. /\ UNCHANGED <<read_pos, got, frees, pushes, errs, pchunk>>
        /\ prod = "push" /\ prod' = "notify" /\ len < Cap /\ len' = len + 1
        /\ buf' = [buf EXCEPT ![Slot(len)] = pchunk] /\ pchunk \in Chunks
    BY <1>8 DEF PushStore, PushAwake, consumer, IInv, Owned
  <2>2. Live' = Append(Live, pchunk)
    BY <2>1, StoreIsPut
  <2>3. ASSUME NEW e \in Ids  PROVE Holders(e)' = Holders(e)
    <3>1. Count(Live', e) = Count(Live, e) + Is(pchunk, e) /\ Is(pchunk, e) \in {0, 1}
      BY <1>1, <2>1, <2>2, CountAppend DEF Is
    <3>2. Holders(e)' = Count(Live', e) + Count(got, e) + frees[e] + 0
      BY <2>1 DEF Holders
    <3>3. QED
      BY <1>2, <2>1, <3>1, <3>2 DEF Holders
  <2>4. QED
    BY <1>3, <2>1, <2>3
<1>9. CASE StreamFinishCancelled
  <2>1. /\ UNCHANGED <<read_pos, got, pushes, errs, pchunk>>
        /\ prod = "idle" /\ prod' = "notify"
    BY <1>9 DEF StreamFinishCancelled, consumer
  <2>2. ASSUME NEW e \in Ids  PROVE Count(Live', e) + frees'[e] = Count(Live, e) + frees[e]
    <3>1. CASE len < Cap
      <4>1. /\ len' = len + 1 /\ frees' = frees
            /\ buf' = [buf EXCEPT ![Slot(len)] = Cancelled]
        BY <1>1, <1>9, <3>1 DEF StreamFinishCancelled
      <4>2. Cancelled \in Chunks /\ Is(Cancelled, e) = 0
        BY DEF Chunks, Cancelled, Is
      <4>3. Live' = Append(Live, Cancelled)
        BY <2>1, <3>1, <4>1, <4>2, StoreIsPut
      <4>4. Count(Live', e) = Count(Live, e) + 0
        BY <1>1, <4>2, <4>3, CountAppend
      <4>5. QED
        BY <1>2, <4>1, <4>4
    <3>2. CASE len = Cap
      <4>1. /\ len' = len /\ Free(MessageOf(buf[Slot(len - 1)]))
            /\ buf' = [buf EXCEPT ![Slot(len - 1)] = Cancelled]
        BY <1>1, <1>9, <3>2 DEF StreamFinishCancelled
      <4>2. Live' = [Live EXCEPT ![Cap] = Cancelled]
        BY <2>1, <3>2, <4>1, OverwriteIsTerminate
      <4>3. Live[Cap] = buf[Slot(len - 1)]
        BY <1>1, <3>2 DEF Live
      <4>4. Count(Live, e) = Count(Live', e) + Is(Live[Cap], e)
        BY <1>1, <3>2, <4>2, CountLast
      <4>5. frees'[e] = frees[e] + Is(Live[Cap], e)
        BY <4>1, <4>3 DEF Free, MessageOf, Is
      <4>6. Live' \in Seq(Chunks)
        BY <2>1, <3>2, <4>1, OverwriteIsTerminate
      <4>7. Count(Live', e) \in Nat /\ Is(Live[Cap], e) \in {0, 1}
        BY <4>6, CountType DEF Is
      <4>8. QED
        BY <1>2, <4>4, <4>5, <4>7
    <3>3. QED
      BY <1>1, <3>1, <3>2
  <2>3. ASSUME NEW e \in Ids  PROVE Holders(e)' = Holders(e)
    <3>1. Holders(e) = Count(Live, e) + Count(got, e) + frees[e] + 0
      BY <2>1 DEF Holders
    <3>2. Holders(e)' = Count(Live', e) + Count(got, e) + frees'[e] + 0
      BY <2>1 DEF Holders
    <3>3. Count(Live', e) \in Nat /\ frees'[e] \in Nat
      <4>1. Live' \in Seq(Chunks) /\ frees' \in [Ids -> Nat]
        BY <1>9, Step, CapAssumption DEF Next, Producing, IInv, TypeOK, LiveFilled
      <4>2. QED
        BY <4>1, CountType
    <3>4. QED
      BY <1>2, <2>2, <3>1, <3>2, <3>3
  <2>4. QED
    BY <1>3, <2>1, <2>3
<1>10. CASE NextPoll \/ NextTake
  <2>1. /\ UNCHANGED <<prod, frees, pushes, errs, pchunk, buf>>
        /\ len > 0 /\ got' = Append(got, buf[read_pos])
        /\ read_pos' = (read_pos + 1) % Cap /\ len' = len - 1
    BY <1>10 DEF NextPoll, NextTake, TakeHead, producer
  <2>2. /\ Live # <<>> /\ Head(Live) = buf[read_pos] /\ buf[read_pos] \in Chunks
        /\ Live' = Tail(Live)
    BY <2>1, LiveProperties, LiveIsWindow
  <2>3. ASSUME NEW e \in Ids  PROVE Holders(e)' = Holders(e)
    <3>1. Count(Live, e) = Count(Live', e) + Is(buf[read_pos], e)
      BY <1>1, <2>2, CountTail
    <3>2. Count(got', e) = Count(got, e) + Is(buf[read_pos], e)
      BY <1>1, <2>1, <2>2, CountAppend
    <3>3. Count(Live', e) \in Nat /\ Is(buf[read_pos], e) \in {0, 1} /\ Is(pchunk, e) \in {0, 1}
      BY <1>1, <2>2, HeadTailProperties, CountType DEF Is
    <3>4. Holders(e)' = Count(Live', e) + Count(got', e) + frees[e]
                        + (IF prod = "push" THEN Is(pchunk, e) ELSE 0)
      BY <2>1 DEF Holders
    <3>5. QED
      BY <1>2, <3>1, <3>2, <3>3, <3>4 DEF Holders
  <2>4. QED
    BY <1>3, <2>1, <2>3
<1>11. CASE ProducerRelease \/ ConsumerRelease
  <2>1. UNCHANGED <<prod, got, pushes, errs, pchunk, buf, read_pos>> /\ StreamRelease
    BY <1>11 DEF ProducerRelease, ConsumerRelease, StreamRelease, consumer, producer
  <2>2. CASE refcount # 1
    <3>1. UNCHANGED <<frees, len>>
      BY <2>1, <2>2 DEF StreamRelease
    <3>2. Live' = Live
      BY <2>1, <3>1, SameLive
    <3>3. QED
      BY <1>3, <2>1, <3>1, <3>2 DEF Holders
  <2>3. CASE refcount = 1
    <3> DEFINE Queued == UNION {MessageOf(buf[Slot(i)]) : i \in 0..(len - 1)}
    <3>1. Free(Queued) /\ len' = 0
      BY <2>1, <2>3 DEF StreamRelease
    <3>2. Live' = <<>>
      BY <3>1 DEF Live
    <3>3. ASSUME NEW e \in Ids
          PROVE  e \in Queued <=> \E i \in 1..Len(Live) : e \in MessageOf(Live[i])
      <4>1. ASSUME NEW i \in 0..(len - 1), e \in MessageOf(buf[Slot(i)])
            PROVE  \E j \in 1..len : e \in MessageOf(Live[j])
        <5>1. i + 1 \in 1..len /\ (i + 1) - 1 = i
          BY <1>1
        <5>2. Live[i + 1] = buf[Slot(i)]
          BY <5>1 DEF Live
        <5>3. QED
          BY <4>1, <5>1, <5>2
      <4>2. ASSUME NEW j \in 1..len, e \in MessageOf(Live[j])
            PROVE  \E i \in 0..(len - 1) : e \in MessageOf(buf[Slot(i)])
        <5>1. j - 1 \in 0..(len - 1)
          BY <1>1
        <5>2. Live[j] = buf[Slot(j - 1)]
          BY DEF Live
        <5>3. QED
          BY <4>2, <5>1, <5>2
      <4>3. QED
        BY <1>1, <4>1, <4>2
    <3> HIDE DEF Queued
    <3>4. ASSUME NEW e \in Ids  PROVE Holders(e)' = Holders(e)
      <4>1. Is(pchunk, e) \in {0, 1}
        BY DEF Is
      <4>2. Count(Live, e) <= 1
        BY <1>2, <4>1 DEF Holders
      <4>3. frees'[e] = frees[e] + Count(Live, e)
        BY <1>1, <3>1, <3>3, <4>2, CountSome DEF Free
      <4>4. Count(Live', e) = 0
        BY <3>2, CountEmpty
      <4>5. Holders(e)' = 0 + Count(got, e) + frees'[e]
                          + (IF prod = "push" THEN Is(pchunk, e) ELSE 0)
        BY <2>1, <4>4 DEF Holders
      <4>6. QED
        BY <1>2, <4>1, <4>3, <4>5 DEF Holders
    <3>5. QED
      BY <1>3, <2>1, <3>4
  <2>4. QED
    BY <2>2, <2>3
<1>12. QED
  BY <1>4, <1>5, <1>6, <1>7, <1>8, <1>9, <1>10, <1>11 DEF Next, Producing, Consuming

(* Every message the engine strdup'ed is freed once or has one owner, for  *)
(* every capacity and any interleaving: stale slots are not freed again,   *)
(* and the terminal that overwrites an ERROR chunk frees its message.      *)
THEOREM ErrorsOwnedOnce == Spec => []ErrorOwnedOnce
<1>1. IInv /\ Fates => ErrorOwnedOnce
  <2> SUFFICES ASSUME IInv, Fates, NEW e \in errs
               PROVE  Cardinality({i \in 1..len : Live[i].tag = "ERROR" /\ Live[i].id = e})
                      + Cardinality({i \in 1..Len(got) : got[i].tag = "ERROR" /\ got[i].id = e})
                      + frees[e] + (IF prod = "push" /\ pchunk.id = e THEN 1 ELSE 0) = 1
    BY DEF ErrorOwnedOnce
  <2>1. e \in Ids /\ Holders(e) = 1
    BY DEF IInv, TypeOK, Fates
  <2>2. (IF prod = "push" THEN Is(pchunk, e) ELSE 0) = IF prod = "push" /\ pchunk.id = e THEN 1 ELSE 0
    BY DEF Fates, Is
  <2>3. Len(Live) = len
    BY LiveProperties
  <2>4. QED
    BY <2>1, <2>2, <2>3 DEF Holders, Count, Where
<1>2. IInv /\ Fates /\ [Next]_vars => IInv' /\ Fates'
  BY Step, FatesKept
<1>3. QED
  BY InitInv, InitFates, <1>1, <1>2, PTL DEF Spec
=============================================================================
