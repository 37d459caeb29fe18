----------------------------- MODULE StreamRing -----------------------------
(***************************************************************************)
(* stream_t of src/src/engine/engine.c: the ring buffer with its mutex and *)
(* its one condition variable, between one producer (whoever holds the     *)
(* engine's reference) and one consumer (the request).  Every critical     *)
(* section of s->mtx is one action; a thread inside pthread_cond_wait is a *)
(* member of sleepers and runs again only after a broadcast (or, for a     *)
(* timed wait, a timeout).  Chunks carry the serial number of their push,  *)
(* and an ERROR chunk stands for its heap-allocated message.               *)
(***************************************************************************)
EXTENDS Naturals, Sequences, FiniteSets

CONSTANTS Cap,       \* capacity given to stream_create
          MaxPush    \* bound: pushes the producer makes

ASSUME CapAssumption == Cap \in Nat \ {0}
ASSUME MaxPushAssumption == MaxPush \in Nat

VARIABLES buf, len, read_pos, cancelled, refcount,
          prod,      \* "idle", "push" (inside stream_push), "notify" (callback due)
          pchunk,    \* argument of the current push
          ended,     \* the producer has sent its terminal
          prodRef,   \* the producer still owns its reference
          cons,      \* "idle", "forever", "timed": inside stream_next
          consRef,   \* the consumer still owns its reference
          sleepers,  \* threads waiting on s->cond
          pushes,    \* pushes made, the next serial number is pushes + 1
          errs,      \* serial numbers whose chunk owns a message
          frees,     \* how often each message was freed by the stream
          got        \* history: every chunk the consumer received

ring == <<buf, len, read_pos, cancelled, refcount>>
producer == <<prod, pchunk, ended, prodRef, pushes, errs>>
consumer == <<cons, consRef, got>>
vars == <<ring, producer, consumer, sleepers, frees>>

Ids == 1..MaxPush
Cancelled == [tag |-> "DONE", id |-> 0]
Empty == [tag |-> "NONE", id |-> 0]          \* a calloc'ed slot
Chunks == [tag : {"TOKEN", "ERROR", "DONE"}, id : Ids] \cup {Cancelled}

(* The i-th oldest chunk, 0 <= i < len.                                    *)
Slot(i) == (read_pos + i) % Cap
Live == [i \in 1..len |-> buf[Slot(i - 1)]]

Free(ids) == frees' = [e \in Ids |-> frees[e] + IF e \in ids THEN 1 ELSE 0]
MessageOf(c) == IF c.tag = "ERROR" THEN {c.id} ELSE {}
Broadcast == sleepers' = {}
-----------------------------------------------------------------------------
(* stream_create, then stream_retain for the command.                      *)
Init == /\ buf = [i \in 0..(Cap - 1) |-> Empty]
        /\ len = 0 /\ read_pos = 0
        /\ cancelled = FALSE
        /\ refcount = 2
        /\ prod = "idle" /\ pchunk = Empty /\ ended = FALSE /\ prodRef = TRUE
        /\ cons = "idle" /\ consRef = TRUE
        /\ sleepers = {}
        /\ pushes = 0 /\ errs = {}
        /\ frees = [e \in Ids |-> 0]
        /\ got = <<>>

(* The producer calls stream_push; an error message is strdup'ed first.    *)
StreamPush(tag) ==
    /\ prodRef /\ prod = "idle" /\ ~ended /\ pushes < MaxPush
    /\ prod' = "push"
    /\ pushes' = pushes + 1
    /\ pchunk' = [tag |-> tag, id |-> pushes + 1]
    /\ errs' = errs \cup (IF tag = "ERROR" THEN {pushes + 1} ELSE {})
    /\ UNCHANGED <<ring, consumer, ended, prodRef, sleepers, frees>>

PushAwake == prod = "push" /\ "prod" \notin sleepers

PushWait ==
    /\ PushAwake /\ len = Cap /\ ~cancelled
    /\ sleepers' = sleepers \cup {"prod"}
    /\ UNCHANGED <<ring, producer, consumer, frees>>

(* Push on a cancelled stream: false, and the message is freed.            *)
PushRefused ==
    /\ PushAwake /\ cancelled
    /\ prod' = "idle"
    /\ Free(MessageOf(pchunk))
    /\ UNCHANGED <<ring, consumer, pchunk, ended, prodRef, pushes, errs, sleepers>>

PushStore ==
    /\ PushAwake /\ len < Cap /\ ~cancelled
    /\ buf' = [buf EXCEPT ![Slot(len)] = pchunk]
    /\ len' = len + 1
    /\ Broadcast
    /\ prod' = "notify"
    /\ ended' = (pchunk.tag = "DONE")
    /\ UNCHANGED <<read_pos, cancelled, refcount, pchunk, prodRef, pushes, errs,
                   consumer, frees>>

(* cb(ctx), after the unlock.                                              *)
Notify ==
    /\ prod = "notify"
    /\ prod' = "idle"
    /\ UNCHANGED <<ring, consumer, pchunk, ended, prodRef, pushes, errs, sleepers, frees>>

(* Mutant: the terminal takes the place of the oldest chunk.              *)
FinishCancelledTakesOldest ==
    /\ prodRef /\ prod = "idle" /\ ~ended
    /\ LET at == Slot(IF len < Cap THEN len ELSE 0) IN
         /\ Free(IF len < Cap THEN {} ELSE MessageOf(buf[at]))
         /\ buf' = [buf EXCEPT ![at] = Cancelled]
    /\ len' = IF len < Cap THEN len + 1 ELSE len
    /\ cancelled' = TRUE /\ ended' = TRUE /\ prod' = "notify"
    /\ Broadcast
    /\ UNCHANGED <<read_pos, refcount, pchunk, prodRef, pushes, errs, consumer>>

StreamFinishCancelled ==
    /\ prodRef /\ prod = "idle" /\ ~ended
    /\ \/ /\ len < Cap
          /\ buf' = [buf EXCEPT ![Slot(len)] = Cancelled]
          /\ len' = len + 1
          /\ UNCHANGED frees
       \/ /\ len = Cap
          /\ Free(MessageOf(buf[Slot(len - 1)]))
          /\ buf' = [buf EXCEPT ![Slot(len - 1)] = Cancelled]
          /\ UNCHANGED len
    /\ cancelled' = TRUE
    /\ ended' = TRUE
    /\ prod' = "notify"
    /\ Broadcast
    /\ UNCHANGED <<read_pos, refcount, pchunk, prodRef, pushes, errs, consumer>>
-----------------------------------------------------------------------------
(* stream_next: timeout_ms < 0 ("forever"), > 0 ("timed"), 0 (NextPoll).   *)
StreamNext(mode) ==
    /\ consRef /\ cons = "idle"
    /\ cons' = mode
    /\ UNCHANGED <<ring, producer, consRef, got, sleepers, frees>>

NextAwake == cons # "idle" /\ "cons" \notin sleepers

(* Mutant: the consumer makes room and tells nobody.                       *)
TakeHeadSilent ==
    /\ len > 0
    /\ got' = Append(got, buf[read_pos])
    /\ read_pos' = (read_pos + 1) % Cap
    /\ len' = len - 1
    /\ UNCHANGED <<buf, cancelled, refcount, producer, consRef, frees, sleepers>>

TakeHead ==
    /\ len > 0
    /\ got' = Append(got, buf[read_pos])
    /\ read_pos' = (read_pos + 1) % Cap
    /\ len' = len - 1
    /\ Broadcast
    /\ UNCHANGED <<buf, cancelled, refcount, producer, consRef, frees>>

NextPoll == consRef /\ cons = "idle" /\ TakeHead /\ UNCHANGED cons

NextTake == NextAwake /\ TakeHead /\ cons' = "idle"

NextWait ==
    /\ NextAwake /\ len = 0 /\ ~cancelled
    /\ sleepers' = sleepers \cup {"cons"}
    /\ UNCHANGED <<ring, producer, consumer, frees>>

NextNothing ==
    /\ NextAwake /\ len = 0 /\ cancelled
    /\ cons' = "idle"
    /\ UNCHANGED <<ring, producer, consRef, got, sleepers, frees>>

(* pthread_cond_timedwait reports ETIMEDOUT and the queue is still empty.  *)
NextTimeout ==
    /\ cons = "timed" /\ "cons" \in sleepers /\ len = 0
    /\ cons' = "idle"
    /\ sleepers' = sleepers \ {"cons"}
    /\ UNCHANGED <<ring, producer, consRef, got, frees>>

(* By the consumer, or by engine_signal_shutdown through eng->inflight,    *)
(* which names the stream only while the producer owns its reference.      *)
StreamCancel ==
    /\ (consRef /\ cons = "idle") \/ prodRef
    /\ cancelled' = TRUE
    /\ Broadcast
    /\ UNCHANGED <<buf, len, read_pos, refcount, producer, consumer, frees>>
-----------------------------------------------------------------------------
(* Mutant: the last release frees the message of every slot.               *)
StreamReleaseAllSlots ==
    /\ refcount' = refcount - 1
    /\ IF refcount = 1
         THEN /\ Free(UNION {MessageOf(buf[i]) : i \in 0..(Cap - 1)})
              /\ len' = 0
         ELSE UNCHANGED <<frees, len>>
    /\ UNCHANGED <<buf, read_pos, cancelled, sleepers>>

(* The last release frees the messages still queued, then the stream.      *)
StreamRelease ==
    /\ refcount' = refcount - 1
    /\ IF refcount = 1
         THEN /\ Free(UNION {MessageOf(buf[Slot(i)]) : i \in 0..(len - 1)})
              /\ len' = 0
         ELSE UNCHANGED <<frees, len>>
    /\ UNCHANGED <<buf, read_pos, cancelled, sleepers>>

ProducerRelease ==
    /\ prodRef /\ prod = "idle"
    /\ prodRef' = FALSE
    /\ StreamRelease
    /\ UNCHANGED <<prod, pchunk, ended, pushes, errs, consumer>>

ConsumerRelease ==
    /\ consRef /\ cons = "idle"
    /\ consRef' = FALSE
    /\ StreamRelease
    /\ UNCHANGED <<cons, got, producer>>

Producing ==
    \/ \E tag \in {"TOKEN", "ERROR", "DONE"} : StreamPush(tag)
    \/ PushWait \/ PushRefused \/ PushStore
    \/ Notify
    \/ StreamFinishCancelled
    \/ ProducerRelease

Consuming ==
    \/ \E mode \in {"forever", "timed"} : StreamNext(mode)
    \/ NextPoll \/ NextTake \/ NextWait \/ NextNothing \/ NextTimeout
    \/ ConsumerRelease

Next == Producing \/ Consuming \/ StreamCancel

(* A thread inside a stream call that is not asleep is scheduled.          *)
Fairness == /\ WF_vars(PushWait \/ PushRefused \/ PushStore \/ Notify)
            /\ WF_vars(NextTake \/ NextWait \/ NextNothing)

Spec == Init /\ [][Next]_vars
FairSpec == Spec /\ Fairness
-----------------------------------------------------------------------------
TypeOK ==
    /\ buf \in [0..(Cap - 1) -> Chunks \cup {Empty}]
    /\ len \in 0..Cap
    /\ read_pos \in 0..(Cap - 1)
    /\ cancelled \in BOOLEAN
    /\ refcount \in 0..2
    /\ prod \in {"idle", "push", "notify"}
    /\ pchunk \in Chunks \cup {Empty}
    /\ ended \in BOOLEAN /\ prodRef \in BOOLEAN
    /\ cons \in {"idle", "forever", "timed"}
    /\ consRef \in BOOLEAN
    /\ sleepers \subseteq {"prod", "cons"}
    /\ pushes \in 0..MaxPush
    /\ errs \subseteq Ids
    /\ frees \in [Ids -> Nat]
    /\ got \in Seq(Chunks)

(* Every error message the engine strdup'ed has exactly one fate: waiting  *)
(* in the push, queued in a live slot, handed to the consumer (who frees   *)
(* it), or freed once by the stream.  Slots outside the live window keep   *)
(* stale pointers that stream_release must not free again, and the         *)
(* terminal that overwrites the newest chunk must free what it replaces.   *)
ErrorOwnedOnce ==
    \A e \in errs :
        Cardinality({i \in 1..len : Live[i].tag = "ERROR" /\ Live[i].id = e})
        + Cardinality({i \in 1..Len(got) : got[i].tag = "ERROR" /\ got[i].id = e})
        + frees[e]
        + (IF prod = "push" /\ pchunk.id = e THEN 1 ELSE 0) = 1

(* A push blocked on a full ring returns once there is room or the stream  *)
(* is cancelled, and a blocked stream_next once there is a chunk or a      *)
(* cancel, even when no timeout ends its wait: neither side may forget     *)
(* the broadcast the other one waits for.                                  *)
ThreadsReturn ==
    /\ (prod = "push" /\ (cancelled \/ len < Cap)) ~> (prod # "push")
    /\ (cons # "idle" /\ (cancelled \/ len > 0)) ~> (cons = "idle")

(* The ring implements the bounded FIFO of StreamQueue.                    *)
Queue == INSTANCE StreamQueue WITH queue <- Live, alive <- (refcount > 0)
ImplementsQueue == Queue!QSpec
=============================================================================
