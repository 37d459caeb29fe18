------------------------------- MODULE Streams -------------------------------
(***************************************************************************)
(* The stream_t of every request, seen as the bounded FIFO that StreamRing *)
(* is shown to implement: its queue, its cancelled flag, its reference     *)
(* count, and the notify callback, which stream_push and                   *)
(* stream_finish_cancelled call only after they have unlocked the stream.  *)
(* The engine and the HTTP side are both written with these operations.    *)
(***************************************************************************)
EXTENDS Naturals, Sequences

CONSTANTS Reqs,   \* generate requests, one stream each
          Cap     \* capacity of every stream

ASSUME StreamCapAssumption == Cap \in Nat /\ Cap >= 2

VARIABLES q,          \* q[r]: chunks accepted and not yet taken
          cancelled,  \* cancelled[r]
          refs,       \* refs[r]: refcount, 0 before creation and after the free
          on_push,    \* requests whose notify callback is installed
          cb,         \* requests whose callback is due, after the unlock
          got         \* history: got[r], chunks taken by the consumer

streams == <<q, cancelled, refs, on_push, cb, got>>

Errors == {"internal", "context"}                  \* CHUNK_ERROR, by error_kind
Terminals == {"stop", "length", "cancelled"}       \* CHUNK_DONE, by reason
Chunks == {"token"} \cup Errors \cup Terminals

History(r) == got[r] \o q[r]
Occurs(S, s) == \E i \in 1..Len(s) : s[i] \in S

StreamsInit ==
    /\ q = [r \in Reqs |-> <<>>]
    /\ cancelled = [r \in Reqs |-> FALSE]
    /\ refs = [r \in Reqs |-> 0]
    /\ on_push = {} /\ cb = {}
    /\ got = [r \in Reqs |-> <<>>]

(* stream_create, stream_retain (one reference for the consumer, one for   *)
(* the command that carries the stream to the engine), stream_set_notify.  *)
StreamCreate(r) ==
    /\ refs' = [refs EXCEPT ![r] = 2]
    /\ on_push' = on_push \cup {r}
    /\ UNCHANGED <<q, cancelled, cb, got>>

(* stream_push returning true; blocked while the queue is full.            *)
StreamPush(r, c) ==
    /\ ~cancelled[r] /\ Len(q[r]) < Cap
    /\ q' = [q EXCEPT ![r] = Append(@, c)]
    /\ cb' = cb \cup ({r} \cap on_push)
    /\ UNCHANGED <<cancelled, refs, on_push, got>>

(* Mutant: a push on a full stream keeps waiting after the cancel.         *)
StreamPushRefusedLate(r) == cancelled[r] /\ Len(q[r]) < Cap /\ UNCHANGED streams

(* stream_push returning false.                                            *)
StreamPushRefused(r) == cancelled[r] /\ UNCHANGED streams

StreamNext(r) ==
    /\ q[r] # <<>>
    /\ q' = [q EXCEPT ![r] = Tail(@)]
    /\ got' = [got EXCEPT ![r] = Append(@, Head(q[r]))]
    /\ UNCHANGED <<cancelled, refs, on_push, cb>>

StreamCancel(r) ==
    /\ cancelled' = [cancelled EXCEPT ![r] = TRUE]
    /\ UNCHANGED <<q, refs, on_push, cb, got>>

StreamFinishCancelled(r) ==
    /\ q' = [q EXCEPT ![r] = IF Len(@) < Cap
                               THEN Append(@, "cancelled")
                               ELSE [@ EXCEPT ![Cap] = "cancelled"]]
    /\ cancelled' = [cancelled EXCEPT ![r] = TRUE]
    /\ cb' = cb \cup ({r} \cap on_push)
    /\ UNCHANGED <<refs, on_push, got>>

(* cb(ctx), outside the lock.                                              *)
Callback(r) ==
    /\ r \in cb
    /\ cb' = cb \ {r}
    /\ UNCHANGED <<q, cancelled, refs, on_push, got>>

StreamRelease(r) ==
    /\ refs' = [refs EXCEPT ![r] = @ - 1]
    /\ UNCHANGED <<q, cancelled, on_push, cb, got>>

StreamSoleOwner(r) == refs[r] = 1

StreamsTypeOK ==
    /\ q \in [Reqs -> Seq(Chunks)]
    /\ \A r \in Reqs : Len(q[r]) <= Cap
    /\ cancelled \in [Reqs -> BOOLEAN]
    /\ refs \in [Reqs -> 0..2]
    /\ on_push \subseteq Reqs /\ cb \subseteq Reqs
    /\ got \in [Reqs -> Seq(Chunks)]
=============================================================================
