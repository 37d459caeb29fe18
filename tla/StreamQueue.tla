---------------------------- MODULE StreamQueue ----------------------------
(***************************************************************************)
(* What a stream_t promises its two ends (src/src/engine/engine.h): a      *)
(* bounded FIFO of chunks from the engine to one request.  A push is       *)
(* refused once the stream is cancelled, what was accepted is handed out   *)
(* in order and once, and the engine may end a stream at any moment with   *)
(* the DONE/CANCELLED terminal, which costs the newest chunk when the      *)
(* queue is full.  StreamRing is the code's ring buffer; it implements     *)
(* this specification.                                                     *)
(***************************************************************************)
EXTENDS Naturals, Sequences

CONSTANTS Cap,        \* capacity given to stream_create
          Chunks,     \* every chunk that may travel
          Cancelled   \* the DONE/FINISH_CANCELLED chunk, one of Chunks

VARIABLES queue,      \* accepted and not yet handed out, oldest first
          cancelled,  \* the cancelled flag
          got,        \* every chunk handed out so far, in order
          alive       \* FALSE once the last reference is gone

qvars == <<queue, cancelled, got, alive>>

QInit == /\ queue = <<>>
         /\ cancelled = FALSE
         /\ got = <<>>
         /\ alive = TRUE

Put(c) == /\ alive /\ ~cancelled /\ Len(queue) < Cap
          /\ queue' = Append(queue, c)
          /\ UNCHANGED <<cancelled, got, alive>>

Take == /\ alive /\ queue # <<>>
        /\ queue' = Tail(queue)
        /\ got' = Append(got, Head(queue))
        /\ UNCHANGED <<cancelled, alive>>

Cancel == /\ alive
          /\ cancelled' = TRUE
          /\ UNCHANGED <<queue, got, alive>>

(* The terminal is never refused: a full queue gives up its newest chunk.  *)
Terminate == /\ alive
             /\ \/ /\ Len(queue) < Cap
                   /\ queue' = Append(queue, Cancelled)
                \/ /\ Len(queue) = Cap
                   /\ queue' = [queue EXCEPT ![Cap] = Cancelled]
             /\ cancelled' = TRUE
             /\ UNCHANGED <<got, alive>>

Discard == /\ alive
           /\ alive' = FALSE
           /\ queue' = <<>>
           /\ UNCHANGED <<cancelled, got>>

QNext == \/ \E c \in Chunks : Put(c)
         \/ Take
         \/ Cancel
         \/ Terminate
         \/ Discard

QSpec == QInit /\ [][QNext]_qvars
=============================================================================
