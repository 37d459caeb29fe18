------------------------------ MODULE GenStream ------------------------------
(***************************************************************************)
(* What the engine promises the owner of a generate request, whatever      *)
(* model runs behind it: tokens, then at most one error, then at most one  *)
(* DONE, then the engine's reference is dropped and the stream is never    *)
(* touched again; a stream that was neither cancelled nor overtaken by     *)
(* shutdown always gets its DONE.  Engine implements this specification    *)
(* and Serving, the HTTP side, is written against it.                      *)
(***************************************************************************)
EXTENDS Streams

VARIABLES phase,     \* phase[r]: how far the engine is with the request
          shutdown   \* eng->shutdown

gvars == <<streams, phase, shutdown>>

(* held: tokens may follow; failing: an error was sent; ended: a DONE was  *)
(* sent; silent: the engine gave up without a DONE; gone: released.        *)
Phases == {"none", "held", "failing", "ended", "silent", "gone"}

GInit == /\ StreamsInit
         /\ phase = [r \in Reqs |-> "none"]
         /\ shutdown = FALSE

To(r, p) == phase' = [phase EXCEPT ![r] = p] /\ UNCHANGED shutdown

Create(r) == phase[r] = "none" /\ StreamCreate(r) /\ To(r, "held")

SendToken(r) ==
    /\ phase[r] = "held" /\ r \notin cb
    /\ StreamPush(r, "token")
    /\ UNCHANGED <<phase, shutdown>>

SendError(r) ==
    /\ phase[r] = "held" /\ r \notin cb
    /\ \E e \in Errors : StreamPush(r, e)
    /\ To(r, "failing")

SendDone(r) ==
    /\ r \notin cb
    /\ \/ phase[r] = "held" /\ \E d \in {"stop", "length"} : StreamPush(r, d)
       \/ phase[r] = "failing" /\ StreamPush(r, "stop")
    /\ To(r, "ended")

(* Only a cancelled stream, or one overtaken by shutdown, is cut short.    *)
CutShort(r) ==
    /\ phase[r] \in {"held", "failing"} /\ r \notin cb
    /\ cancelled[r] \/ shutdown
    /\ StreamFinishCancelled(r)
    /\ To(r, "ended")

(* Only a failure after a cancel, with no shutdown yet, ends without DONE. *)
GiveUp(r) ==
    /\ phase[r] \in {"held", "failing"} /\ r \notin cb
    /\ cancelled[r] /\ ~shutdown
    /\ UNCHANGED streams
    /\ To(r, "silent")

Notify(r) == Callback(r) /\ UNCHANGED <<phase, shutdown>>

Release(r) ==
    /\ phase[r] \in {"ended", "silent"} /\ r \notin cb
    /\ StreamRelease(r)
    /\ To(r, "gone")

Produce(r) ==
    \/ SendToken(r) \/ SendError(r) \/ SendDone(r)
    \/ CutShort(r) \/ GiveUp(r)
    \/ Notify(r) \/ Release(r)

(* The consumer's side, and engine_signal_shutdown.                        *)
Consume(r) ==
    /\ refs[r] > 0
    /\ StreamNext(r) \/ StreamCancel(r) \/ StreamRelease(r)
    /\ UNCHANGED <<phase, shutdown>>

SignalShutdown == shutdown' = TRUE /\ UNCHANGED <<streams, phase>>

GNext == \/ \E r \in Reqs : Create(r) \/ Produce(r) \/ Consume(r)
         \/ SignalShutdown

GSpec == GInit /\ [][GNext]_gvars
=============================================================================
