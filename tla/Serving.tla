------------------------------- MODULE Serving -------------------------------
(***************************************************************************)
(* The HTTP side of a generation: src/src/http/gen_request.c (one          *)
(* gen_request_t per request, on the loop thread) and the connections and  *)
(* the stop-and-drain sequence of src/src/http/server.c.  The engine is    *)
(* the contract GenStream, which Engine is shown to keep.                  *)
(*                                                                         *)
(* The loop thread runs one libuv callback at a time, but the engine runs  *)
(* beside it: a callback is one action unless the engine can act between   *)
(* two of its steps (the loop of gen_on_async, the walk and the signal of  *)
(* on_stop_async); loop says which callback is in the middle.  A request   *)
(* and its connection share a name: a generating connection serves nothing *)
(* else and is closed by the end of the response.                          *)
(***************************************************************************)
EXTENDS GenStream, FiniteSets, SequencesExt

CONSTANTS Modes,       \* kinds of responses requested
          MaxTokens,   \* bound: tokens the engine sends per request
          Hwm,         \* BACKPRESSURE_HWM, counted in unsent writes
          WritesFail,  \* whether queue_write may fail on the spot
          None         \* no request

ASSUME ServingAssumption ==
    /\ Modes \subseteq {"chat", "chat_usage", "completion", "json"}
    /\ MaxTokens \in Nat /\ Hwm \in Nat
    /\ WritesFail \in BOOLEAN
    /\ {None, "stop", "signal"} \cap Reqs = {}
    /\ None \notin {"stop", "signal"}

VARIABLES
    \* conn_t
    conn,        \* conn[r]: "none", "open", "closing" (uv_close called), "freed"
    gen_owned,   \* connections handed to a gen_request
    observer,    \* connections with on_gone set
    wq,          \* wq[r]: unsent writes, each its close_after flag
    out,         \* history: frames accepted for writing
    \* gen_request_t
    gr,          \* gr[r]: "none", "running", "closing", "freed"
    mode,
    attached,    \* gr->conn is not NULL
    suppress,    \* suppress_writes
    role_sent,
    timer,       \* timer_inited
    pending_closes,
    async,       \* uv_async_t with a send pending
    \* http_server_t
    loop,        \* callback interrupted by the engine: a request, "stop",
                 \* "signal" or None
    stop,        \* http_server_stop: "no", "sent", "handled"
    drain_timer, \* "none", "active", "closed"
    drain_open_conns

connection == <<conn, gen_owned, observer, wq, out>>
request == <<gr, mode, attached, suppress, role_sent, timer, pending_closes, async>>
server == <<loop, stop, drain_timer, drain_open_conns>>
vars == <<gvars, connection, request, server>>

Sse(r) == mode[r] # "json"
Chat(r) == mode[r] \in {"chat", "chat_usage"}
Free == loop = None      \* the loop thread is between two callbacks

Init ==
    /\ GInit
    /\ conn = [r \in Reqs |-> "none"] /\ gen_owned = {} /\ observer = {}
    /\ wq = [r \in Reqs |-> <<>>] /\ out = [r \in Reqs |-> <<>>]
    /\ gr = [r \in Reqs |-> "none"] /\ mode = [r \in Reqs |-> "none"]
    /\ attached = {} /\ suppress = {} /\ role_sent = {} /\ timer = {} /\ async = {}
    /\ pending_closes = [r \in Reqs |-> 0]
    /\ loop = None /\ stop = "no" /\ drain_timer = "none" /\ drain_open_conns = 0
-----------------------------------------------------------------------------
(* The engine, through the contract, and its notify_cb.                    *)

Tokens(r) == Len(SelectSeq(History(r), LAMBDA c : c = "token"))

EngineStep(r) ==
    /\ \/ /\ Tokens(r) < MaxTokens /\ SendToken(r)
       \/ SendError(r) \/ SendDone(r) \/ CutShort(r) \/ GiveUp(r) \/ Release(r)
    /\ UNCHANGED <<connection, request, server>>

NotifyCb(r) ==                                  \* uv_async_send(&gr->async)
    /\ Notify(r)
    /\ async' = async \cup {r}
    /\ UNCHANGED <<connection, gr, mode, attached, suppress, role_sent, timer,
                   pending_closes, server>>
-----------------------------------------------------------------------------
(* Parts of callbacks, for a set R of requests; each leaves to its caller  *)
(* the variables it does not mention.                                      *)

(* Mutant: the request is torn down while the engine still has its stream. *)
TeardownEager(R) ==
    LET done == {r \in R : gr[r] = "running"}
    IN  /\ gr' = [r \in Reqs |-> IF r \in done THEN "closing" ELSE gr[r]]
        /\ refs' = [r \in Reqs |-> IF r \in done THEN refs[r] - 1 ELSE refs[r]]
        /\ on_push' = on_push \ done
        /\ pending_closes' = [r \in Reqs |->
               IF r \in done THEN (IF r \in timer THEN 2 ELSE 1) ELSE pending_closes[r]]
        /\ UNCHANGED <<cb, timer>>

(* try_teardown and begin_close.                                           *)
Teardown(R) ==
    LET live == {r \in R : gr[r] = "running"}
        done == {r \in live : StreamSoleOwner(r)}
    IN  /\ gr' = [r \in Reqs |-> IF r \in done THEN "closing" ELSE gr[r]]
        /\ refs' = [r \in Reqs |-> IF r \in done THEN refs[r] - 1 ELSE refs[r]]
        /\ on_push' = on_push \ done
        /\ timer' = timer \cup (live \ done)
        /\ pending_closes' = [r \in Reqs |->
               IF r \in done THEN (IF r \in timer THEN 2 ELSE 1) ELSE pending_closes[r]]
        /\ UNCHANGED cb

(* drain_check, once for each of n connections closed.                     *)
DrainCheck(n) ==
    IF drain_timer # "active" THEN UNCHANGED <<drain_timer, drain_open_conns>>
    ELSE /\ drain_open_conns' = drain_open_conns - n
         /\ drain_timer' = IF drain_open_conns = n THEN "closed" ELSE "active"

(* close_conn: uv_close and, for an observed connection, on_conn_gone.     *)
(* extra: the stream in flight, when the callback also signals shutdown.   *)
CloseConns(R, extra) ==
    LET open == {r \in R : conn[r] = "open"}
        gone == open \cap observer
    IN  /\ conn' = [r \in Reqs |-> IF r \in open THEN "closing" ELSE conn[r]]
        /\ observer' = observer \ gone
        /\ attached' = attached \ gone
        /\ cancelled' = [r \in Reqs |-> cancelled[r] \/ r \in gone \cup extra]
        /\ Teardown(gone)

(* queue_write of the frames fs, the last one with close_after or not; a   *)
(* write that fails on the spot closes the connection, and the frames      *)
(* after it are dropped.                                                   *)
WriteAll(r, fs, close_after) ==
    /\ wq' = [wq EXCEPT ![r] = IF conn[r] = "open"
                                 THEN @ \o [i \in 1..Len(fs) |-> close_after /\ i = Len(fs)]
                                 ELSE @]
    /\ out' = [out EXCEPT ![r] = IF conn[r] = "open" THEN @ \o fs ELSE @]

WriteFailing(r, fs) ==
    /\ WritesFail /\ conn[r] = "open" /\ fs # <<>>
    /\ \E k \in 0..(Len(fs) - 1) : out' = [out EXCEPT ![r] = @ \o SubSeq(fs, 1, k)]
    /\ wq' = [wq EXCEPT ![r] = <<>>]
-----------------------------------------------------------------------------
(* Connections.                                                            *)

OnNewConnection(r) ==
    /\ Free /\ conn[r] = "none" /\ stop # "handled"
    /\ conn' = [conn EXCEPT ![r] = "open"]
    /\ UNCHANGED <<gvars, gen_owned, observer, wq, out, request, server>>

(* dispatch of a request that is answered at once, keep-alive or not.      *)
Respond(r) ==
    /\ Free /\ conn[r] = "open" /\ r \notin gen_owned /\ wq[r] = <<>>
    /\ \E close_after \in BOOLEAN : wq' = [wq EXCEPT ![r] = <<close_after>>]
    /\ UNCHANGED <<gvars, conn, gen_owned, observer, out, request, server>>

(* dispatch of a generation: gen_request_start past its fallible part, the *)
(* post, the SSE head, and gen_owned.  The engine cannot be shutting down: *)
(* on_stop_async closes every connection that could still dispatch.        *)
GenRequestStart(r) ==
    /\ Free /\ conn[r] = "open" /\ r \notin gen_owned /\ TRUE \notin Range(wq[r])
    /\ To(r, "held")
    /\ gr' = [gr EXCEPT ![r] = "running"]
    /\ \E m \in Modes :
         /\ mode' = [mode EXCEPT ![r] = m]
         /\ \/ /\ WriteAll(r, IF m = "json" THEN <<>> ELSE <<"head">>, FALSE)
               /\ attached' = attached \cup {r}
               /\ observer' = observer \cup {r}
               /\ StreamCreate(r)
               /\ UNCHANGED <<conn, timer>>
            \/ /\ m # "json" /\ WriteFailing(r, <<"head">>)   \* on_conn_gone at once
               /\ conn' = [conn EXCEPT ![r] = "closing"]
               /\ cancelled' = [cancelled EXCEPT ![r] = TRUE]
               /\ timer' = timer \cup {r}
               /\ refs' = [refs EXCEPT ![r] = 2]
               /\ on_push' = on_push \cup {r}
               /\ UNCHANGED <<q, cb, got, attached, observer>>
    /\ gen_owned' = gen_owned \cup {r}
    /\ UNCHANGED <<suppress, role_sent, pending_closes, async, server>>

(* on_write: the peer has taken one write, or it failed.                   *)
OnWrite(r) ==
    /\ Free /\ conn[r] = "open" /\ wq[r] # <<>>
    /\ \E failed \in BOOLEAN :
         IF failed \/ Head(wq[r])
           THEN /\ CloseConns({r}, {}) /\ DrainCheck(1)
                /\ wq' = [wq EXCEPT ![r] = <<>>]
           ELSE /\ wq' = [wq EXCEPT ![r] = Tail(@)]
                /\ UNCHANGED <<conn, observer, attached, cancelled, gr, refs, on_push,
                               timer, pending_closes, cb, drain_timer, drain_open_conns>>
    /\ UNCHANGED <<q, got, phase, shutdown, gen_owned, out, mode, suppress, role_sent,
                   async, loop, stop>>

(* on_read with nread < 0: the peer hung up.                               *)
PeerGone(r) ==
    /\ Free /\ conn[r] = "open"
    /\ CloseConns({r}, {}) /\ DrainCheck(1)
    /\ wq' = [wq EXCEPT ![r] = <<>>]
    /\ UNCHANGED <<q, got, phase, shutdown, gen_owned, out, mode, suppress, role_sent,
                   async, loop, stop>>

OnConnClose(r) ==
    /\ Free /\ conn[r] = "closing"
    /\ conn' = [conn EXCEPT ![r] = "freed"]
    /\ UNCHANGED <<gvars, gen_owned, observer, wq, out, request, server>>
-----------------------------------------------------------------------------
(* gen_on_async: drain the stream chunk by chunk.                          *)

(* Mutant: the last frame does not close the connection.                   *)
FinishKeepsAlive(r, fs, cancel) ==
    /\ Teardown({r})
    /\ attached' = attached \ {r}
    /\ observer' = observer \ ({r} \cap attached)
    /\ cancelled' = [cancelled EXCEPT ![r] = @ \/ cancel]
    /\ WriteAll(r, fs, FALSE)
    /\ loop' = None
    /\ UNCHANGED <<conn, drain_timer, drain_open_conns>>

(* finish_response and finish_error: detach, write fs or close a           *)
(* suppressed connection, then try_teardown.                               *)
Finish(r, fs, cancel) ==
    /\ Teardown({r})
    /\ attached' = attached \ {r}
    /\ observer' = observer \ ({r} \cap attached)
    /\ cancelled' = [cancelled EXCEPT ![r] = @ \/ cancel]
    /\ \/ /\ r \notin attached
          /\ UNCHANGED <<conn, wq, out, drain_timer, drain_open_conns>>
       \/ /\ r \in attached \ suppress
          /\ WriteAll(r, fs, TRUE)
          /\ UNCHANGED <<conn, drain_timer, drain_open_conns>>
       \/ /\ r \in attached
          /\ \/ r \in suppress /\ wq' = [wq EXCEPT ![r] = <<>>] /\ UNCHANGED out
             \/ r \notin suppress /\ WriteFailing(r, fs)
          /\ conn' = [conn EXCEPT ![r] = "closing"]
          /\ DrainCheck(1)
    /\ loop' = None

ErrorFrames(r) == IF Sse(r) THEN <<"error", "done">> ELSE <<"json_error">>

(* Mutant: a chat without text has no role frame.                          *)
ResponseFramesNoRole(r, flush) ==
    CASE mode[r] = "json" -> <<"json">>
      [] OTHER -> (IF flush THEN <<"content">> ELSE <<>>) \o <<"final">>
                  \o (IF mode[r] = "chat_usage" THEN <<"usage">> ELSE <<>>)
                  \o <<"done">>

(* flush: the detokenizer still held text.                                 *)
ResponseFrames(r, flush) ==
    CASE mode[r] = "json" -> <<"json">>
      [] mode[r] = "completion" ->
           (IF flush THEN <<"content">> ELSE <<>>) \o <<"final", "done">>
      [] OTHER ->
           (IF flush THEN IF r \in role_sent THEN <<"content">> ELSE <<"role">>
            ELSE IF r \in role_sent THEN <<>> ELSE <<"role">>)
           \o <<"final">>
           \o (IF mode[r] = "chat_usage" THEN <<"usage">> ELSE <<>>)
           \o <<"done">>

GenOnAsync(r) ==
    /\ Free /\ r \in async /\ gr[r] = "running"
    /\ async' = async \ {r}
    /\ loop' = r
    /\ UNCHANGED <<gvars, connection, gr, mode, attached, suppress, role_sent, timer,
                   pending_closes, stop, drain_timer, drain_open_conns>>

AsyncEmpty(r) ==
    /\ loop = r /\ gr[r] = "running" /\ q[r] = <<>>
    /\ loop' = None
    /\ UNCHANGED <<gvars, connection, request, stop, drain_timer, drain_open_conns>>

(* stream_next succeeds on a chunk of S.                                   *)
TakeChunk(r, S) ==
    /\ loop = r /\ gr[r] = "running"
    /\ q[r] # <<>> /\ Head(q[r]) \in S
    /\ q' = [q EXCEPT ![r] = Tail(@)]
    /\ got' = [got EXCEPT ![r] = Append(@, Head(q[r]))]
    /\ UNCHANGED <<phase, shutdown, gen_owned, mode, async, stop>>

AsyncError(r) ==
    /\ TakeChunk(r, Errors)
    /\ Finish(r, ErrorFrames(r), FALSE)
    /\ UNCHANGED <<suppress, role_sent>>

AsyncDone(r) ==
    /\ TakeChunk(r, Terminals)
    /\ \/ \E flush \in BOOLEAN : Finish(r, ResponseFrames(r, flush), FALSE)
       \/ Finish(r, ErrorFrames(r), FALSE)              \* detok_flush fails
    /\ UNCHANGED <<suppress, role_sent>>

(* The detokenizer (or the accumulator) fails: cancel and report.          *)
AsyncTokenError(r) ==
    /\ TakeChunk(r, {"token"})
    /\ Finish(r, ErrorFrames(r), TRUE)
    /\ UNCHANGED <<suppress, role_sent>>

(* Mutant: one chunk per callback, though sends of the async coalesce.     *)
AsyncTokenOnly(r) ==
    /\ TakeChunk(r, {"token"})
    /\ loop' = None
    /\ UNCHANGED <<conn, observer, wq, out, suppress, role_sent, attached, cancelled, gr,
                   refs, on_push, cb, timer, pending_closes, drain_timer, drain_open_conns>>

(* emit_sse_chunk: the first frame of a chat carries the role.             *)
EmitSseChunk(r) ==
    IF ~Sse(r) \/ r \notin attached \ suppress THEN <<>>
    ELSE IF Chat(r) /\ r \notin role_sent THEN <<"role">> ELSE <<"content">>

(* A token whose text is complete is emitted; above the high-water mark    *)
(* the connection is given up: no more writes, and the stream is cancelled.*)
AsyncToken(r) ==
    /\ TakeChunk(r, {"token"})
    /\ \E text \in BOOLEAN :
         LET fs == IF text THEN EmitSseChunk(r) ELSE <<>>
             over == Sse(r) /\ r \in attached \ suppress
                     /\ Len(wq[r]) + Len(fs) > Hwm
         IN  /\ role_sent' = IF fs # <<>> /\ Chat(r) THEN role_sent \cup {r} ELSE role_sent
             /\ \/ /\ WriteAll(r, fs, FALSE)
                   /\ suppress' = IF over THEN suppress \cup {r} ELSE suppress
                   /\ cancelled' = [cancelled EXCEPT ![r] = @ \/ over]
                   /\ UNCHANGED <<conn, observer, attached, gr, refs, on_push, cb, timer,
                                  pending_closes, drain_timer, drain_open_conns>>
                \/ /\ WriteFailing(r, fs)
                   /\ CloseConns({r}, {}) /\ DrainCheck(1)
                   /\ UNCHANGED suppress
    /\ UNCHANGED loop

OnTimer(r) ==
    /\ Free /\ r \in timer /\ gr[r] = "running" /\ StreamSoleOwner(r)
    /\ Teardown({r})
    /\ UNCHANGED <<q, cancelled, got, phase, shutdown, connection, mode, attached,
                   suppress, role_sent, async, server>>

OnCloseCb(r) ==
    /\ Free /\ gr[r] = "closing"
    /\ pending_closes' = [pending_closes EXCEPT ![r] = @ - 1]
    /\ gr' = IF pending_closes[r] = 1 THEN [gr EXCEPT ![r] = "freed"] ELSE gr
    /\ UNCHANGED <<gvars, connection, mode, attached, suppress, role_sent, timer, async,
                   server>>
-----------------------------------------------------------------------------
(* Stop and drain.                                                         *)

HttpServerStop ==                                     \* from any thread
    /\ stop = "no"
    /\ stop' = "sent"
    /\ UNCHANGED <<gvars, connection, request, loop, drain_timer, drain_open_conns>>

Open == {r \in Reqs : conn[r] = "open"}

(* Mutant: the walk closes the generating connections behind the back of   *)
(* their gen_request.                                                      *)
StopClosesAll ==
    /\ Free /\ stop = "sent"
    /\ stop' = "handled"
    /\ conn' = [r \in Reqs |-> IF r \in Open THEN "closing" ELSE conn[r]]
    /\ wq' = [r \in Reqs |-> IF r \in Open THEN <<>> ELSE wq[r]]
    /\ cancelled' = [r \in Reqs |-> cancelled[r] \/ r \in Open \cap observer]
    /\ loop' = "stop"
    /\ UNCHANGED <<q, refs, on_push, cb, got, phase, shutdown, gen_owned, observer, out,
                   request, drain_timer, drain_open_conns>>

(* on_stop_async up to the end of its walk: idle connections are closed,   *)
(* the generating ones are cancelled (gen_request_drain) and waited for.   *)
OnStopAsync ==
    /\ Free /\ stop = "sent"
    /\ stop' = "handled"
    /\ conn' = [r \in Reqs |-> IF r \in Open \ gen_owned THEN "closing" ELSE conn[r]]
    /\ wq' = [r \in Reqs |-> IF r \in Open \ gen_owned THEN <<>> ELSE wq[r]]
    /\ cancelled' = [r \in Reqs |-> cancelled[r] \/ r \in Open \cap observer]
    /\ loop' = "stop"
    /\ UNCHANGED <<q, refs, on_push, cb, got, phase, shutdown, gen_owned, observer, out,
                   request, drain_timer, drain_open_conns>>

(* What engine_signal_shutdown may find in eng->inflight, and cancel.      *)
Inflight == {{}} \cup {{r} : r \in {x \in Reqs :
                phase[x] \in {"held", "failing", "ended", "silent"}}}

(* The rest of on_stop_async: engine_signal_shutdown stores the flag, ...  *)
OnStopStore ==
    /\ loop = "stop"
    /\ shutdown' = TRUE
    /\ loop' = "signal"
    /\ UNCHANGED <<streams, phase, connection, request, stop, drain_timer,
                   drain_open_conns>>

(* Mutant: the count of the drain includes connections already closed.     *)
StopSignalCountsAll ==
    /\ loop = "signal"
    /\ \E I \in Inflight : cancelled' = [r \in Reqs |-> cancelled[r] \/ r \in I]
    /\ drain_timer' = IF gen_owned = {} THEN "none" ELSE "active"
    /\ drain_open_conns' = Cardinality(gen_owned)
    /\ loop' = None
    /\ UNCHANGED <<q, refs, on_push, cb, got, phase, shutdown, connection, request, stop>>

(* ... then cancels the stream in flight; a timer watches the drain.       *)
OnStopSignal ==
    /\ loop = "signal"
    /\ \E I \in Inflight : cancelled' = [r \in Reqs |-> cancelled[r] \/ r \in I]
    /\ drain_timer' = IF Open = {} THEN "none" ELSE "active"
    /\ drain_open_conns' = Cardinality(Open)
    /\ loop' = None
    /\ UNCHANGED <<q, refs, on_push, cb, got, phase, shutdown, connection, request, stop>>

(* Mutant: the deadline only signals the engine again.                     *)
DrainTimeoutSpares ==
    /\ Free /\ drain_timer = "active"
    /\ drain_timer' = "closed"
    /\ \E I \in Inflight : cancelled' = [r \in Reqs |-> cancelled[r] \/ r \in I]
    /\ UNCHANGED <<q, refs, on_push, cb, got, phase, shutdown, connection, request, loop,
                   stop, drain_open_conns>>

(* The deadline: every connection is closed, and the engine signalled once *)
(* more (its shutdown flag is set already).                                *)
OnDrainTimeout ==
    /\ Free /\ drain_timer = "active"
    /\ drain_timer' = "closed"
    /\ \E I \in Inflight : CloseConns(Open, I)
    /\ wq' = [r \in Reqs |-> IF r \in Open THEN <<>> ELSE wq[r]]
    /\ UNCHANGED <<q, got, phase, shutdown, gen_owned, out, mode, suppress, role_sent,
                   async, loop, stop, drain_open_conns>>
-----------------------------------------------------------------------------
Async(r) == AsyncEmpty(r) \/ AsyncToken(r) \/ AsyncTokenError(r) \/ AsyncError(r)
            \/ AsyncDone(r)

Next ==
    \/ \E r \in Reqs :
         \/ EngineStep(r) \/ NotifyCb(r)
         \/ OnNewConnection(r) \/ Respond(r) \/ GenRequestStart(r)
         \/ OnWrite(r) \/ PeerGone(r) \/ OnConnClose(r)
         \/ GenOnAsync(r) \/ Async(r) \/ OnTimer(r) \/ OnCloseCb(r)
    \/ HttpServerStop \/ OnStopAsync \/ OnStopStore \/ OnStopSignal
    \/ OnDrainTimeout

(* The engine keeps working, and libuv serves every handle that is ready;  *)
(* the peers owe nothing: they may stall for ever.                         *)
Fairness ==
    /\ \A r \in Reqs :
         /\ WF_vars(EngineStep(r)) /\ WF_vars(NotifyCb(r))
         /\ WF_vars(GenOnAsync(r)) /\ WF_vars(Async(r))
         /\ WF_vars(OnTimer(r)) /\ WF_vars(OnCloseCb(r)) /\ WF_vars(OnConnClose(r))
    /\ WF_vars(OnStopAsync) /\ WF_vars(OnStopStore \/ OnStopSignal)
    /\ WF_vars(OnDrainTimeout)

Spec == Init /\ [][Next]_vars
FairSpec == Spec /\ Fairness
-----------------------------------------------------------------------------
Frames == {"head", "role", "content", "final", "usage", "done", "error", "json",
           "json_error"}

(* Nobody holds a pointer to something freed: notify_cb on the engine      *)
(* thread finds the uv_async_t of its gen_request open, a connection's     *)
(* observer and a gen_request's connection are alive, and the stream of a  *)
(* running gen_request, or of one the engine works for, exists.            *)
NoDanglingPointer ==
    /\ \A r \in cb : gr[r] = "running"
    /\ \A r \in observer : conn[r] = "open" /\ gr[r] = "running"
    /\ \A r \in attached : conn[r] = "open"
    /\ \A r \in Reqs : gr[r] = "running" => refs[r] >= 1
    /\ \A r \in Reqs : phase[r] \in {"held", "failing", "ended", "silent"} => refs[r] >= 1

(* The drain counter is the number of connections still open, so the drain *)
(* ends with the last of them, neither early nor never.                    *)
DrainCount ==
    drain_timer = "active" => /\ drain_open_conns = Cardinality(Open)
                              /\ Open # {} /\ Open \subseteq gen_owned

(* The frames on the wire: the head once and first; in a chat, the role    *)
(* once and before any text; one final or one error; [DONE] once, last,    *)
(* right after them; a usage frame only between final and [DONE].          *)
ResponseShape ==
    \A r \in gen_owned : LET o == out[r] IN
        /\ mode[r] = "json" => o \in {<<>>, <<"json">>, <<"json_error">>}
        /\ Sse(r) => \A i \in 1..Len(o) :
             /\ (o[i] = "head") <=> (i = 1)
             /\ o[i] = "role" => i = 2
             /\ Chat(r) /\ o[i] \in {"content", "final"} => o[2] = "role"
             /\ o[i] = "usage" => o[i - 1] = "final" /\ mode[r] = "chat_usage"
             /\ o[i] = "done" => /\ i = Len(o)
                                /\ o[i - 1] = IF mode[r] = "chat_usage" /\ o[i - 1] # "error"
                                                THEN "usage"
                                                ELSE IF o[i - 1] = "error" THEN "error" ELSE "final"
             /\ o[i] \in {"final", "error"} =>
                    \A j \in (i + 1)..Len(o) : o[j] \in {"usage", "done"}

(* An open connection whose gen_request has let go of it has its whole     *)
(* answer queued, with the close behind it.                                *)
AnsweredOnce ==
    \A r \in gen_owned \ attached :
        conn[r] = "open" => /\ Last(out[r]) \in {"done", "json", "json_error"}
                            /\ wq[r] # <<>> /\ Last(wq[r])

(* A request is answered or its connection given up for backpressure; one  *)
(* whose connection is gone is torn down and freed.                        *)
RequestsEnd ==
    \A r \in Reqs :
        /\ r \in attached ~> (r \notin attached \/ r \in suppress)
        /\ (gr[r] = "running" /\ conn[r] # "open") ~> gr[r] = "freed"

(* After http_server_stop the loop runs out of handles and uv_run returns, *)
(* even when no peer reads and the engine gives no terminal.               *)
Quiet == /\ stop = "handled" /\ Free /\ drain_timer # "active"
         /\ \A r \in Reqs : conn[r] \in {"none", "freed"} /\ gr[r] \in {"none", "freed"}
StopReturns == stop = "sent" ~> Quiet
=============================================================================
