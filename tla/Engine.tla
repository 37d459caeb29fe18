------------------------------- MODULE Engine -------------------------------
(***************************************************************************)
(* The engine actor of src/src/engine/engine.c: one engine thread that     *)
(* takes commands from a mailbox any thread may post to, the load state,   *)
(* generation into the stream of each request, and shutdown.               *)
(*                                                                         *)
(* Grain: one action per critical section (mailbox_mtx, the mutex of a     *)
(* stream, load_mtx) or per read or write of an atomic that another thread *)
(* may act on.  The forward passes and the sampler touch only the engine   *)
(* thread's state; what matters of them is that each may fail, and which   *)
(* tokens end the generation.                                              *)
(***************************************************************************)
EXTENDS Streams, FiniteSets

CONSTANTS Loads,         \* calls of engine_post_load
          Misc,          \* other commands that may be posted
          Inputs,        \* prompt lengths and max_tokens of the requests
          MaxPos,        \* max_position_embeddings of the model
          PrefillChunk,  \* MLXD_PREFILL_CHUNK
          None           \* no request, no load

ASSUME BoundsAssumption ==
    /\ Inputs \subseteq [n : Nat, max : Nat]
    /\ MaxPos \in Nat
    /\ PrefillChunk \in Nat \ {0}
ASSUME MiscAssumption == Misc \subseteq {"RECLAIM", "UNLOAD", "EMBED", "STOP"}
ASSUME NoneAssumption == None \notin Reqs /\ None \notin Loads

VARIABLES
    mailbox,     \* queued commands, oldest first
    mailbox_mtx, \* the load whose engine_post_load holds the mutex, or None
    shutdown,    \* atomic
    load_state,  \* atomic
    load_error,  \* TRUE when the load_error buffer is not empty
    model,       \* what is resident: "none", "stub" or "real"
    inflight,    \* the request engine_signal_shutdown would cancel, or None
    pc,          \* where the engine thread is
    cur,         \* the request or load the thread is handling, or None
    pos,         \* prompt tokens prefilled
    emitted,     \* tokens pushed
    reason,      \* the reason or error kind about to be pushed
    batch,       \* commands detached by mailbox_drain_cancel, not yet cancelled
    input,       \* input[r]: the prompt length and max_tokens r will ask for
    post,        \* post[r]: where the command of r is
    client,      \* client[r]: what the consumer does with its reference
    withdrawn,   \* history: requests cancelled by their own consumer
    path,        \* path[l]: what load l names
    loader,      \* loader[l]: progress of engine_post_load and of its waiter
    handled,     \* history: loads whose handle_load has run
    misc,        \* Misc commands not yet posted
    stopper      \* the main thread: engine_signal_shutdown, engine_destroy

thread == <<pc, cur, pos, emitted, reason>>
loading == <<load_state, load_error, model, path, loader, handled>>
asking == <<input, post, client, withdrawn>>
vars == <<streams, mailbox, mailbox_mtx, shutdown, inflight, thread, loading,
          asking, stopper, batch, misc>>

Commands == [tag : {"GENERATE", "RECLAIM"}, arg : Reqs]
            \cup [tag : {"LOAD"}, arg : Loads]
            \cup [tag : {"UNLOAD", "EMBED", "STOP"}, arg : {None}]

Init ==
    /\ StreamsInit
    /\ mailbox = <<>> /\ mailbox_mtx = None /\ batch = <<>>
    /\ shutdown = FALSE /\ inflight = None
    /\ load_state = "IDLE" /\ load_error = FALSE /\ model = "none"
    /\ pc = "loop" /\ cur = None /\ pos = 0 /\ emitted = 0 /\ reason = "stop"
    /\ input \in [Reqs -> Inputs]
    /\ post = [r \in Reqs |-> "none"]
    /\ client = [r \in Reqs |-> "none"]
    /\ withdrawn = {}
    /\ path \in [Loads -> {"stub", "good", "bad"}]
    /\ loader = [l \in Loads |-> "none"]
    /\ handled = {}
    /\ misc \in SUBSET Misc
    /\ stopper = "idle"

(* mailbox_enqueue_locked: append, and signal the condition variable.      *)
Enqueue(cmd) ==
    /\ mailbox' = Append(mailbox, cmd)
    /\ pc' = IF pc = "asleep" THEN "dequeue" ELSE pc

Unlocked == mailbox_mtx = None
-----------------------------------------------------------------------------
(* Callers.  Each request comes from a thread of its own.                  *)

(* The consumer creates the stream and fills the command.                  *)
NewRequest(r) ==
    /\ post[r] = "none"
    /\ StreamCreate(r)
    /\ post' = [post EXCEPT ![r] = "new"]
    /\ client' = [client EXCEPT ![r] = "hold"]
    /\ UNCHANGED <<mailbox, mailbox_mtx, shutdown, inflight, thread, loading,
                   input, withdrawn, stopper, batch, misc>>

(* Mutant: a refused generate is dropped without its terminal.             *)
EnginePostForgets(r) ==
    /\ post[r] = "new" /\ Unlocked
    /\ UNCHANGED streams
    /\ IF shutdown
         THEN post' = [post EXCEPT ![r] = "reject"] /\ UNCHANGED <<mailbox, pc>>
         ELSE /\ Enqueue([tag |-> "GENERATE", arg |-> r])
              /\ post' = [post EXCEPT ![r] = "queued"]
    /\ UNCHANGED <<mailbox_mtx, shutdown, inflight, cur, pos, emitted, reason,
                   loading, input, client, withdrawn, stopper, batch, misc>>

(* engine_post of a generate.  The unlocked check of shutdown adds nothing *)
(* to the one under the lock: the flag is never reset.                     *)
EnginePost(r) ==
    /\ post[r] = "new" /\ Unlocked
    /\ IF shutdown
         THEN /\ StreamFinishCancelled(r)
              /\ post' = [post EXCEPT ![r] = "reject"]
              /\ UNCHANGED <<mailbox, pc>>
         ELSE /\ Enqueue([tag |-> "GENERATE", arg |-> r])
              /\ post' = [post EXCEPT ![r] = "queued"]
              /\ UNCHANGED streams
    /\ UNCHANGED <<mailbox_mtx, shutdown, inflight, cur, pos, emitted, reason,
                   loading, input, client, withdrawn, stopper, batch, misc>>

(* The rest of cmd_cancel, after the callback of the terminal has run.     *)
RejectRelease(r) ==
    /\ post[r] = "reject" /\ r \notin cb
    /\ StreamRelease(r)
    /\ post' = [post EXCEPT ![r] = "released"]
    /\ UNCHANGED <<mailbox, mailbox_mtx, shutdown, inflight, thread, loading,
                   input, client, withdrawn, stopper, batch, misc>>

Take(r) ==
    /\ client[r] = "hold" /\ StreamNext(r)
    /\ UNCHANGED <<mailbox, mailbox_mtx, shutdown, inflight, thread, loading,
                   asking, stopper, batch, misc>>

Withdraw(r) ==
    /\ client[r] = "hold" /\ ~cancelled[r]
    /\ StreamCancel(r)
    /\ withdrawn' = withdrawn \cup {r}
    /\ UNCHANGED <<mailbox, mailbox_mtx, shutdown, inflight, thread, loading,
                   input, post, client, stopper, batch, misc>>

DropStream(r) ==
    /\ client[r] = "hold" /\ post[r] # "new"
    /\ StreamRelease(r)
    /\ client' = [client EXCEPT ![r] = "dropped"]
    /\ UNCHANGED <<mailbox, mailbox_mtx, shutdown, inflight, thread, loading,
                   input, post, withdrawn, stopper, batch, misc>>

(* The consumer hands its reference to the engine with CMD_RECLAIM.        *)
PostReclaim(r) ==
    /\ "RECLAIM" \in Misc
    /\ client[r] = "hold" /\ post[r] # "new" /\ Unlocked
    /\ IF shutdown
         THEN /\ StreamRelease(r)
              /\ client' = [client EXCEPT ![r] = "dropped"]
              /\ UNCHANGED <<mailbox, pc>>
         ELSE /\ Enqueue([tag |-> "RECLAIM", arg |-> r])
              /\ client' = [client EXCEPT ![r] = "reclaim"]
              /\ UNCHANGED streams
    /\ UNCHANGED <<mailbox_mtx, shutdown, inflight, cur, pos, emitted, reason,
                   loading, input, post, withdrawn, stopper, batch, misc>>

PostMisc(tag) ==
    /\ tag \in misc \ {"RECLAIM"} /\ Unlocked
    /\ misc' = misc \ {tag}
    /\ IF shutdown THEN UNCHANGED <<mailbox, pc>>
                   ELSE Enqueue([tag |-> tag, arg |-> None])
    /\ UNCHANGED <<streams, mailbox_mtx, shutdown, inflight, cur, pos, emitted,
                   reason, loading, asking, stopper, batch>>

(* engine_post_load: under mailbox_mtx it clears the error, ...            *)
PostLoad(l) ==
    /\ loader[l] = "none" /\ Unlocked
    /\ IF shutdown
         THEN /\ loader' = [loader EXCEPT ![l] = "refused"]
              /\ UNCHANGED <<mailbox_mtx, load_error>>
         ELSE /\ mailbox_mtx' = l
              /\ load_error' = FALSE
              /\ loader' = [loader EXCEPT ![l] = "locked"]
    /\ UNCHANGED <<streams, mailbox, shutdown, inflight, thread, load_state,
                   model, path, handled, asking, stopper, batch, misc>>

(* Mutant: LOAD_IN_PROGRESS is left to the engine thread.                  *)
PostLoadEnqueueOnly(l) ==
    /\ loader[l] = "locked"
    /\ Enqueue([tag |-> "LOAD", arg |-> l])
    /\ mailbox_mtx' = None
    /\ loader' = [loader EXCEPT ![l] = "waiting"]
    /\ UNCHANGED <<streams, shutdown, inflight, cur, pos, emitted, reason, load_state,
                   load_error, model, path, handled, asking, stopper, batch, misc>>

(* ... then sets LOAD_IN_PROGRESS, enqueues and unlocks.                   *)
PostLoadEnqueue(l) ==
    /\ loader[l] = "locked"
    /\ load_state' = "IN_PROGRESS"
    /\ Enqueue([tag |-> "LOAD", arg |-> l])
    /\ mailbox_mtx' = None
    /\ loader' = [loader EXCEPT ![l] = "waiting"]
    /\ UNCHANGED <<streams, shutdown, inflight, cur, pos, emitted, reason,
                   load_error, model, path, handled, asking, stopper, batch, misc>>

(* engine_wait_load_until sees a terminal load state.  A waiter that times *)
(* out or is cancelled returns without a verdict: it takes no step here.   *)
WaitLoad(l) ==
    /\ loader[l] = "waiting"
    /\ \/ load_state = "OK" /\ loader' = [loader EXCEPT ![l] = "ok"]
       \/ load_state = "FAILED" /\ loader' = [loader EXCEPT ![l] = "failed"]
    /\ UNCHANGED <<streams, mailbox, mailbox_mtx, shutdown, inflight, thread,
                   load_state, load_error, model, path, handled, asking, stopper,
                   batch, misc>>

(* Mutant: the critical section forgets the stream.                        *)
CancelInflightWakesOnly ==
    /\ Unlocked
    /\ pc' = IF pc = "asleep" THEN "dequeue" ELSE pc
    /\ UNCHANGED <<streams, mailbox, mailbox_mtx, shutdown, inflight, cur, pos, emitted,
                   reason, loading, asking, batch, misc>>

(* engine_signal_shutdown: the store, then the critical section.           *)
CancelInflight ==
    /\ Unlocked
    /\ IF inflight = None THEN UNCHANGED streams ELSE StreamCancel(inflight)
    /\ pc' = IF pc = "asleep" THEN "dequeue" ELSE pc
    /\ UNCHANGED <<mailbox, mailbox_mtx, shutdown, inflight, cur, pos, emitted,
                   reason, loading, asking, batch, misc>>

StoreShutdown ==
    /\ shutdown' = TRUE
    /\ UNCHANGED <<streams, mailbox, mailbox_mtx, inflight, thread, loading,
                   asking, batch, misc>>

(* Called by the server's stop and drain timeout, and by engine_destroy.   *)
EngineSignalShutdown ==
    \/ /\ stopper \in {"idle", "signalled"} /\ StoreShutdown
       /\ stopper' = "stored"
    \/ /\ stopper = "stored" /\ CancelInflight
       /\ stopper' = "signalled"
-----------------------------------------------------------------------------
(* The engine thread.                                                      *)

Goto(label) == pc' = label

Loop ==
    /\ pc = "loop"
    /\ Goto(IF shutdown THEN "drain" ELSE "dequeue")
    /\ UNCHANGED <<streams, mailbox, mailbox_mtx, shutdown, inflight, cur, pos,
                   emitted, reason, loading, asking, stopper, batch, misc>>

MailboxDequeue ==
    /\ pc = "dequeue" /\ Unlocked
    /\ \/ /\ mailbox = <<>>
          /\ Goto(IF shutdown THEN "loop" ELSE "asleep")
          /\ UNCHANGED <<mailbox, cur, post>>
       \/ /\ mailbox # <<>>
          /\ mailbox' = Tail(mailbox)
          /\ cur' = Head(mailbox).arg
          /\ Goto(Head(mailbox).tag)
          /\ post' = IF Head(mailbox).tag = "GENERATE"
                       THEN [post EXCEPT ![Head(mailbox).arg] = "running"]
                       ELSE post
    /\ UNCHANGED <<streams, mailbox_mtx, shutdown, inflight, pos, emitted, reason,
                   loading, input, client, withdrawn, stopper, batch, misc>>

(* Mutant: the reclaimed reference is forgotten.                           *)
HandleReclaimForgets ==
    /\ pc = "RECLAIM"
    /\ client' = [client EXCEPT ![cur] = "dropped"]
    /\ cur' = None /\ Goto("loop")
    /\ UNCHANGED <<streams, mailbox, mailbox_mtx, shutdown, inflight, pos, emitted,
                   reason, loading, input, post, withdrawn, stopper, batch, misc>>

HandleReclaim ==
    /\ pc = "RECLAIM"
    /\ StreamRelease(cur)
    /\ client' = [client EXCEPT ![cur] = "dropped"]
    /\ cur' = None /\ Goto("loop")
    /\ UNCHANGED <<mailbox, mailbox_mtx, shutdown, inflight, pos, emitted, reason,
                   loading, input, post, withdrawn, stopper, batch, misc>>

HandleEmbed ==
    /\ pc = "EMBED" /\ Goto("loop")
    /\ UNCHANGED <<streams, mailbox, mailbox_mtx, shutdown, inflight, cur, pos,
                   emitted, reason, loading, asking, stopper, batch, misc>>

(* Mutant: the model goes, the load state stays.                           *)
HandleUnloadKeepsState ==
    /\ pc = "UNLOAD" /\ Goto("loop")
    /\ model' = "none" /\ load_error' = FALSE
    /\ UNCHANGED <<streams, mailbox, mailbox_mtx, shutdown, inflight, cur, pos,
                   emitted, reason, load_state, path, loader, handled, asking,
                   stopper, batch, misc>>

HandleUnload ==
    /\ pc = "UNLOAD" /\ Goto("loop")
    /\ model' = "none" /\ load_error' = FALSE /\ load_state' = "IDLE"
    /\ UNCHANGED <<streams, mailbox, mailbox_mtx, shutdown, inflight, cur, pos,
                   emitted, reason, path, loader, handled, asking, stopper, batch,
                   misc>>

(* handle_load: the resident model goes first, whatever the new one does.  *)
HandleLoad ==
    /\ pc = "LOAD" /\ Goto("loading")
    /\ load_state' = "IN_PROGRESS" /\ load_error' = FALSE /\ model' = "none"
    /\ UNCHANGED <<streams, mailbox, mailbox_mtx, shutdown, inflight, cur, pos,
                   emitted, reason, path, loader, handled, asking, stopper, batch,
                   misc>>

LoadDone ==
    /\ pc = "loading"
    /\ \/ /\ path[cur] = "stub"
          /\ model' = "stub" /\ load_state' = "OK"
          /\ handled' = handled \cup {cur} /\ cur' = None
          /\ Goto("loop") /\ UNCHANGED load_error
       \/ /\ path[cur] = "good"
          /\ model' = "real" /\ load_state' = "OK"
          /\ handled' = handled \cup {cur} /\ cur' = None
          /\ Goto("loop") /\ UNCHANGED load_error
       \/ /\ path[cur] = "bad"
          /\ load_error' = TRUE
          /\ Goto("load failed") /\ UNCHANGED <<model, load_state, handled, cur>>
    /\ UNCHANGED <<streams, mailbox, mailbox_mtx, shutdown, inflight, pos, emitted,
                   reason, path, loader, asking, stopper, batch, misc>>

LoadFailed ==
    /\ pc = "load failed" /\ Goto("loop")
    /\ model' = "none" /\ load_state' = "FAILED"
    /\ handled' = handled \cup {cur} /\ cur' = None
    /\ UNCHANGED <<streams, mailbox, mailbox_mtx, shutdown, inflight, pos, emitted,
                   reason, load_error, path, loader, asking, stopper, batch, misc>>
-----------------------------------------------------------------------------
(* handle_generate.                                                        *)

Generating == UNCHANGED <<mailbox, mailbox_mtx, shutdown, loading, asking, stopper,
                          batch, misc>>

SetInflight ==
    /\ pc = "GENERATE" /\ Unlocked
    /\ inflight' = cur
    /\ Goto("load_state")
    /\ Generating /\ UNCHANGED <<streams, cur, pos, emitted, reason>>

Step(label) == Goto(label) /\ Generating
               /\ UNCHANGED <<streams, inflight, cur, pos, emitted, reason>>
FailWith(kind) == Goto("fail") /\ reason' = kind /\ Generating
                  /\ UNCHANGED <<streams, inflight, cur, pos, emitted>>
DoneWith(why) == Goto("done") /\ reason' = why /\ Generating
                 /\ UNCHANGED <<streams, inflight, cur, pos, emitted>>
Idle == cur \notin cb      \* the callback of the last push has returned

CheckLoadState ==
    /\ pc = "load_state"
    /\ \/ load_state # "OK" /\ FailWith("internal")
       \/ load_state = "OK" /\ Step(model)

(* handle_generate_stub: echo min(count, max_tokens) prompt tokens.        *)
Limit == IF input[cur].n < input[cur].max THEN input[cur].n ELSE input[cur].max

Stub ==
    /\ pc = "stub" /\ Idle
    /\ \/ emitted < Limit /\ shutdown /\ Step("abort")
       \/ emitted < Limit /\ ~shutdown /\ Step("stub push")
       \/ emitted = Limit
          /\ DoneWith(IF Limit < input[cur].n THEN "length" ELSE "stop")

(* handle_generate_real up to the prefill loop.                            *)
Real ==
    /\ pc = "real"
    /\ \/ FailWith("internal")                       \* sampler_key_init
       \/ input[cur].n > MaxPos /\ FailWith("context")
       \/ /\ input[cur].n <= MaxPos
          /\ \/ (input[cur].n = 0 \/ input[cur].max = 0) /\ DoneWith("stop")
             \/ /\ input[cur].n > 0 /\ input[cur].max > 0
                /\ FailWith("internal") \/ Step("prefill")   \* kvcache_init

Stopping == shutdown \/ cancelled[cur]

(* Prefill of prompt[:-1] by chunks; a poll on both sides of the test hook *)
(* reads flags that are never reset, so one poll stands for both.          *)
Prefill ==
    /\ pc = "prefill"
    /\ \/ /\ pos < input[cur].n - 1
          /\ \/ Stopping /\ Step("abort")
             \/ ~Stopping /\ FailWith("internal")
             \/ /\ ~Stopping
                /\ pos' = IF pos + PrefillChunk > input[cur].n - 1
                            THEN input[cur].n - 1 ELSE pos + PrefillChunk
                /\ Goto("prefill") /\ Generating
                /\ UNCHANGED <<streams, inflight, cur, emitted, reason>>
       \/ pos >= input[cur].n - 1 /\ Step("seed")

Seed ==
    /\ pc = "seed"
    /\ \/ Stopping /\ Step("abort")
       \/ ~Stopping /\ (FailWith("internal") \/ Step("decode"))

(* One decode step up to the push: sample, run the next forward ahead of   *)
(* time, materialise.  An end-of-sequence token is never pushed.           *)
Decode ==
    /\ pc = "decode" /\ Idle
    /\ \/ Stopping /\ Step("abort")
       \/ ~Stopping /\ (FailWith("internal") \/ DoneWith("stop") \/ Step("decode push"))

Push(c, accepted, refused) ==
    /\ \/ StreamPush(cur, c) /\ Goto(accepted)
       \/ StreamPushRefused(cur) /\ Goto(refused)
    /\ Generating /\ UNCHANGED <<inflight, cur, pos>>

StubPush ==
    /\ pc = "stub push" /\ Push("token", "stub", "abort")
    /\ emitted' = IF cancelled[cur] THEN emitted ELSE emitted + 1
    /\ UNCHANGED reason

(* Mutant: the budget is compared before this token is counted.            *)
DecodePushOneMore ==
    /\ pc = "decode push"
    /\ Push("token", IF emitted = input[cur].max THEN "done" ELSE "decode", "abort")
    /\ emitted' = IF cancelled[cur] THEN emitted ELSE emitted + 1
    /\ reason' = IF emitted = input[cur].max THEN "length" ELSE reason

DecodePush ==
    /\ pc = "decode push"
    /\ Push("token", IF emitted + 1 = input[cur].max THEN "done" ELSE "decode", "abort")
    /\ emitted' = IF cancelled[cur] THEN emitted ELSE emitted + 1
    /\ reason' = IF emitted' = input[cur].max THEN "length" ELSE reason

PushDone ==
    /\ pc = "done" /\ Idle
    /\ Push(reason, "clear", "abort")
    /\ UNCHANGED <<emitted, reason>>

(* Mutant: an aborted generation ends without a terminal.                  *)
AbortSilently ==
    /\ pc = "abort" /\ Idle
    /\ Goto("clear") /\ Generating
    /\ UNCHANGED <<streams, inflight, cur, pos, emitted, reason>>

(* stream_finish_cancelled on every abort path.                            *)
Abort ==
    /\ pc = "abort" /\ Idle
    /\ StreamFinishCancelled(cur)
    /\ Goto("clear") /\ Generating
    /\ UNCHANGED <<inflight, cur, pos, emitted, reason>>

(* generate_fail, and the "model not loaded" path: ERROR, then DONE/STOP;  *)
(* a refused push ends with a terminal only under shutdown.                *)
FailError ==
    /\ pc = "fail" /\ Idle
    /\ Push(reason, "fail done", "fail refused")
    /\ UNCHANGED <<emitted, reason>>

FailDone ==
    /\ pc = "fail done" /\ Idle
    /\ Push("stop", "clear", "fail refused")
    /\ UNCHANGED <<emitted, reason>>

FailRefused ==
    /\ pc = "fail refused" /\ Idle
    /\ Step(IF shutdown THEN "abort" ELSE "clear")

(* Mutant: eng->inflight survives the generation.                          *)
ClearInflightForgets ==
    /\ pc = "clear" /\ Idle /\ Unlocked
    /\ Goto("release") /\ Generating
    /\ UNCHANGED <<streams, inflight, cur, pos, emitted, reason>>

ClearInflight ==
    /\ pc = "clear" /\ Idle /\ Unlocked
    /\ inflight' = None
    /\ Goto("release") /\ Generating
    /\ UNCHANGED <<streams, cur, pos, emitted, reason>>

GenerateRelease ==
    /\ pc = "release"
    /\ StreamRelease(cur)
    /\ post' = [post EXCEPT ![cur] = "released"]
    /\ cur' = None /\ pos' = 0 /\ emitted' = 0 /\ reason' = "stop"
    /\ Goto("loop")
    /\ UNCHANGED <<mailbox, mailbox_mtx, shutdown, inflight, loading, input, client,
                   withdrawn, stopper, batch, misc>>

Generate ==
    \/ SetInflight \/ CheckLoadState
    \/ Stub \/ StubPush
    \/ Real \/ Prefill \/ Seed \/ Decode \/ DecodePush
    \/ PushDone \/ Abort \/ FailError \/ FailDone \/ FailRefused
    \/ ClearInflight \/ GenerateRelease
-----------------------------------------------------------------------------
(* mailbox_drain_cancel, by the engine thread before it exits and again by *)
(* engine_destroy after the join; never by both at once.                   *)

DrainTake ==
    /\ Unlocked
    /\ batch' = mailbox
    /\ mailbox' = <<>>
    /\ UNCHANGED <<streams, mailbox_mtx, shutdown, inflight, loading, asking, misc>>

(* cmd_cancel of the head: a generate gets its terminal first, ...         *)
DrainTerminal ==
    /\ batch # <<>> /\ Head(batch).tag = "GENERATE"
    /\ post[Head(batch).arg] = "queued"
    /\ StreamFinishCancelled(Head(batch).arg)
    /\ post' = [post EXCEPT ![Head(batch).arg] = "drained"]
    /\ UNCHANGED <<mailbox, mailbox_mtx, shutdown, inflight, loading, input, client,
                   withdrawn, batch, misc>>

(* ... then every command drops what it owns.                              *)
DrainDrop ==
    /\ batch # <<>>
    /\ batch' = Tail(batch)
    /\ LET cmd == Head(batch) IN
         \/ /\ cmd.tag = "GENERATE" /\ post[cmd.arg] = "drained" /\ cmd.arg \notin cb
            /\ StreamRelease(cmd.arg)
            /\ post' = [post EXCEPT ![cmd.arg] = "released"] /\ UNCHANGED client
         \/ /\ cmd.tag = "RECLAIM"
            /\ StreamRelease(cmd.arg)
            /\ client' = [client EXCEPT ![cmd.arg] = "dropped"] /\ UNCHANGED post
         \/ /\ cmd.tag \notin {"GENERATE", "RECLAIM"}
            /\ UNCHANGED <<streams, post, client>>
    /\ UNCHANGED <<mailbox, mailbox_mtx, shutdown, inflight, loading, input,
                   withdrawn, misc>>

ThreadDrain ==
    /\ UNCHANGED <<cur, pos, emitted, reason, stopper>>
    /\ \/ pc \in {"drain", "STOP"} /\ DrainTake /\ Goto("draining")
       \/ pc = "draining" /\ (DrainTerminal \/ DrainDrop) /\ UNCHANGED pc
       \/ /\ pc = "draining" /\ batch = <<>> /\ Goto("exited")
          /\ UNCHANGED <<streams, mailbox, mailbox_mtx, shutdown, inflight, loading,
                         asking, batch, misc>>

(* Mutant: engine_destroy trusts the drain of the engine thread.           *)
EngineDestroyNoDrain ==
    /\ stopper = "signalled" /\ pc = "exited" /\ stopper' = "done"
    /\ model' = "none" /\ load_error' = FALSE /\ load_state' = "IDLE"
    /\ UNCHANGED <<thread, streams, mailbox, mailbox_mtx, shutdown, inflight, path,
                   loader, handled, asking, batch, misc>>

(* engine_destroy after its signal: join, drain, forget the model.         *)
EngineDestroy ==
    /\ UNCHANGED thread
    /\ \/ /\ stopper = "signalled" /\ pc = "exited"
          /\ DrainTake /\ stopper' = "draining"
       \/ /\ stopper = "draining" /\ (DrainTerminal \/ DrainDrop)
          /\ UNCHANGED stopper
       \/ /\ stopper = "draining" /\ batch = <<>> /\ stopper' = "done"
          /\ model' = "none" /\ load_error' = FALSE /\ load_state' = "IDLE"
          /\ UNCHANGED <<streams, mailbox, mailbox_mtx, shutdown, inflight, path,
                         loader, handled, asking, batch, misc>>

NotifyCallback(r) ==
    /\ Callback(r)
    /\ UNCHANGED <<mailbox, mailbox_mtx, shutdown, inflight, thread, loading, asking,
                   stopper, batch, misc>>

Caller ==
    \/ \E r \in Reqs : \/ NewRequest(r) \/ EnginePost(r) \/ RejectRelease(r)
                       \/ Take(r) \/ Withdraw(r) \/ DropStream(r) \/ PostReclaim(r)
    \/ \E l \in Loads : PostLoad(l) \/ PostLoadEnqueue(l) \/ WaitLoad(l)
    \/ \E tag \in Misc : PostMisc(tag)

EngineThread ==
    \/ Loop \/ MailboxDequeue
    \/ HandleReclaim \/ HandleEmbed \/ HandleUnload
    \/ HandleLoad \/ LoadDone \/ LoadFailed
    \/ Generate
    \/ ThreadDrain

Next == \/ Caller
        \/ EngineThread
        \/ \E r \in Reqs : NotifyCallback(r)
        \/ EngineSignalShutdown
        \/ EngineDestroy

(* Threads that are not blocked are scheduled; consumers owe nothing.  The *)
(* main thread signals a few times and then calls engine_destroy.          *)
Fairness ==
    /\ WF_vars(EngineThread)
    /\ \A r \in Reqs : WF_vars(NotifyCallback(r)) /\ WF_vars(RejectRelease(r))
    /\ \A l \in Loads : WF_vars(PostLoadEnqueue(l))
    /\ WF_vars(stopper = "stored" /\ EngineSignalShutdown)
    /\ SF_vars(EngineDestroy)

Spec == Init /\ [][Next]_vars
FairSpec == Spec /\ Fairness

(* Callers that load one model after the other: each posts its load once   *)
(* the waiters of the earlier ones have their verdicts.  Nothing in the    *)
(* engine makes them do so.                                                *)
Told(l) == loader[l] \in {"none", "refused", "ok", "failed"}
InTurn ==
    \A l \in Loads :
        loader[l] = "none" /\ loader'[l] = "locked" => \A m \in Loads : Told(m)
SerialSpec == Init /\ [][Next /\ InTurn]_vars
-----------------------------------------------------------------------------
StubLabels == {"stub", "stub push"}
RealLabels == {"real", "prefill", "seed", "decode", "decode push"}
GenerateLabels == {"GENERATE", "load_state", "done", "abort", "fail", "fail done",
                   "fail refused", "clear", "release"} \cup StubLabels \cup RealLabels
LoadLabels == {"LOAD", "loading", "load failed"}
OtherLabels == {"loop", "dequeue", "asleep", "UNLOAD", "EMBED", "STOP", "drain",
                "draining", "exited"}

MailTypeOK ==
    /\ mailbox \in Seq(Commands) /\ batch \in Seq(Commands)
    /\ mailbox_mtx \in Loads \cup {None}
    /\ misc \subseteq Misc
ThreadTypeOK ==
    /\ pc \in GenerateLabels \cup LoadLabels \cup {"RECLAIM"} \cup OtherLabels
    /\ cur \in Reqs \cup Loads \cup {None}
    /\ pc \in GenerateLabels \cup {"RECLAIM"} => cur \in Reqs
    /\ pc \in LoadLabels => cur \in Loads
    /\ pos \in Nat /\ emitted \in Nat
    /\ reason \in Errors \cup Terminals
LoadTypeOK ==
    /\ load_state \in {"IDLE", "IN_PROGRESS", "OK", "FAILED"}
    /\ load_error \in BOOLEAN
    /\ model \in {"none", "stub", "real"}
    /\ path \in [Loads -> {"stub", "good", "bad"}]
    /\ loader \in [Loads -> {"none", "refused", "locked", "waiting", "ok", "failed"}]
    /\ handled \subseteq Loads
CallerTypeOK ==
    /\ shutdown \in BOOLEAN
    /\ inflight \in Reqs \cup {None}
    /\ input \in [Reqs -> [n : Nat, max : Nat]]
    /\ post \in [Reqs -> {"none", "new", "queued", "running", "drained", "reject",
                         "released"}]
    /\ client \in [Reqs -> {"none", "hold", "reclaim", "dropped"}]
    /\ withdrawn \subseteq Reqs
    /\ stopper \in {"idle", "stored", "signalled", "draining", "done"}

TypeOK == StreamsTypeOK /\ MailTypeOK /\ ThreadTypeOK /\ LoadTypeOK /\ CallerTypeOK

(* The reference count of a stream is the consumer's reference plus the    *)
(* engine's, wherever the command that carries it is.                      *)
RefsExact ==
    \A r \in Reqs :
        refs[r] = (IF client[r] \in {"hold", "reclaim"} THEN 1 ELSE 0)
                + (IF post[r] \in {"new", "queued", "running", "drained", "reject"}
                     THEN 1 ELSE 0)

Carries(seq, r) == \E i \in 1..Len(seq) : /\ seq[i].tag \in {"GENERATE", "RECLAIM"}
                                          /\ seq[i].arg = r

(* Nobody can reach a freed stream: not the commands in the mailbox or in  *)
(* a drain, not the engine thread, not engine_signal_shutdown through      *)
(* eng->inflight, not a callback that is still due.                        *)
NoUseAfterFree ==
    \A r \in Reqs :
        \/ Carries(mailbox, r) \/ Carries(batch, r)
        \/ (pc \in GenerateLabels \cup {"RECLAIM"} /\ cur = r)
        \/ inflight = r
        \/ r \in cb
        => refs[r] > 0

(* No request is forgotten: whoever had the command (the thread, a drain,  *)
(* the poster refused by shutdown), a request its consumer did not cancel  *)
(* has its DONE by the time the engine drops the stream.                   *)
TerminalUnlessWithdrawn ==
    \A r \in Reqs \ withdrawn :
        post[r] = "released" => Occurs(Terminals, History(r))

(* engine.h of stream_cancel: "Any in-flight generate ends with a          *)
(* DONE/FINISH_CANCELLED terminal injected by the engine".                 *)
CancelGetsTerminal ==
    \A r \in withdrawn :
        post[r] = "released" => Occurs(Terminals, History(r))

Tokens(r) == Cardinality({i \in 1..Len(History(r)) : History(r)[i] = "token"})

(* DONE/LENGTH means exactly max_tokens tokens, no overwrite and no early  *)
(* end having cost one, and no request ever gets more.                     *)
TokenBudget ==
    \A r \in Reqs :
        /\ Tokens(r) <= input[r].max
        /\ Occurs({"length"}, History(r)) => Tokens(r) = input[r].max

(* LOAD_OK always stands for a resident model, and a generation that has   *)
(* started keeps the model it started on, whatever loads are posted.       *)
ResidentModel ==
    /\ load_state = "OK" => model # "none"
    /\ pc \in StubLabels => model = "stub"
    /\ pc \in RealLabels => model = "real"

(* engine.h of engine_post_load: LOAD_IN_PROGRESS is set synchronously "so *)
(* engine_wait_load cannot observe a stale terminal state"; and of         *)
(* engine_wait_load: "On LOAD_FAILED, engine_load_error is populated",     *)
(* until an unload clears both or the next post, under its lock, begins.   *)
(* The verdicts of earlier loads are the stale states: loads in turn.      *)
VerdictIsOwn ==
    /\ \A l \in Loads :
        /\ loader[l] = "ok" => l \in handled /\ path[l] # "bad"
        /\ loader[l] = "failed" => l \in handled /\ path[l] = "bad"
    /\ load_state = "FAILED" /\ Unlocked => load_error

(* engine_destroy leaves no command behind that would hold a stream.       *)
DestroyedClean ==
    stopper = "done" =>
        /\ mailbox = <<>> /\ batch = <<>> /\ inflight = None
        /\ \A r \in Reqs : post[r] \in {"none", "new", "reject", "released"}
        /\ \A r \in Reqs : client[r] # "reclaim"

(* The thread leaves after a shutdown even when no consumer reads.         *)
ShutdownExits == shutdown ~> pc = "exited"

(* A cancel ends a running generation even when nobody reads the stream.   *)
CancelSettles ==
    \A r \in Reqs : (cancelled[r] /\ post[r] = "running") ~> post[r] = "released"

(* The engine keeps the contract the HTTP side is written against.         *)
PhaseOf(r) ==
    CASE post[r] = "none" -> "none"
      [] post[r] = "released" -> "gone"
      [] OTHER -> IF Occurs(Terminals, History(r)) THEN "ended"
                  ELSE IF pc \in {"clear", "release"} /\ cur = r THEN "silent"
                  ELSE IF Occurs(Errors, History(r)) THEN "failing"
                  ELSE "held"
Closed == shutdown \/ pc \in {"STOP", "draining", "exited"}
Contract == INSTANCE GenStream WITH phase <- [r \in Reqs |-> PhaseOf(r)],
                                    shutdown <- Closed
KeepsContract == Contract!GSpec
=============================================================================
