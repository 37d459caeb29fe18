------------------------------- MODULE CliRun -------------------------------
(***************************************************************************)
(* The drivers cmd_run and cmd_serve of src/src/main.c with their SIGINT   *)
(* handlers, and cli_run_consume of src/src/cli/io.c.  The engine is the   *)
(* contract GenStream, which Engine keeps, with a thread that loads first. *)
(*                                                                         *)
(* Main is the main thread, one action per call that other threads or a    *)
(* signal can come between; Sigint may come between any two of them.  The  *)
(* one request is the constant Run.                                        *)
(***************************************************************************)
EXTENDS GenStream, Integers, FiniteSets, CliArgs

CONSTANTS CommandLines, \* the command lines after the program's name
          Run,        \* the request of cmd_run
          MaxTokens,  \* bound: tokens the engine sends
          MaxSigints  \* bound: how often Ctrl-C is pressed

ASSUME CliRunAssumption ==
    /\ Run \in Reqs /\ MaxTokens \in Nat /\ MaxSigints \in Nat
    /\ CommandLines \subseteq Seq(Args)

VARIABLES
    argv,         \* one of CommandLines
    cmd, opts,    \* the command and what its parser read
    params,       \* of the generation: max_tokens and sampling
    pc,           \* the main thread
    code,         \* "running", an exit status, or "killed" by SIGINT
    rc, reason,   \* of cmd_run
    failed,       \* history: something that justifies a status of 1
    \* signals
    sigints, handler, g_run_cancel, g_sigint_count,
    g_srv,        \* "NULL" or "live"
    stop_sent,
    \* the engine beside its request
    eng,          \* "none", "thread", "destroyed"
    load_state,
    \* cli_run_consume
    cancel_sent, grace,
    d,            \* the detokenizer is in use
    held,         \* tokens whose text it holds back
    printed,      \* history: tokens whose text, or id, was written
    dropped,      \* history: tokens whose text died with a detokenizer that failed
    sent          \* history: tokens the engine pushed

consumer == <<cancel_sent, grace, d, held, printed, dropped>>
signals == <<sigints, handler, g_run_cancel, g_sigint_count, stop_sent>>
engine == <<eng, load_state, sent>>
commandline == <<argv, cmd, opts>>
vars == <<gvars, commandline, params, pc, code, rc, reason, failed, signals, g_srv, engine,
          consumer>>

NoParams == [max_tokens |-> 0, sampling |-> <<>>]

Init ==
    /\ GInit
    /\ argv \in CommandLines /\ cmd = "none" /\ opts = Unread /\ params = NoParams
    /\ pc = "main" /\ code = "running" /\ rc = 1 /\ reason = "stop" /\ failed = FALSE
    /\ sigints = 0 /\ handler = "default" /\ g_run_cancel = 0 /\ g_sigint_count = 0
    /\ g_srv = "NULL" /\ stop_sent = FALSE
    /\ eng = "none" /\ load_state = "IDLE" /\ sent = 0
    /\ cancel_sent = FALSE /\ grace = "none" /\ d = FALSE /\ held = 0 /\ printed = 0
    /\ dropped = 0

Goto(label) == pc' = label
Alive == code = "running"

-----------------------------------------------------------------------------
(* The command line, and all that is prepared before the first thread     *)

(* main, and the parser of its command.  Help and the version are printed, *)
(* no command and an unknown one are answered with the usage text.         *)
Dispatch ==
    /\ pc = "main"
    /\ cmd' = cli_command(argv)
    /\ opts' = cli_parse(cmd', IF argv = <<>> THEN <<>> ELSE Tail(argv))
    /\ failed' = ~opts'.ok
    /\ IF cmd' \in {"run", "serve", "pull", "list"} /\ opts'.ok
       THEN Goto(cmd') /\ UNCHANGED rc
       ELSE Goto("exit") /\ rc' = IF opts'.ok THEN 0 ELSE 1
    /\ UNCHANGED <<gvars, code, reason, signals, g_srv, engine, consumer>>

(* registry_pull, as Pull has it: it needs a specification. *)
CmdPull ==
    /\ pc = "pull" /\ Goto("exit")
    /\ \E pulled \in BOOLEAN :
          LET ok == pulled /\ opts.other # <<>> IN
          rc' = (IF ok THEN 0 ELSE 1) /\ failed' = ~ok
    /\ UNCHANGED <<gvars, code, reason, signals, g_srv, engine, consumer>>

(* registry_discover; having no model, or no memory for the list of them,  *)
(* prints an empty list; having none for its JSON form is an error.        *)
CmdList ==
    /\ pc = "list" /\ Goto("exit")
    /\ \E models, written \in BOOLEAN :
          LET ok == models /\ "--json" \in opts.flags => written IN
          rc' = (IF ok THEN 0 ELSE 1) /\ failed' = ~ok
    /\ UNCHANGED <<gvars, code, reason, signals, g_srv, engine, consumer>>

(* The argument is a directory with a tokenizer, or the registry knows it. *)
resolve_model_dir(local, known) == local \/ known

(* The prompt given, also an empty one, or all of stdin unless it is empty.*)
cli_resolve_run_prompt(stdin) == Len(opts.other) = 2 \/ stdin

(* The model's tokenizer must load; its chat template may be missing.      *)
PrepareServe ==
    /\ pc = "serve"
    /\ \E local, known, tok \in BOOLEAN :
          IF resolve_model_dir(local, known) /\ tok THEN Goto("engine_init") /\ UNCHANGED failed
          ELSE Goto("exit") /\ failed' = TRUE
    /\ UNCHANGED <<gvars, code, rc, reason, signals, g_srv, engine, consumer>>

(* The same, and the prompt with its tokens: of a completion, or of a chat *)
(* with one message in the model's template, unless --raw.                 *)
PrepareRun ==
    /\ pc = "run"
    /\ \E local, known, tok, template, stdin, messages, ids \in BOOLEAN :
          LET chat == template /\ "--raw" \notin opts.flags IN
          IF /\ resolve_model_dir(local, known) /\ tok
             /\ cli_resolve_run_prompt(stdin) /\ (chat => messages) /\ ids
          THEN Goto("sigaction") /\ UNCHANGED failed
          ELSE Goto("cleanup") /\ failed' = TRUE
    /\ UNCHANGED <<gvars, code, rc, reason, signals, g_srv, engine, consumer>>

-----------------------------------------------------------------------------
(* Up to the request: cmd_run and cmd_serve                                *)

(* Counter first, then the handler. *)
InstallRunHandler ==
    /\ pc = "sigaction"
    /\ g_run_cancel' = 0 /\ handler' = "run"
    /\ Goto("engine_init")
    /\ UNCHANGED <<gvars, code, rc, reason, failed, sigints, g_sigint_count, stop_sent, g_srv,
                   engine, consumer>>

EngineInit ==
    /\ pc = "engine_init"
    /\ \/ eng' = "thread" /\ Goto("post_load") /\ UNCHANGED failed
       \/ Goto("cleanup") /\ failed' = TRUE /\ UNCHANGED eng
    /\ UNCHANGED <<gvars, code, rc, reason, signals, g_srv, load_state, sent, consumer>>

PostLoad ==
    /\ pc = "post_load"
    /\ \/ load_state' = "IN_PROGRESS" /\ Goto("wait") /\ UNCHANGED failed
       \/ Goto("cleanup") /\ failed' = TRUE /\ UNCHANGED load_state
    /\ UNCHANGED <<gvars, code, rc, reason, signals, g_srv, eng, sent, consumer>>

(* One round of engine_wait_load_until: the cancel comes before the state. *)
WaitLoad ==
    /\ pc = "wait"
    /\ Goto(CASE cmd = "run" /\ g_run_cancel > 0 -> "not_loaded"
              [] load_state = "OK" -> IF cmd = "run" THEN "stream_create" ELSE "create_server"
              [] load_state = "FAILED" -> "not_loaded"
              [] OTHER -> "wait")
    /\ UNCHANGED <<gvars, code, rc, reason, failed, signals, g_srv, engine, consumer>>

(* Mutant: a wait that did not end well is always a failed load.           *)
NotLoadedAlwaysFails ==
    /\ pc = "not_loaded" /\ Goto("cleanup")
    /\ UNCHANGED <<rc, reason>>
    /\ failed' = (load_state = "FAILED")
    /\ UNCHANGED <<gvars, code, signals, g_srv, engine, consumer>>

NotLoaded ==
    /\ pc = "not_loaded" /\ Goto("cleanup")
    /\ IF cmd = "run" /\ g_run_cancel > 0
       THEN rc' = 0 /\ reason' = "cancelled" /\ UNCHANGED failed
       ELSE failed' = (load_state = "FAILED") /\ UNCHANGED <<rc, reason>>
    /\ UNCHANGED <<gvars, code, signals, g_srv, engine, consumer>>

-----------------------------------------------------------------------------
(* The generation of cmd_run                                               *)

(* stream_create without a notify callback *)
CreateStream ==
    /\ pc = "stream_create"
    /\ \/ /\ refs' = [refs EXCEPT ![Run] = 1]
          /\ Goto("engine_post") /\ UNCHANGED failed
       \/ Goto("cleanup") /\ failed' = TRUE /\ UNCHANGED refs
    /\ UNCHANGED <<q, cancelled, on_push, cb, got, phase, shutdown, code, rc, reason, signals,
                   g_srv, engine, consumer>>

(* The command, its reference, engine_post; then the start of              *)
(* cli_run_consume: detok_create, which may find a kind of tokenizer it    *)
(* does not serve.                                                         *)
PostGenerate ==
    /\ pc = "engine_post"
    /\ \/ /\ refs' = [refs EXCEPT ![Run] = @ + 1]
          /\ phase' = [phase EXCEPT ![Run] = "held"]
          /\ d' \in (IF "--token-ids" \in opts.flags THEN {FALSE} ELSE BOOLEAN)
          /\ params' = [max_tokens |-> MaxTokensOf(opts),
                        sampling |-> run_opts_apply_sampling(opts)]
          /\ Goto("consume") /\ UNCHANGED failed
       \/ Goto("cleanup") /\ failed' = TRUE /\ UNCHANGED <<params, refs, phase, d>>
    /\ UNCHANGED <<q, cancelled, on_push, cb, got, shutdown, code, rc, reason, signals, g_srv,
                   engine, cancel_sent, grace, held, printed, dropped>>

(* The head of the loop: the first round that sees the flag cancels.       *)
PollCancel ==
    /\ pc = "consume" /\ Goto("stream_next")
    /\ IF g_run_cancel > 0 /\ ~cancel_sent
       THEN StreamCancel(Run) /\ cancel_sent' = TRUE /\ grace' = "running"
       ELSE UNCHANGED <<streams, cancel_sent, grace>>
    /\ UNCHANGED <<phase, shutdown, code, rc, reason, failed, signals, g_srv, engine, d, held,
                   printed, dropped>>

(* A token: its id, its text with what was held back, nothing yet; or      *)
(* detok_feed fails, and what it held goes with it, and this token and     *)
(* the later ones are written by tokenizer_decode_token.                   *)
PrintToken ==
    \/ /\ ~d /\ printed' = printed + 1
       /\ UNCHANGED <<d, held, dropped>>
    \/ /\ d /\ printed' = printed + held + 1 /\ held' = 0
       /\ UNCHANGED <<d, dropped>>
    \/ /\ d /\ held' = held + 1
       /\ UNCHANGED <<d, printed, dropped>>
    \/ /\ d /\ d' = FALSE /\ held' = 0
       /\ printed' = printed + 1 /\ dropped' = dropped + held

(* Mutant: the text held back is not flushed.                              *)
FlushNothing == d' = FALSE /\ held' = 0 /\ UNCHANGED <<printed, dropped>>

(* detok_flush at the end, which may run out of memory *)
Flush ==
    /\ d' = FALSE /\ held' = 0
    /\ \/ d /\ printed' = printed + held /\ UNCHANGED dropped
       \/ d /\ held > 0 /\ dropped' = dropped + held /\ UNCHANGED printed
       \/ ~d /\ UNCHANGED <<printed, dropped>>

ConsumeChunk ==
    /\ pc = "stream_next" /\ StreamNext(Run)
    /\ LET c == Head(q[Run]) IN
         \/ /\ c = "token" /\ PrintToken /\ Goto("consume")
            /\ UNCHANGED <<rc, reason, failed>>
         \/ /\ c \in Terminals /\ Flush /\ Goto("cleanup")
            /\ rc' = 0 /\ reason' = c /\ UNCHANGED failed
         \/ /\ c \in Errors /\ Goto("cleanup")
            /\ rc' = 1 /\ d' = FALSE /\ held' = 0 /\ failed' = TRUE
            /\ UNCHANGED <<reason, printed, dropped>>
    /\ UNCHANGED <<phase, shutdown, code, signals, g_srv, engine, cancel_sent, grace>>

(* Mutant: no deadline after a cancel.                                     *)
ConsumeNothingForEver ==
    /\ pc = "stream_next" /\ q[Run] = <<>>
    /\ Goto("consume") /\ UNCHANGED <<rc, reason, d, held>>
    /\ UNCHANGED <<gvars, code, failed, signals, g_srv, engine, cancel_sent, grace, printed,
                   dropped>>

(* 100 ms without a chunk: only then is the deadline looked at.            *)
ConsumeNothing ==
    /\ pc = "stream_next" /\ q[Run] = <<>>
    /\ IF cancel_sent /\ grace = "passed"
       THEN /\ Goto("cleanup") /\ rc' = 0 /\ reason' = "cancelled"
            /\ d' = FALSE /\ held' = 0
       ELSE Goto("consume") /\ UNCHANGED <<rc, reason, d, held>>
    /\ UNCHANGED <<gvars, code, failed, signals, g_srv, engine, cancel_sent, grace, printed,
                   dropped>>

(* CANCEL_GRACE_SEC *)
GracePasses ==
    /\ grace = "running" /\ grace' = "passed"
    /\ UNCHANGED <<gvars, pc, code, rc, reason, failed, signals, g_srv, engine, cancel_sent, d,
                   held, printed, dropped>>

-----------------------------------------------------------------------------
(* The server of cmd_serve                                                 *)

CreateServer ==
    /\ pc = "create_server"
    /\ \/ g_srv' = "live" /\ Goto("serve_sigaction") /\ UNCHANGED failed
       \/ Goto("cleanup") /\ failed' = TRUE /\ UNCHANGED g_srv
    /\ UNCHANGED <<gvars, code, rc, reason, signals, engine, consumer>>

InstallServeHandler ==
    /\ pc = "serve_sigaction"
    /\ g_sigint_count' = 0 /\ handler' = "serve"
    /\ Goto("serving")
    /\ UNCHANGED <<gvars, code, rc, reason, failed, sigints, g_run_cancel, stop_sent, g_srv,
                   engine, consumer>>

(* http_server_start returns once a stop has drained the loop (Serving);   *)
(* on_stop_async has signalled the engine.                                 *)
ServerStops ==
    /\ pc = "serving" /\ stop_sent
    /\ shutdown' = TRUE
    /\ Goto("stopped")
    /\ UNCHANGED <<streams, phase, code, rc, reason, failed, signals, g_srv, engine, consumer>>

ForgetServer ==
    /\ pc = "stopped"
    /\ g_srv' = "NULL" /\ Goto("cleanup")
    /\ rc' = 0
    /\ UNCHANGED <<gvars, code, reason, failed, signals, engine, consumer>>

-----------------------------------------------------------------------------
(* cleanup: of cmd_run, and the last lines of cmd_serve                    *)

RestoreSigint ==
    /\ pc = "cleanup" /\ Goto("release")
    /\ handler' = "default"
    /\ UNCHANGED <<gvars, code, rc, reason, failed, sigints, g_run_cancel, g_sigint_count,
                   stop_sent, g_srv, engine, consumer>>

(* Mutant: only a run that went well gives up its reference.               *)
ReleaseStreamIfDone ==
    /\ pc = "release" /\ Goto("destroy")
    /\ IF refs[Run] > 0 /\ rc = 0 THEN StreamRelease(Run) ELSE UNCHANGED streams
    /\ UNCHANGED <<phase, shutdown, code, rc, reason, failed, signals, g_srv, engine, consumer>>

ReleaseStream ==
    /\ pc = "release" /\ Goto("destroy")
    /\ IF cmd = "run" /\ refs[Run] > 0 THEN StreamRelease(Run) ELSE UNCHANGED streams
    /\ UNCHANGED <<phase, shutdown, code, rc, reason, failed, signals, g_srv, engine, consumer>>

(* engine_destroy signals, joins the thread and drains its mailbox.        *)
DestroyEngine ==
    /\ pc = "destroy"
    /\ \/ /\ eng = "thread" /\ shutdown' = TRUE /\ Goto("join") /\ UNCHANGED eng
       \/ /\ eng = "none" /\ Goto("exit") /\ UNCHANGED <<shutdown, eng>>
    /\ UNCHANGED <<streams, phase, code, rc, reason, failed, signals, g_srv, load_state, sent,
                   consumer>>

JoinEngine ==
    /\ pc = "join"
    /\ phase[Run] \in {"none", "gone"} /\ load_state # "IN_PROGRESS"
    /\ eng' = "destroyed" /\ Goto("exit")
    /\ UNCHANGED <<gvars, code, rc, reason, failed, signals, g_srv, load_state, sent, consumer>>

Exit ==
    /\ pc = "exit" /\ Goto("exited")
    /\ code' = IF rc # 0 THEN "1"
               ELSE IF reason = "cancelled" THEN "130" ELSE "0"
    /\ UNCHANGED <<gvars, rc, reason, failed, signals, g_srv, engine, consumer>>

-----------------------------------------------------------------------------
(* SIGINT: the default action, run_sigint_handler, serve_sigint_handler    *)

RunSigintHandler ==
    /\ handler = "run"
    /\ g_run_cancel' = g_run_cancel + 1
    /\ code' = IF g_run_cancel >= 1 THEN "_exit_130" ELSE code
    /\ UNCHANGED <<g_sigint_count, stop_sent>>

ServeSigintHandler ==
    /\ handler = "serve"
    /\ g_sigint_count' = g_sigint_count + 1
    /\ IF g_sigint_count = 0
       THEN stop_sent' = (g_srv # "NULL") /\ UNCHANGED code   \* http_server_stop
       ELSE code' = "_exit_130" /\ UNCHANGED stop_sent
    /\ UNCHANGED g_run_cancel

Sigint ==
    /\ Alive /\ sigints < MaxSigints
    /\ sigints' = sigints + 1
    /\ \/ /\ handler = "default" /\ code' = "killed"
          /\ UNCHANGED <<g_run_cancel, g_sigint_count, stop_sent>>
       \/ RunSigintHandler
       \/ ServeSigintHandler
    /\ UNCHANGED <<gvars, commandline, params, pc, rc, reason, failed, handler, g_srv, engine,
                   consumer>>

(* The engine thread: a load ends in one way or the other; then the        *)
(* request, as GenStream has it.                                           *)
LoadEnds ==
    /\ load_state = "IN_PROGRESS"
    /\ load_state' \in {"OK", "FAILED"}
    /\ UNCHANGED <<gvars, commandline, params, pc, code, rc, reason, failed, signals, g_srv, eng, sent,
                   consumer>>

Generate ==
    /\ \/ SendToken(Run) /\ sent < MaxTokens /\ sent < params.max_tokens /\ sent' = sent + 1
       \/ /\ \/ SendError(Run) \/ SendDone(Run) \/ CutShort(Run) \/ GiveUp(Run)
             \/ Release(Run)
          /\ UNCHANGED sent
    /\ UNCHANGED <<commandline, params, pc, code, rc, reason, failed, signals, g_srv, eng, load_state,
                   consumer>>

EngineThread == Alive /\ (LoadEnds \/ Generate)

Main ==
    /\ Alive
    /\ \/ Dispatch /\ UNCHANGED <<argv, params>>
       \/ PostGenerate /\ UNCHANGED commandline
       \/ /\ \/ CmdPull \/ CmdList \/ PrepareServe \/ PrepareRun
             \/ InstallRunHandler \/ EngineInit \/ PostLoad \/ WaitLoad \/ NotLoaded
             \/ CreateStream \/ PollCancel \/ ConsumeChunk \/ ConsumeNothing
             \/ CreateServer \/ InstallServeHandler \/ ServerStops \/ ForgetServer
             \/ RestoreSigint \/ ReleaseStream \/ DestroyEngine \/ JoinEngine \/ Exit
          /\ UNCHANGED <<commandline, params>>

Clock == Alive /\ GracePasses /\ UNCHANGED <<commandline, params>>

Next == Main \/ EngineThread \/ Clock \/ Sigint

Spec == Init /\ [][Next]_vars

(* Both threads are scheduled and time passes, so that a load ends; nobody *)
(* has to press Ctrl-C.                                                    *)
FairSpec == Spec /\ WF_vars(Main) /\ WF_vars(EngineThread) /\ WF_vars(Clock)

-----------------------------------------------------------------------------

TokensTaken == Cardinality({i \in DOMAIN got[Run] : got[Run][i] = "token"})

(* The exit status of the shipped commands tells what happened: 0 only     *)
(* after the whole output was printed or a server was stopped, 130 and a   *)
(* death by SIGINT only after a Ctrl-C, 1 only after a failure.  A command *)
(* line the usage text does not allow is such a failure, and a server or a *)
(* generation that was started has the options it gives, the last of each. *)
ExitHonest ==
    /\ code \in {"130", "_exit_130", "killed"} => sigints > 0
    /\ code = "1" => failed
    /\ code = "0" /\ cmd = "run" =>
          /\ got[Run][Len(got[Run])] \in {"stop", "length"}
          /\ TokensTaken = sent /\ held = 0
    /\ code = "0" /\ cmd = "serve" => sigints > 0
    /\ code = "0" /\ cmd = "pull" => Len(opts.other) = 1
    /\ pc \in {"serve", "run", "pull", "list"} => AsUsage(cmd, Tail(argv), opts) /\ ~failed
    /\ pc = "exit" /\ ~opts.ok =>
          rc = 1 /\ (cmd \in DOMAIN SyntaxOf => AsUsage(cmd, Tail(argv), opts))

(* A run that ends well has written every token the engine sent, except   *)
(* what a detokenizer that ran out of memory took with it: text held back  *)
(* by cli_run_consume is written with a later token or by detok_flush.  It *)
(* never writes more than --max-tokens allows, where 0 is no limit.        *)
NothingLost ==
    /\ code = "0" /\ cmd = "run" => printed + dropped = sent
    /\ opts.ok /\ "--max-tokens" \in DOMAIN opts.value /\ Long[opts.value["--max-tokens"]] > 0 =>
          printed <= Long[opts.value["--max-tokens"]]

(* A command that returns has freed its stream and joined its engine, and  *)
(* nobody reaches a stream that is gone, however it failed.                *)
LeavesNothing ==
    /\ code \in {"0", "1", "130"} =>
          refs[Run] = 0 /\ phase[Run] \in {"none", "gone"} /\ eng # "thread"
    /\ phase[Run] \in {"held", "failing", "ended", "silent"} => refs[Run] >= 1
    /\ pc \in {"consume", "stream_next"} => refs[Run] >= 1

(* Ctrl-C ends the command, by itself: also when the engine never sends    *)
(* the terminal of a cancelled stream, and when a load is under way, once  *)
(* that load has ended or Ctrl-C is pressed again.                         *)
CtrlCEnds == g_run_cancel + g_sigint_count > 0 ~> code # "running"
=============================================================================
