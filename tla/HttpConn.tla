------------------------------ MODULE HttpConn ------------------------------
(***************************************************************************)
(* One connection of the HTTP server and its parser: src/src/http/conn.c   *)
(* (http_parser_ctx_t over llhttp), the read loop and the dispatch of      *)
(* src/src/http/server.c, router.c, and the verdicts of handler.c.         *)
(*                                                                         *)
(* The peer's bytes are units: a piece of a request target, the end of the *)
(* headers, a piece of a body, the last chunk, or junk.  TCP cuts them     *)
(* anywhere; ReadCap units fit in rbuf.  The loop thread runs one callback *)
(* at a time, and on_read runs here as one step per unit llhttp consumes   *)
(* and one per return of http_parser_feed, with nothing between them.      *)
(***************************************************************************)
EXTENDS Integers, Sequences

CONSTANTS Scripts,     \* what a peer may send: sequences of requests
          MaxUrl,      \* MLXD_HTTP_MAX_URL, in pieces
          MaxBody,     \* max_body_bytes, in pieces
          ReadCap,     \* sizeof rbuf, in pieces
          WritesFail,  \* whether uv_write may fail, on the spot or later
          AllocFails   \* whether building a response may fail

ASSUME HttpConnAssumption ==
    /\ MaxUrl \in Nat \ {0} /\ MaxBody \in Nat \ {0} /\ ReadCap \in Nat \ {0}
    /\ WritesFail \in BOOLEAN /\ AllocFails \in BOOLEAN

(* http_parse_status_t *)
Stuck == {"COMPLETE", "ERROR", "TOO_LARGE"}

(* A request of a script.  One that declares no body has none: what follows *)
(* its headers is the next request.                                        *)
Requests ==
    {r \in [method : STRING, target : Seq(STRING), frame : {"none", "length", "chunked", "bad"},
            body : Seq(STRING), keep : BOOLEAN] : r.frame = "none" => r.body = <<>>}

ASSUME ScriptsAssumption == \A script \in Scripts : script \in Seq(Requests)

-----------------------------------------------------------------------------
(* What the peer writes for one request; "bad" replaces the framing by     *)
(* bytes that llhttp refuses.                                              *)

Body(r) == [i \in 1..Len(r.body) |-> [k |-> "body", v |-> r.body[i]]]

Units(r) ==
    IF r.frame = "bad" THEN <<[k |-> "junk"]>>
    ELSE [i \in 1..Len(r.target) |-> [k |-> "url", v |-> r.target[i], m |-> r.method]]
         \o <<[k |-> "head", frame |-> r.frame, n |-> Len(r.body), keep |-> r.keep]>>
         \o Body(r)
         \o (IF r.frame = "chunked" THEN <<[k |-> "last"]>> ELSE <<>>)

Bytes(script) ==
    LET upTo[i \in 0..Len(script)] ==
          IF i = 0 THEN <<>> ELSE upTo[i - 1] \o Units(script[i])
    IN upTo[Len(script)]

(* The path of a request: its target up to the query or the fragment.      *)
StripQuery(url) ==
    LET ends == {i \in 1..Len(url) : url[i] \in {"?", "#"}}
        least == CHOOSE i \in ends : \A j \in ends : i <= j
    IN IF ends = {} THEN url ELSE SubSeq(url, 1, least - 1)

-----------------------------------------------------------------------------

VARIABLES
    sent,       \* history: the script of this peer
    wire,       \* units sent and not yet read
    \* http_parser_ctx_t
    url, body,  \* url_buf, body_buf up to their lengths
    complete, too_large, keep_alive,
    consumed,
    last_status,
    method,     \* what llhttp_get_method returns
    ll,         \* llhttp: where it is in the message
    err,        \* result of the llhttp_execute under way
    \* conn_t
    pc,         \* "idle", "feed", "execute", "return" in on_read
    buf, off,   \* rbuf and the offset in it
    closing, gen_owned,
    writes,     \* write_req_t queued in libuv, each its close_after
    freed,
    crashed,    \* dispatch was entered without a request
    sctx,       \* serve_ctx_t: whether a tokenizer and a template are there
    \* histories
    dispatched, \* requests given to dispatch
    answers     \* answers accepted by queue_write

parser == <<url, body, complete, too_large, keep_alive, consumed, last_status, method, ll, err>>
connection == <<closing, gen_owned, writes, freed, crashed>>
history == <<dispatched, answers>>
vars == <<sent, wire, parser, pc, buf, off, connection, sctx, history>>

LineStart == [at |-> "line", left |-> 0]

Init ==
    /\ sent \in Scripts /\ wire = Bytes(sent)
    /\ url = <<>> /\ body = <<>>
    /\ complete = FALSE /\ too_large = FALSE /\ keep_alive = FALSE
    /\ consumed = 0 /\ last_status = "INCOMPLETE" /\ method = "NULL"
    /\ ll = LineStart /\ err = "OK"
    /\ pc = "idle" /\ buf = <<>> /\ off = 0
    /\ closing = FALSE /\ gen_owned = FALSE /\ writes = <<>> /\ freed = FALSE
    /\ crashed = FALSE
    /\ sctx \in [tokenizer : BOOLEAN, template : BOOLEAN]
    /\ dispatched = <<>> /\ answers = <<>>

-----------------------------------------------------------------------------
(* close_conn and queue_write *)

Close == closing' = TRUE

Answer(status, close_after) == [status |-> status, close |-> close_after]

QueueWrite(a) ==
    \/ /\ closing
       /\ UNCHANGED <<writes, closing, answers>>
    \/ /\ ~closing
       /\ writes' = Append(writes, a.close) /\ answers' = Append(answers, a)
       /\ UNCHANGED closing
    \/ /\ ~closing /\ WritesFail
       /\ Close
       /\ UNCHANGED <<writes, answers>>

(* A response that cannot be built closes the connection.                  *)
Respond(status, close_after) ==
    \/ QueueWrite(Answer(status, close_after))
    \/ /\ AllocFails
       /\ Close
       /\ UNCHANGED <<writes, answers>>

(* Mutant: an error answer never closes.                                   *)
WriteErrorKeepsOpen(status, close_after) == Respond(status, FALSE)

WriteError(status, close_after) == Respond(status, close_after)

-----------------------------------------------------------------------------
(* router.c and handler.c *)

Models == <<"v1", "models">>
Embeddings == <<"v1", "embeddings">>
Chat == <<"v1", "chat", "completions">>
Completions == <<"v1", "completions">>

Routes == << [method |-> "GET",  path |-> Models],
             [method |-> "POST", path |-> Embeddings],
             [method |-> "POST", path |-> Chat],
             [method |-> "POST", path |-> Completions] >>

Matching(m, path) == {i \in DOMAIN Routes : Routes[i] = [method |-> m, path |-> path]}
PathExists(path) == \E i \in DOMAIN Routes : Routes[i].path = path

(* What a handler makes of a body: its JSON does not parse unless it is    *)
(* whole; the rest is what the validation of the request finds.            *)
Parse(b) == IF Len(b) = 2 /\ b[2] = "}" THEN b[1] ELSE "no json"

EmbeddingsVerdict(b) == {IF Parse(b) \in {"no json", "invalid"} THEN "400" ELSE "501"}

StartVerdict == {"400", "500", "503", "deferred"}   \* gen_request_start

ChatVerdict(b) ==
    IF ~sctx.tokenizer THEN {"503"}
    ELSE IF ~sctx.template THEN {"400"}
    ELSE IF Parse(b) \in {"no json", "invalid", "sampling", "thinking"} THEN {"400"}
    ELSE StartVerdict

CompletionsVerdict(b) ==
    IF ~sctx.tokenizer THEN {"503"}
    ELSE IF Parse(b) \in {"no json", "invalid", "sampling"} THEN {"400"}
    ELSE StartVerdict \ {"400"}

Handle(path, b) ==
    CASE path = Models      -> {"200"}
      [] path = Embeddings  -> EmbeddingsVerdict(b)
      [] path = Chat        -> ChatVerdict(b)
      [] path = Completions -> CompletionsVerdict(b)

(* dispatch, with a parsed request *)
Dispatch(pr) ==
    \/ /\ pr.method = "OPTIONS"
       /\ Respond("204", ~pr.keep_alive) /\ UNCHANGED gen_owned
    \/ /\ pr.method # "OPTIONS" /\ Matching(pr.method, pr.path) # {}
       /\ \E v \in Handle(pr.path, pr.body) :
             \/ /\ v = "deferred" /\ gen_owned' = TRUE
                /\ UNCHANGED <<writes, closing, answers>>
             \/ /\ v # "deferred" /\ UNCHANGED gen_owned
                /\ Respond(v, ~pr.keep_alive)
    \/ /\ pr.method # "OPTIONS" /\ Matching(pr.method, pr.path) = {}
       /\ WriteError(IF PathExists(pr.path) THEN "405" ELSE "404", ~pr.keep_alive)
       /\ UNCHANGED gen_owned

-----------------------------------------------------------------------------
(* llhttp and the callbacks of conn.c: one unit of the data being fed      *)

Unit == buf[off + consumed + 1]

(* on_url *)
OnUrl ==
    /\ Unit.k = "url" /\ ll.at = "line"
    /\ method' = Unit.m
    /\ IF Len(url) + 1 > MaxUrl
       THEN err' = "USER" /\ UNCHANGED url
       ELSE url' = Append(url, Unit.v) /\ UNCHANGED err
    /\ UNCHANGED <<body, complete, too_large, keep_alive, ll>>

(* on_message_complete: pauses llhttp *)
MessageComplete(keep) ==
    /\ keep_alive' = keep /\ complete' = TRUE /\ err' = "PAUSED"
    /\ ll' = LineStart

(* on_headers_complete *)
OnHeadersComplete ==
    /\ Unit.k = "head" /\ ll.at = "line" /\ url # <<>>
    /\ \/ /\ Unit.frame = "length" /\ Unit.n > MaxBody
          /\ too_large' = TRUE /\ err' = "USER"
          /\ UNCHANGED <<complete, keep_alive, ll>>
       \/ /\ Unit.frame = "none" \/ (Unit.frame = "length" /\ Unit.n = 0)
          /\ MessageComplete(Unit.keep)
          /\ UNCHANGED too_large
       \/ /\ Unit.frame = "length" /\ Unit.n \in 1..MaxBody
          /\ ll' = [at |-> "body", left |-> Unit.n, keep |-> Unit.keep]
          /\ UNCHANGED <<too_large, err, complete, keep_alive>>
       \/ /\ Unit.frame = "chunked"
          /\ ll' = [at |-> "chunks", left |-> 0, keep |-> Unit.keep]
          /\ UNCHANGED <<too_large, err, complete, keep_alive>>
    /\ UNCHANGED <<url, body, method>>

(* Mutant: only the declared length of a body is limited.                  *)
OnBodyUnlimited ==
    /\ Unit.k = "body" /\ ll.at \in {"body", "chunks"}
    /\ body' = Append(body, Unit.v)
    /\ IF ll.at = "body" /\ ll.left = 1
       THEN MessageComplete(ll.keep)
       ELSE /\ ll' = [ll EXCEPT !.left = @ - 1]
            /\ UNCHANGED <<complete, keep_alive, err>>
    /\ UNCHANGED <<url, too_large, method>>

(* on_body *)
OnBody ==
    /\ Unit.k = "body" /\ ll.at \in {"body", "chunks"}
    /\ IF Len(body) + 1 > MaxBody
       THEN /\ too_large' = TRUE /\ err' = "USER"
            /\ UNCHANGED <<body, complete, keep_alive, ll>>
       ELSE /\ body' = Append(body, Unit.v)
            /\ UNCHANGED too_large
            /\ IF ll.at = "body" /\ ll.left = 1
               THEN MessageComplete(ll.keep)
               ELSE /\ ll' = [ll EXCEPT !.left = @ - 1]
                    /\ UNCHANGED <<complete, keep_alive, err>>
    /\ UNCHANGED <<url, method>>

OnLastChunk ==
    /\ Unit.k = "last" /\ ll.at = "chunks"
    /\ MessageComplete(ll.keep)
    /\ UNCHANGED <<url, body, too_large, method>>

Expected(u) ==
    CASE u.k = "url"  -> ll.at = "line"
      [] u.k = "head" -> ll.at = "line" /\ url # <<>>
      [] u.k = "body" -> ll.at \in {"body", "chunks"}
      [] u.k = "last" -> ll.at = "chunks"
      [] OTHER        -> FALSE

OnJunk ==
    /\ ~Expected(Unit)
    /\ err' = "INVALID"
    /\ UNCHANGED <<url, body, complete, too_large, keep_alive, method, ll>>

(* llhttp_execute: until the data is used up or an error stops it.         *)
Execute ==
    /\ pc = "execute" /\ err = "OK" /\ off + consumed < Len(buf)
    /\ OnUrl \/ OnHeadersComplete \/ OnBody \/ OnLastChunk \/ OnJunk
    /\ consumed' = consumed + 1
    /\ UNCHANGED <<sent, wire, last_status, pc, buf, off, connection, sctx, history>>

-----------------------------------------------------------------------------
(* on_read *)

(* A read of n units.  A generating connection drops what it reads.        *)
OnRead(n) ==
    /\ pc = "idle" /\ ~closing /\ n <= Len(wire) /\ n <= ReadCap
    /\ wire' = SubSeq(wire, n + 1, Len(wire))
    /\ IF gen_owned THEN UNCHANGED <<pc, buf>>
                    ELSE pc' = "feed" /\ buf' = SubSeq(wire, 1, n)
    /\ off' = 0
    /\ UNCHANGED <<sent, parser, connection, sctx, history>>

(* The peer closes, or the read fails.                                     *)
OnEof ==
    /\ pc = "idle" /\ ~closing
    /\ Close
    /\ UNCHANGED <<sent, wire, parser, pc, buf, off, gen_owned, writes, freed, crashed,
                   sctx, history>>

Leave == pc' = "idle" /\ buf' = <<>> /\ off' = 0

(* The head of the loop, and the first lines of http_parser_feed: a status *)
(* other than INCOMPLETE is returned again without a look at the data.     *)
LoopEnds ==
    /\ pc = "feed" /\ (off >= Len(buf) \/ closing)
    /\ Leave
    /\ UNCHANGED <<sent, wire, parser, connection, sctx, history>>

FeedSticky ==
    /\ pc = "feed" /\ off < Len(buf) /\ ~closing
    /\ last_status \in Stuck
    /\ Leave
    /\ CASE last_status = "COMPLETE"  -> crashed' = TRUE /\ UNCHANGED <<writes, closing, answers>>
         [] last_status = "ERROR"     -> WriteError("400", TRUE) /\ UNCHANGED crashed
         [] last_status = "TOO_LARGE" -> WriteError("413", TRUE) /\ UNCHANGED crashed
    /\ UNCHANGED <<sent, wire, parser, gen_owned, freed, sctx, dispatched>>

FeedExecute ==
    /\ pc = "feed" /\ off < Len(buf) /\ ~closing
    /\ last_status \notin Stuck
    /\ pc' = "execute" /\ consumed' = 0 /\ err' = "OK"
    /\ UNCHANGED <<sent, wire, url, body, complete, too_large, keep_alive, last_status, method,
                   ll, buf, off, connection, sctx, history>>

Returned == pc = "execute" /\ (err # "OK" \/ off + consumed = Len(buf))

(* http_parser_feed returns TOO_LARGE or ERROR: consumed = len *)
FeedRefuses ==
    /\ Returned /\ (too_large \/ err \notin {"OK", "PAUSED"})
    /\ last_status' = IF too_large THEN "TOO_LARGE" ELSE "ERROR"
    /\ consumed' = Len(buf) - off
    /\ WriteError(IF too_large THEN "413" ELSE "400", TRUE)
    /\ Leave
    /\ UNCHANGED <<sent, wire, url, body, complete, too_large, keep_alive, method, ll, err,
                   gen_owned, freed, crashed, sctx, dispatched>>

FeedIncomplete ==
    /\ Returned /\ ~too_large /\ err = "OK" /\ ~complete
    /\ Leave
    /\ UNCHANGED <<sent, wire, parser, connection, sctx, history>>

(* http_parser_feed fills *out; url_buf is cut at the query in place.      *)
FeedComplete ==
    /\ Returned /\ ~too_large /\ complete
    /\ LET pr == [method |-> method, path |-> StripQuery(url), body |-> body,
                  keep_alive |-> keep_alive]
       IN /\ Dispatch(pr)
          /\ dispatched' = Append(dispatched, pr)
    /\ last_status' = "COMPLETE"
    /\ off' = off + consumed
    /\ pc' = "return"
    /\ UNCHANGED <<sent, wire, url, body, complete, too_large, keep_alive, consumed, method, ll,
                   err, buf, freed, crashed, sctx>>

(* Mutant: the body buffer keeps its length.                               *)
ResetKeepsBody ==
    /\ url' = <<>> /\ UNCHANGED body
    /\ complete' = FALSE /\ too_large' = FALSE /\ keep_alive' = FALSE
    /\ method' = "NULL" /\ consumed' = 0
    /\ last_status' = "INCOMPLETE"
    /\ ll' = LineStart /\ err' = "OK"

(* http_parser_reset *)
Reset ==
    /\ url' = <<>> /\ body' = <<>>
    /\ complete' = FALSE /\ too_large' = FALSE /\ keep_alive' = FALSE
    /\ method' = "NULL" /\ consumed' = 0
    /\ last_status' = "INCOMPLETE"
    /\ ll' = LineStart /\ err' = "OK"

(* Mutant: the parser is reset, the remainder is not fed to it.            *)
AfterDispatchOnce ==
    /\ pc = "return"
    /\ Leave
    /\ IF ~keep_alive \/ closing \/ gen_owned THEN UNCHANGED parser ELSE Reset
    /\ UNCHANGED <<sent, wire, connection, sctx, history>>

(* After dispatch: leave, or reset the parser and feed it the remainder.   *)
AfterDispatch ==
    /\ pc = "return"
    /\ IF ~keep_alive \/ closing \/ gen_owned
       THEN Leave /\ UNCHANGED parser
       ELSE pc' = "feed" /\ Reset /\ UNCHANGED <<buf, off>>
    /\ UNCHANGED <<sent, wire, connection, sctx, history>>

-----------------------------------------------------------------------------
(* The end of a deferred response: its last write closes the connection,   *)
(* and one given up for backpressure, or not built, closes it at once.  A  *)
(* generation may end without a terminal: then this never happens.         *)
GenFinish ==
    /\ pc = "idle" /\ gen_owned /\ ~closing
    /\ \A i \in DOMAIN answers : answers[i].status # "generated"
    /\ \/ QueueWrite(Answer("generated", TRUE))
       \/ Close /\ UNCHANGED <<writes, answers>>
    /\ UNCHANGED <<sent, wire, parser, pc, buf, off, gen_owned, freed, crashed, sctx, dispatched>>

(* Mutant: close_after is forgotten by the callback.                       *)
OnWriteKeepsOpen ==
    /\ pc = "idle" /\ writes # <<>>
    /\ writes' = Tail(writes)
    /\ \E ok \in BOOLEAN :
          /\ ok \/ WritesFail \/ closing
          /\ closing' = (closing \/ ~ok)
    /\ UNCHANGED <<sent, wire, parser, pc, buf, off, gen_owned, freed, crashed, sctx, history>>

(* on_write; uv_close cancels what is still queued.                        *)
OnWrite ==
    /\ pc = "idle" /\ writes # <<>>
    /\ writes' = Tail(writes)
    /\ \E ok \in BOOLEAN :
          /\ ok \/ WritesFail \/ closing
          /\ closing' = (closing \/ ~ok \/ Head(writes))
    /\ UNCHANGED <<sent, wire, parser, pc, buf, off, gen_owned, freed, crashed, sctx, history>>

OnConnClose ==
    /\ pc = "idle" /\ closing /\ writes = <<>> /\ ~freed
    /\ freed' = TRUE
    /\ UNCHANGED <<sent, wire, parser, pc, buf, off, closing, gen_owned, writes, crashed, sctx,
                   history>>

Loop ==
    LoopEnds \/ FeedSticky \/ FeedExecute \/ Execute \/ FeedRefuses \/ FeedIncomplete
    \/ FeedComplete \/ AfterDispatch

Next ==
    /\ ~crashed
    /\ \/ \E n \in 1..ReadCap : OnRead(n)
       \/ OnEof
       \/ Loop
       \/ GenFinish \/ OnWrite \/ OnConnClose

Spec == Init /\ [][Next]_vars

(* What libuv owes: a callback goes on, uv_close ends the writes that are  *)
(* queued and then calls back.  Nothing makes a peer send, read or leave,  *)
(* there is no timeout on a write, and a generation need not finish.       *)
FairSpec ==
    /\ Spec
    /\ WF_vars(~crashed /\ Loop)
    /\ WF_vars(~crashed /\ closing /\ OnWrite)
    /\ WF_vars(~crashed /\ OnConnClose)

(* A peer that takes what is written, or is seen to be gone.               *)
PeerReads == WF_vars(~crashed /\ OnWrite)

-----------------------------------------------------------------------------

(* What dispatch should be given for a request of the script.              *)
Parsed(r) == [method |-> r.method, path |-> StripQuery(r.target), body |-> r.body,
              keep_alive |-> r.keep]

Acceptable(r) ==
    /\ r.frame # "bad" /\ Len(r.target) <= MaxUrl /\ Len(r.body) <= MaxBody

(* Requests are dispatched in the order they were sent, each once and      *)
(* exactly as sent, whatever the cuts of TCP: no target, body or           *)
(* keep-alive of one request leaks into the next through the buffers the   *)
(* parser keeps, and none follows one that was refused.  However a peer    *)
(* declares or chunks it, no more than the limits is ever buffered.        *)
InOrder ==
    /\ Len(url) <= MaxUrl /\ Len(body) <= MaxBody
    /\ Len(dispatched) <= Len(sent)
    /\ \A i \in DOMAIN dispatched :
          /\ dispatched[i] = Parsed(sent[i])
          /\ \A j \in 1..i : Acceptable(sent[j])
          /\ i < Len(dispatched) => sent[i].keep

(* How many requests of the script are complete in its first n units.      *)
Whole(n) ==
    LET ends == {i \in 1..Len(sent) : Len(Bytes(SubSeq(sent, 1, i))) <= n}
    IN IF ends = {} THEN 0 ELSE CHOOSE i \in ends : \A j \in ends : j <= i

(* Between two reads of a connection that still serves, every request that *)
(* has arrived in full has been dispatched: none waits in rbuf for bytes   *)
(* that may never come.                                                    *)
AllServed ==
    pc = "idle" /\ ~closing /\ ~gen_owned /\ last_status = "INCOMPLETE"
        => Len(dispatched) = Whole(Len(Bytes(sent)) - Len(wire))

(* Answers follow requests one to one and in order; each says close        *)
(* exactly when the request asked for it, and what comes after the last    *)
(* request is a refusal or the generated response.                         *)
AnswersFollow ==
    /\ \A i \in DOMAIN answers :
          IF i <= Len(dispatched) /\ answers[i].status # "generated"
          THEN answers[i].close = ~dispatched[i].keep_alive
          ELSE answers[i].close /\ answers[i].status \in {"400", "413", "generated"}
    /\ pc \in {"idle", "feed"} /\ ~closing /\ ~gen_owned => Len(answers) >= Len(dispatched)
    /\ gen_owned /\ (\A i \in DOMAIN answers : answers[i].status # "generated")
          => Len(answers) = Len(dispatched) - 1

(* A connection that is closing is freed, parser and all, with whatever is *)
(* queued and whatever the peer does.  One that was given an answer that   *)
(* says close, be it to a request, a refusal behind others or the end of a *)
(* generation, is closed and freed if its peer takes what is written.      *)
Closes ==
    /\ closing ~> freed
    /\ PeerReads => ((\E i \in DOMAIN answers : answers[i].close) ~> (freed \/ crashed))

(* conn.h: http_parser_feed "returns COMPLETE when a full request is ready *)
(* (fills out)": dispatch is never entered without a request.              *)
DispatchHasRequest == ~crashed

=============================================================================
