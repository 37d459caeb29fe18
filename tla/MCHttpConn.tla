----------------------------- MODULE MCHttpConn -----------------------------
(* Peers for HttpConn: every pair of the requests below, and three in a row *)
EXTENDS HttpConn

Req(m, target, frame, b, keep) ==
    [method |-> m, target |-> target, frame |-> frame, body |-> b, keep |-> keep]

Models1  == Req("GET", <<"v1", "models">>, "none", <<>>, TRUE)
Models2  == Req("GET", <<"v1", "models", "?">>, "none", <<>>, FALSE)
Wrong    == Req("PUT", <<"v1", "models">>, "length", <<"ok">>, TRUE)
Unknown  == Req("GET", <<"v2">>, "none", <<>>, FALSE)
Preflight == Req("OPTIONS", <<"v1", "chat">>, "none", <<>>, TRUE)
Embed    == Req("POST", <<"v1", "embeddings">>, "chunked", <<"ok", "}">>, TRUE)
Chat1    == Req("POST", <<"v1", "chat", "completions">>, "length", <<"ok", "}">>, TRUE)
Chat2    == Req("POST", <<"v1", "chat", "completions">>, "length", <<"thinking", "}">>, TRUE)
Complete1 == Req("POST", <<"v1", "completions">>, "chunked", <<"ok", "}">>, FALSE)
Broken   == Req("POST", <<"v1", "completions">>, "chunked", <<"ok">>, TRUE)
Bad      == Req("GET", <<"v1">>, "bad", <<>>, TRUE)
Long     == Req("GET", <<"v1", "models", "?", "x">>, "none", <<>>, TRUE)
BigSent  == Req("POST", <<"v1", "embeddings">>, "length", <<"ok", "x", "}">>, TRUE)
BigChunks == Req("POST", <<"v1", "embeddings">>, "chunked", <<"ok", "x", "}">>, TRUE)

All == {Models1, Models2, Wrong, Unknown, Preflight, Embed, Chat1, Chat2, Complete1, Broken,
        Bad, Long, BigSent, BigChunks}

MCScripts == {<<a, b>> : a \in All, b \in All}
             \cup {<<Models1, a, b>> : a \in {Embed, Wrong, Chat1}, b \in {Models1, Complete1, Bad}}

(* A peer that sends more after a request that asked to close *)
AfterClose == {<<Models2, Models1>>}
=============================================================================
