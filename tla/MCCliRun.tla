------------------------------ MODULE MCCliRun ------------------------------
(* One run of each command for TLC, over command lines that are allowed    *)
(* and some that are not                                                   *)
EXTENDS CliRun, TLC
CONSTANT r1
OneReq == {r1}

MCLong == ("" :> 0) @@ ("-1" :> -1) @@ ("-2" :> -2) @@ ("0" :> 0) @@ ("1" :> 1) @@ ("2" :> 2)
       @@ ("65535" :> 65535) @@ ("65536" :> 65536) @@ ("70000" :> 70000)
MCFloat == ("" :> 0) @@ ("-1" :> -100) @@ ("0" :> 0) @@ ("0.5" :> 50) @@ ("1" :> 100)
        @@ ("2" :> 200)
MCDashed == {"--", "-1", "-2", "-h", "--help", "--version", "--model", "--host", "--port",
             "--max-tokens", "--temperature", "--top-p", "--top-k", "--min-p", "--seed",
             "--stream", "--raw", "--token-ids", "--no-think", "--json"}
MCArgs == MCDashed \cup DOMAIN MCLong \cup DOMAIN MCFloat
       \cup {"m", "p", "h", "serve", "run", "pull", "list"}

(* What follows "run" beside a model: every option with its boundary       *)
(* values, then the combinations the parser could confuse.                 *)
RunTails ==
    {<<"m">>, <<"m", "p">>, <<"m", "p", "p">>, <<>>, <<"--">>, <<"--", "m">>,
     <<"--", "-1", "--raw">>, <<"m", "--", "--">>, <<"-1">>, <<"m", "--json">>,
     <<"m", "--max-tokens">>, <<"m", "--max-tokens", "--">>, <<"--seed", "--", "m">>,
     <<"m", "--max-tokens", "2", "--max-tokens", "1">>, <<"m", "p", "--token-ids", "--max-tokens", "0">>,
     <<"m", "--raw", "--stream", "--no-think">>, <<"m", "--max-tokens", "", "--", "p">>}
    \cup {<<"m", o, v>> : o \in {"--max-tokens", "--top-k", "--seed"},
                         v \in {"-2", "-1", "65536", "70000", "m"}}
    \cup {<<"m", o, v>> : o \in {"--temperature", "--top-p", "--min-p"},
                         v \in {"-1", "0.5", "2", "m"}}
ServeTails ==
    {<<>>, <<"m">>, <<"--model">>, <<"--model", "m">>, <<"--model", "--host">>, <<"--host", "h">>,
     <<"--model", "m", "--">>, <<"--model", "m", "--host", "h", "--port", "1">>}
    \cup {<<"--model", "m", "--port", v>> : v \in {"0", "65535", "65536", "m", ""}}
OtherLines ==
    {<<>>, <<"-h">>, <<"--help">>, <<"--version">>, <<"m">>,
     <<"pull">>, <<"pull", "m">>, <<"pull", "--", "-1">>, <<"pull", "--">>, <<"pull", "m", "m">>,
     <<"pull", "-1">>, <<"list">>, <<"list", "--json">>, <<"list", "--json", "--json">>,
     <<"list", "m">>}
MCCommandLines ==
    {<<"run">> \o t : t \in RunTails} \cup {<<"serve">> \o t : t \in ServeTails} \cup OtherLines
=============================================================================
