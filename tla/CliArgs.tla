------------------------------ MODULE CliArgs -------------------------------
(***************************************************************************)
(* The command line: cli_command and the four parsers of                   *)
(* src/src/cli/args.c, which are one loop with different tables.           *)
(*                                                                         *)
(* An argument is an atom.  What it looks like to the parsers is given by  *)
(* the constants: whether it begins with a dash, and the number strtol or  *)
(* strtof makes of the whole of it, which is none for an argument they     *)
(* leave a rest of, or that overflows.  The empty argument is 0 to both.   *)
(***************************************************************************)
EXTENDS Integers, Sequences, FiniteSets

CONSTANTS Args,     \* the arguments
          Dashed,   \* those that begin with a dash
          Long,     \* those strtol reads, with their number
          Float,    \* those strtof reads, in hundredths
          INT_MAX

ASSUME CliArgsAssumption ==
    /\ Dashed \subseteq Args
    /\ DOMAIN Long \subseteq Args /\ \A a \in DOMAIN Long : Long[a] \in Int
    /\ DOMAIN Float \subseteq Args /\ \A a \in DOMAIN Float : Float[a] \in Int
    /\ INT_MAX \in Nat

cli_command(argv) ==
    IF argv = <<>> THEN "none"
    ELSE IF Head(argv) \in {"serve", "run", "pull", "list", "--version"} THEN Head(argv)
    ELSE IF Head(argv) \in {"--help", "-h"} THEN "--help"
    ELSE "unknown"

-----------------------------------------------------------------------------
(* What each command takes: the options with a value and the values they   *)
(* accept, the flags, whether "--" ends the options, and how many other    *)
(* arguments there may be.                                                 *)

Longs(lo, hi) == {a \in DOMAIN Long : lo <= Long[a] /\ Long[a] <= hi}
Fraction == {a \in DOMAIN Float : 0 <= Float[a] /\ Float[a] <= 100}

ServeSyntax ==
    [valued |-> [o \in {"--model", "--host", "--port"} |->
                    IF o = "--port" THEN Longs(1, 65535) ELSE Args],
     flags |-> {}, ends |-> FALSE, others |-> 0]

RunSyntax ==
    [valued |-> [o \in {"--max-tokens", "--temperature", "--top-p", "--min-p", "--top-k", "--seed"} |->
                    CASE o = "--temperature" -> {a \in DOMAIN Float : Float[a] >= 0}
                      [] o \in {"--top-p", "--min-p"} -> Fraction
                      [] o = "--top-k" -> Longs(-1, INT_MAX)
                      [] o \in {"--max-tokens", "--seed"} -> Longs(0, INT_MAX)],
     flags |-> {"--stream", "--raw", "--token-ids", "--no-think"},
     ends |-> TRUE, others |-> 2]

PullSyntax == [valued |-> <<>>, flags |-> {}, ends |-> TRUE, others |-> 1]
ListSyntax == [valued |-> <<>>, flags |-> {"--json"}, ends |-> FALSE, others |-> 0]

SyntaxOf ==
    [cmd \in {"serve", "run", "pull", "list"} |->
        CASE cmd = "serve" -> ServeSyntax [] cmd = "run" -> RunSyntax
          [] cmd = "pull" -> PullSyntax [] cmd = "list" -> ListSyntax]

(* What the parsers compare an argument with begins with a dash.           *)
ASSUME OptionsAssumption ==
    \A cmd \in DOMAIN SyntaxOf :
        DOMAIN SyntaxOf[cmd].valued \cup SyntaxOf[cmd].flags \cup {"--"} \subseteq Dashed

Unread == [ok |-> TRUE, want |-> "none", done |-> FALSE, value |-> <<>>, flags |-> {}, other |-> <<>>]

(* One argument: the value of the option before it, an option, a flag or   *)
(* one of the others.  A later value of an option replaces an earlier one. *)
ReadArg(s, p, a) ==
    CASE ~p.ok -> p
      [] p.ok /\ p.want # "none" ->
            [p EXCEPT !.want = "none", !.ok = a \in s.valued[p.want],
                      !.value = [o \in DOMAIN p.value \cup {p.want} |->
                                    IF o = p.want THEN a ELSE p.value[o]]]
      [] p.ok /\ p.want = "none" /\ (p.done \/ a \notin Dashed) ->
            [p EXCEPT !.ok = Len(p.other) < s.others, !.other = Append(@, a)]
      [] p.ok /\ p.want = "none" /\ ~p.done /\ a \in Dashed ->
            [p EXCEPT !.done = s.ends /\ a = "--",
                      !.want = IF a \in DOMAIN s.valued THEN a ELSE "none",
                      !.flags = IF a \in s.flags THEN @ \cup {a} ELSE @,
                      !.ok = a \in DOMAIN s.valued \cup s.flags \/ (s.ends /\ a = "--")]

(* One argument after the other; an option at the end lacks its value.     *)
Read(s, args) ==
    LET upTo[i \in 0..Len(args)] ==
            IF i = 0 THEN Unread ELSE ReadArg(s, upTo[i - 1], args[i])
        p == upTo[Len(args)]
    IN  [p EXCEPT !.ok = @ /\ p.want = "none"]

cli_parse_serve(args) ==
    LET p == Read(ServeSyntax, args) IN [p EXCEPT !.ok = @ /\ "--model" \in DOMAIN p.value]

cli_parse_run(args) ==
    LET p == Read(RunSyntax, args) IN [p EXCEPT !.ok = @ /\ p.other # <<>>]

(* "pull --" is accepted and has no specification. *)
cli_parse_pull(args) ==
    LET p == Read(PullSyntax, args) IN [p EXCEPT !.ok = @ /\ args # <<>>]

cli_parse_list(args) == Read(ListSyntax, args)

cli_parse(cmd, args) ==
    CASE cmd = "serve" -> cli_parse_serve(args)
      [] cmd = "run" -> cli_parse_run(args)
      [] cmd = "pull" -> cli_parse_pull(args)
      [] cmd = "list" -> cli_parse_list(args)
      [] OTHER -> [Unread EXCEPT !.ok = cmd # "none" /\ cmd # "unknown"]

-----------------------------------------------------------------------------
(* What cmd_run does with its options                                      *)

(* The parameters that are set: a temperature always, 0 without the        *)
(* option; the others when they were given.                                *)
run_opts_apply_sampling(p) ==
    LET given == DOMAIN p.value \ {"--max-tokens"} IN
    [o \in {"--temperature"} \cup given |->
        IF o \notin given THEN 0
        ELSE IF o \in {"--top-k", "--seed"} THEN Long[p.value[o]] ELSE Float[p.value[o]]]

(* No option, and 0, mean no limit. *)
MaxTokensOf(p) ==
    LET n == IF "--max-tokens" \in DOMAIN p.value THEN Long[p.value["--max-tokens"]] ELSE 0
    IN  IF n <= 0 THEN INT_MAX ELSE n

-----------------------------------------------------------------------------
(* The usage text as a grammar, to compare with: every argument has a role *)

Roles == {"option", "value", "flag", "end", "other"}

Fits(s, args, role) ==
    /\ \A i \in DOMAIN args :
         /\ role[i] = "value" <=> i > 1 /\ role[i - 1] = "option"
         /\ role[i] = "option" =>
               args[i] \in DOMAIN s.valued /\ i < Len(args) /\ args[i + 1] \in s.valued[args[i]]
         /\ role[i] = "flag" => args[i] \in s.flags
         /\ role[i] = "end" => s.ends /\ args[i] = "--"
         /\ role[i] = "other" =>
               args[i] \notin Dashed \/ \E j \in 1..(i - 1) : role[j] = "end"
         /\ \A j \in 1..(i - 1) : role[j] = "end" => role[i] = "other"
    /\ Cardinality({i \in DOMAIN args : role[i] = "other"}) <= s.others

(* What p says was read is what some assignment of roles says. *)
Says(s, args, role, p) ==
    LET at(r) == {i \in DOMAIN args : role[i] = r} IN
    /\ p.flags = {args[i] : i \in at("flag")}
    /\ DOMAIN p.value = {args[i] : i \in at("option")}
    /\ \A o \in DOMAIN p.value : \E i \in at("option") :
          /\ args[i] = o /\ p.value[o] = args[i + 1]
          /\ \A j \in at("option") : args[j] = o => j <= i
    /\ {p.other[i] : i \in DOMAIN p.other} = {args[i] : i \in at("other")}

Complete(cmd, args, role) ==
    /\ cmd = "serve" => \E i \in DOMAIN args : role[i] = "option" /\ args[i] = "--model"
    /\ cmd = "run" => \E i \in DOMAIN args : role[i] = "other"
    /\ cmd = "pull" => args # <<>>

(* The parser accepts the command lines of the usage text, and reads from  *)
(* them what they say.                                                     *)
AsUsage(cmd, args, p) ==
    LET s == SyntaxOf[cmd]
        readings == {role \in [DOMAIN args -> Roles] :
                        Fits(s, args, role) /\ Complete(cmd, args, role)}
    IN  IF p.ok THEN \E role \in readings : Says(s, args, role, p) ELSE readings = {}
=============================================================================
