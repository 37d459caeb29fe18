------------------------------ MODULE MCEngine ------------------------------
(* Instances of Engine for TLC; each configuration picks the requests, the *)
(* loads, the commands and the inputs.                                     *)
EXTENDS Engine

CONSTANTS r1, l1

OneReq == {r1}
OneLoad == {l1}

(* Nothing to generate, a decode of two tokens, a prefill of two chunks,   *)
(* a prompt longer than MaxPos = 3, and for the stub a truncated echo.     *)
ManyInputs == {[n |-> 0, max |-> 1], [n |-> 1, max |-> 1], [n |-> 1, max |-> 2],
               [n |-> 3, max |-> 1], [n |-> 4, max |-> 0]}
OneInput == {[n |-> 1, max |-> 1]}

(* The state the engine is in once an earlier load has ended.              *)
LoadedInit ==
    /\ StreamsInit
    /\ mailbox = <<>> /\ mailbox_mtx = None /\ batch = <<>>
    /\ shutdown = FALSE /\ inflight = None
    /\ \/ load_state = "OK" /\ load_error = FALSE /\ model \in {"stub", "real"}
       \/ load_state = "FAILED" /\ load_error = TRUE /\ model = "none"
    /\ pc = "loop" /\ cur = None /\ pos = 0 /\ emitted = 0 /\ reason = "stop"
    /\ input \in [Reqs -> Inputs]
    /\ post = [r \in Reqs |-> "none"]
    /\ client = [r \in Reqs |-> "none"]
    /\ withdrawn = {}
    /\ path \in [Loads -> {"stub", "good", "bad"}]
    /\ loader = [l \in Loads |-> "none"]
    /\ handled = {}
    /\ misc \in SUBSET Misc
    /\ stopper = "idle"

(* Every kind of request against a fresh engine with nothing but a load;   *)
(* the least one beside a stop or an embed, on a loaded engine beside a    *)
(* reclaim or an unload, or beside an unload after a load that failed.     *)
AnyInit ==
    \/ Init /\ misc = {}
    \/ /\ Init /\ misc \in {{"STOP"}, {"EMBED"}}
       /\ input \in [Reqs -> OneInput]
    \/ /\ LoadedInit /\ misc \in {{"RECLAIM"}, {"UNLOAD"}}
       /\ load_state = "FAILED" => misc = {"UNLOAD"}
       /\ input \in [Reqs -> OneInput]

AnySpec == AnyInit /\ [][Next]_vars /\ Fairness

=============================================================================
