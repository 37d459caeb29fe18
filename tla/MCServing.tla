----------------------------- MODULE MCServing -----------------------------
(* Instances of Serving for TLC.                                           *)
EXTENDS Serving

CONSTANTS r1, r2

OneReq == {r1}
TwoReqs == {r1, r2}
AllModes == {"chat", "chat_usage", "completion", "json"}
Symmetry == Permutations(Reqs)

(* With no tokens nothing depends on what was received: states that differ *)
(* only in got have the same future.                                       *)
WithoutHistory ==
    <<q, cancelled, refs, on_push, cb, phase, shutdown, connection, request, server>>
=============================================================================
