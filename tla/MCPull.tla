-------------------------------- MODULE MCPull --------------------------------
(* Instances of Pull for TLC.                                               *)
EXTENDS Pull

CONSTANTS main, v1

TwoRevs == {main, v1}

\* A commit's files are of two blocks, so that a transfer can be cut between
\* them, or of one, so that a .part of an earlier commit can be too long.
TwoOneTwo == <<2, 1, 2>>

\* One revision that moves twice, with nothing else going wrong; everything
\* going wrong with one revision, or with two that stay where they are; two
\* that move while the disk is full; two of them and nothing going wrong.
Calm    == [revs |-> {main}, commits |-> 3, sha |-> TRUE, faults |-> {}]
Hostile == [revs |-> {main}, commits |-> 2, sha |-> FALSE, faults |-> Faults]
Still   == [revs |-> TwoRevs, commits |-> 1, sha |-> FALSE, faults |-> Faults]
Moving  == [revs |-> TwoRevs, commits |-> 2, sha |-> FALSE,
            faults |-> {"moves_any_time", "disk_fills"}]
Two     == [revs |-> TwoRevs, commits |-> 2, sha |-> TRUE, faults |-> {}]

AllWorlds == {Calm, Hostile, Still, Moving}
JustTwo == {Two}

=============================================================================
