--------------------------- MODULE MCStreamRing ---------------------------
(* StreamRing with a ring of two slots and three pushes: the write index   *)
(* wraps, the ring is full while the producer still has a chunk to send.   *)
EXTENDS StreamRing

MCCap == 2
MCMaxPush == 3
=============================================================================
