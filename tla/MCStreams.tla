----------------------------- MODULE MCStreams -----------------------------
(***************************************************************************)
(* Two calls, on two threads of the server or one after the other on one.  *)
(***************************************************************************)
EXTENDS Streams

MCCalls   == {"c1", "c2"}
MCWorkers == {"w1", "w2"}
=============================================================================
