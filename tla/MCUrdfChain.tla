---------------------------- MODULE MCUrdfChain ----------------------------
(***************************************************************************)
(* Every list of up to four joints between four links.                    *)
(***************************************************************************)
EXTENDS UrdfChain

MCLinks  == {"a", "b", "c", "d"}
MCInputs == UNION {[1..n -> Joint] : n \in 0..4}
=============================================================================
