-------------------------- MODULE MCSharedOverflow --------------------------
(***************************************************************************)
(* Instances of SharedOverflow for TLC: one encoder and two decoders on    *)
(* one goroutine, or a decoder and an encoder on a goroutine each.         *)
(***************************************************************************)
EXTENDS SharedOverflow

CONSTANTS e1, d1, d2, g1, g2

AllOnOne == [s \in {e1, d1, d2} |-> g1]

OneEach == [s \in {e1, d1} |-> IF s = e1 THEN g1 ELSE g2]
=============================================================================
