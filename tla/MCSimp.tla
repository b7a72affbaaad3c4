------------------------------- MODULE MCSimp -------------------------------
(* Two chips joined by a UART link, for TLC. *)
EXTENDS Simp, TLC

CONSTANTS bchip, ichip, main, work

MCChip == {bchip, ichip}
MCPeer == [c \in MCChip |-> IF c = bchip THEN ichip ELSE bchip]

\* The chips run the same code, and so do the threads: sound where both chips
\* are hosts, both threads exist and only safety is checked.
MCSymmetry == Permutations({bchip, ichip}) \cup Permutations({main, work})
=============================================================================
