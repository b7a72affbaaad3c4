----------------------------- MODULE MCUartDrv -----------------------------
(* The receive buffers of one UART, for TLC. *)
EXTENDS UartDrv, TLC

CONSTANTS b1, b2, b3, b4

MCBlock == {b1, b2, b3, b4}

\* Nothing tells one block of the slab from another.
MCSymmetry == Permutations(MCBlock)
=============================================================================
