------------------------------ MODULE Transfer ------------------------------
(***************************************************************************)
(* What the firmware transfers of this system promise: an image is copied  *)
(* to a target in order, one block at a time, every byte at most once, and *)
(* the end is told only when the whole image has been handed over.  The    *)
(* code does not repeat a block that failed, so the target may lack as     *)
(* many blocks as there were faults.                                       *)
(***************************************************************************)
EXTENDS Naturals

CONSTANTS
  Block,   \* the largest number of bytes handed over at once
  Sizes    \* the sizes of images

VARIABLES
  size,    \* size of the image being copied
  pos,     \* how much of it has been handed over
  held,    \* the bytes of it that the target holds
  told,    \* the end has been told
  faults   \* faults so far

vars == <<size, pos, held, told, faults>>

Init ==
  /\ size = 0 /\ pos = 0 /\ held = {} /\ told = FALSE /\ faults = 0

Begin(n) ==
  /\ n \in Sizes
  /\ size' = n /\ pos' = 0 /\ held' = {} /\ told' = FALSE
  /\ faults' \in {faults, faults + 1}

\* The next n bytes are handed over; if they are the last ones the end may be
\* told at once.
Hand(n) ==
  /\ n \in 1..Block /\ pos + n <= size
  /\ pos' = pos + n
  /\ told' \in {told, pos' = size}
  /\ UNCHANGED size

\* They arrive ...
Deliver(n) ==
  /\ Hand(n)
  /\ held' = held \cup pos..(pos + n - 1)
  /\ faults' \in {faults, faults + 1}

\* ... or are handed over in vain.
Miss(n) ==
  /\ Hand(n)
  /\ faults' = faults + 1
  /\ UNCHANGED held

Tell ==
  /\ pos = size
  /\ told' = TRUE
  /\ faults' \in {faults, faults + 1}
  /\ UNCHANGED <<size, pos, held>>

\* A fault that costs no byte.
Trouble ==
  /\ faults' = faults + 1
  /\ UNCHANGED <<size, pos, held, told>>

Next == \/ \E n \in Sizes : Begin(n)
        \/ \E n \in 1..Block : Deliver(n) \/ Miss(n)
        \/ Tell \/ Trouble

Spec == Init /\ [][Next]_vars
=============================================================================
