------------------------------ MODULE UartDrv ------------------------------
(***************************************************************************)
(* The receive buffers of uart_drv.c: a slab of NumBuf blocks, block_list, *)
(* where the code writes down which slot holds which block, and the UART   *)
(* hardware (the vendor's asynchronous driver), which fills one block,     *)
(* keeps a second one ready and asks for and gives back blocks through     *)
(* uart_callback.                                                          *)
(*                                                                         *)
(* No code takes a block for the application (in_use_app stays 0), so a    *)
(* block is free as soon as the UART releases it and the two flags are     *)
(* left out.                                                               *)
(***************************************************************************)
EXTENDS Integers, FiniteSets

CONSTANTS
  Block,         \* the memory blocks of uart_slab
  NumBuf,        \* UART_RX_BUF_NUM, the slots of block_list
  None,          \* no block, NULL
  RequestFirst,  \* does the hardware ask for a block before it gives one back?
  MaxStops,      \* bound: receive errors
  MaxDown        \* bound: calls of uart_uninit

ASSUME BlockAssumption ==
  /\ IsFiniteSet(Block)
  /\ None \notin Block
  /\ NumBuf \in 3..250
  /\ Cardinality(Block) = NumBuf

ASSUME ModeAssumption ==
  /\ RequestFirst \in BOOLEAN
  /\ MaxStops \in Nat
  /\ MaxDown \in Nat

VARIABLES
  list,       \* buffer_ptr of each slot of block_list
  stray,      \* the pointer last written beyond the end of block_list
  count,      \* block_count
  freeEntry,  \* free_entry
  free,       \* the free blocks of uart_slab
  rxState,    \* the hardware: "off", "on" or "stopping"
  cur,        \* the block it fills
  nxt,        \* the block it will fill next
  old,        \* the block it has filled and still has to give back
  timer,      \* x_uart_renable_timer runs
  up,         \* between uart_init and uart_uninit
  assert,     \* the first __ASSERT that failed: "none", "slab" or "enable"
  stops,      \* receive errors so far
  downs       \* calls of uart_uninit so far

registry == <<list, stray, count, freeEntry, free>>
hardware == <<rxState, cur, nxt, old>>
vars == <<registry, hardware, timer, up, assert, stops, downs>>

Slot == 0..(NumBuf - 1)

\* OOB_INDX is one past UART_RX_BUF_NUM.
OOB_INDX == NumBuf + 1

\* free_entry is a uint8_t: what -1 becomes when it is stored.
MinusOne == 255

Optional == Block \cup {None}

Registered(l) == {l[i] : i \in Slot} \ {None}

Init ==
  /\ list = [i \in Slot |-> None]
  /\ stray = None
  /\ count = 0
  /\ freeEntry = OOB_INDX
  /\ free = Block
  /\ rxState = "off" /\ cur = None /\ nxt = None /\ old = None
  /\ timer = FALSE
  /\ up = FALSE
  /\ assert = "none"
  /\ stops = 0 /\ downs = 0

-----------------------------------------------------------------------------
(* The operations on the registry *)

\* Mutant: stores -1, as reset_memory_slab does.
get_buffer_Minus(l, n, e, f, b) ==
  LET idx == IF e # OOB_INDX THEN e ELSE n IN
  /\ b \in IF f = {} THEN {None} ELSE f
  /\ list' = [i \in Slot |-> IF i = idx THEN b ELSE l[i]]
  /\ stray' = IF idx \in Slot THEN stray ELSE b
  /\ count' = (n + 1) % 256
  /\ freeEntry' = -1
  /\ free' = f \ {b}

\* get_buffer from the registry l, n, e, f: b is the block it returns, which
\* is None when the slab is empty and the assertion fails.  A slot beyond the
\* end of block_list is other memory.
get_buffer(l, n, e, f, b) ==
  LET idx == IF e # OOB_INDX THEN e ELSE n IN
  /\ b \in IF f = {} THEN {None} ELSE f
  /\ list' = [i \in Slot |-> IF i = idx THEN b ELSE l[i]]
  /\ stray' = IF idx \in Slot THEN stray ELSE b
  /\ count' = (n + 1) % 256
  /\ freeEntry' = OOB_INDX
  /\ free' = f \ {b}

\* Mutant: the pointer stays in its slot.
release_buffer_KeepsPointer(b) ==
  IF b \in Registered(list)
  THEN LET found == CHOOSE i \in Slot : list[i] = b IN
       /\ count' = (count + 255) % 256
       /\ freeEntry' = found
       /\ free' = free \cup {b}
       /\ UNCHANGED <<list, stray>>
  ELSE UNCHANGED registry

\* Mutant: the free slot is not remembered.
release_buffer_ForgetsEntry(b) ==
  IF b \in Registered(list)
  THEN LET found == CHOOSE i \in Slot : list[i] = b IN
       /\ list' = [list EXCEPT ![found] = None]
       /\ count' = (count + 255) % 256
       /\ free' = free \cup {b}
       /\ UNCHANGED <<freeEntry, stray>>
  ELSE UNCHANGED registry

\* Mutant: the block is not given back to the slab.
release_buffer_Leaks(b) ==
  IF b \in Registered(list)
  THEN LET found == CHOOSE i \in Slot : list[i] = b IN
       /\ list' = [list EXCEPT ![found] = None]
       /\ count' = (count + 255) % 256
       /\ freeEntry' = found
       /\ UNCHANGED <<free, stray>>
  ELSE UNCHANGED registry

\* release_buffer called by the UART: a block that is in no slot stays taken.
\* (The code takes the first slot that holds it; NoDuplicate: there is one.)
release_buffer(b) ==
  IF b \in Registered(list)
  THEN LET found == CHOOSE i \in Slot : list[i] = b IN
       /\ list' = [list EXCEPT ![found] = None]
       /\ count' = (count + 255) % 256
       /\ freeEntry' = found
       /\ free' = free \cup {b}
       /\ UNCHANGED stray
  ELSE UNCHANGED registry

\* reset_memory_slab frees the blocks that are in a slot; what follows in the
\* same call starts from these values.
EmptyList == [i \in Slot |-> None]
FreedAll == free \cup Registered(list)

\* uart_rx_enable: refused, and an assertion fails, while reception is on.
rx_enable(b) ==
  IF b # None /\ rxState = "off"
  THEN /\ rxState' = "on" /\ cur' = b /\ nxt' = None /\ old' = None
       /\ UNCHANGED assert
  ELSE /\ assert' = IF b = None THEN "slab" ELSE "enable"
       /\ UNCHANGED hardware

-----------------------------------------------------------------------------
(* Calls of the application *)

uart_init ==
  /\ assert = "none"
  /\ ~up
  /\ rxState # "stopping"
  /\ up' = TRUE
  /\ \E b \in Optional : get_buffer(EmptyList, count, freeEntry, free, b) /\ rx_enable(b)
  /\ UNCHANGED <<timer, stops, downs>>

\* uart_rx_disable only asks the hardware to stop; the slab is reset at once.
uart_uninit ==
  /\ assert = "none"
  /\ up
  /\ downs < MaxDown
  /\ downs' = downs + 1
  /\ up' = FALSE
  /\ rxState' = IF rxState = "on" THEN "stopping" ELSE rxState
  /\ list' = EmptyList
  /\ count' = 0
  /\ freeEntry' = MinusOne
  /\ free' = FreedAll
  /\ UNCHANGED <<stray, cur, nxt, old, timer, assert, stops>>

-----------------------------------------------------------------------------
(* uart_callback, and the hardware that calls it *)

\* The current block is full, or its data has been handed over: the hardware
\* goes on with the next one.
Fill ==
  /\ assert = "none"
  /\ rxState = "on" /\ nxt # None /\ old = None
  /\ old' = cur /\ cur' = nxt /\ nxt' = None
  /\ UNCHANGED <<registry, rxState, timer, up, assert, stops, downs>>

\* UART_RX_BUF_REQUEST
BufRequest ==
  /\ assert = "none"
  /\ rxState = "on" /\ nxt = None
  /\ RequestFirst \/ old = None
  /\ \E b \in Optional :
       /\ get_buffer(list, count, freeEntry, free, b)
       /\ nxt' = b
       /\ assert' = IF b = None THEN "slab" ELSE assert
  /\ UNCHANGED <<rxState, cur, old, timer, up, stops, downs>>

\* UART_RX_BUF_RELEASED for a block that has been filled ...
BufReleased ==
  /\ assert = "none"
  /\ old # None
  /\ RequestFirst => nxt # None \/ rxState = "stopping"
  /\ release_buffer(old)
  /\ old' = None
  /\ UNCHANGED <<rxState, cur, nxt, timer, up, assert, stops, downs>>

\* ... and for the others once reception stops.
BufReturned ==
  /\ assert = "none"
  /\ rxState = "stopping" /\ old = None /\ cur # None
  /\ release_buffer(cur)
  /\ cur' = nxt /\ nxt' = None
  /\ UNCHANGED <<rxState, old, timer, up, assert, stops, downs>>

RxStoppedForGood ==
  /\ assert = "none"
  /\ rxState = "on"
  /\ stops < MaxStops
  /\ stops' = stops + 1
  /\ rxState' = "stopping"
  /\ UNCHANGED <<registry, cur, nxt, old, timer, up, assert, downs>>

\* UART_RX_STOPPED: a line error; uart_callback starts the timer.
RxStopped ==
  /\ assert = "none"
  /\ rxState = "on"
  /\ stops < MaxStops
  /\ stops' = stops + 1
  /\ rxState' = "stopping"
  /\ timer' = TRUE
  /\ UNCHANGED <<registry, cur, nxt, old, up, assert, downs>>

\* UART_RX_DISABLED: all blocks have been given back.
RxDisabled ==
  /\ assert = "none"
  /\ rxState = "stopping" /\ cur = None /\ old = None
  /\ rxState' = "off"
  /\ UNCHANGED <<registry, cur, nxt, old, timer, up, assert, stops, downs>>

\* update_expiry_function, two seconds after the error, long after reception
\* has stopped: uart_renable resets the slab and enables reception again.
Renable ==
  /\ assert = "none"
  /\ timer
  /\ rxState # "stopping"
  /\ timer' = FALSE
  /\ \E b \in Optional :
       get_buffer(EmptyList, 0, MinusOne, FreedAll, b) /\ rx_enable(b)
  /\ UNCHANGED <<up, stops, downs>>

-----------------------------------------------------------------------------
Next == \/ uart_init \/ uart_uninit
        \/ Fill \/ BufRequest \/ BufReleased \/ BufReturned
        \/ RxStopped \/ RxDisabled \/ Renable

Spec == Init /\ [][Next]_vars

\* The hardware finishes what it has begun and the timer expires.
Fairness ==
  /\ WF_vars(BufRequest)
  /\ WF_vars(BufReleased)
  /\ WF_vars(BufReturned)
  /\ WF_vars(RxDisabled)
  /\ WF_vars(Renable)

FairSpec == Spec /\ Fairness

-----------------------------------------------------------------------------
(* Properties *)

Held == {cur, nxt, old} \ {None}

\* No block is in two slots.
NoDuplicate ==
  \A i, j \in Slot : list[i] = list[j] /\ list[i] # None => i = j

\* Every variable has its type: no counter leaves its byte and the hardware
\* never holds anything but blocks of the slab.
TypeOK ==
  /\ list \in [Slot -> Optional]
  /\ stray \in Optional
  /\ count \in 0..255
  /\ freeEntry \in 0..255
  /\ free \subseteq Block
  /\ rxState \in {"off", "on", "stopping"}
  /\ cur \in Optional /\ nxt \in Optional /\ old \in Optional
  /\ timer \in BOOLEAN /\ up \in BOOLEAN
  /\ assert \in {"none", "slab", "enable"}
  /\ stops \in Nat /\ downs \in Nat

\* The hardware never writes into a block that the slab could hand out, and no
\* block is handed out twice, also after receive errors, whose restart loses
\* track of blocks.  (uart_uninit frees blocks that are still in use.)
Ownership ==
  /\ NoDuplicate
  /\ Registered(list) \cap free = {}
  /\ downs = 0 =>
    /\ Held \cap free = {}
    /\ cur # None => cur \notin {nxt, old}
    /\ nxt # None => nxt # old

\* As long as there was no error and no restart, the two counters by which the
\* code finds a slot keep block_list exact: it holds the blocks of the hardware
\* and no others, every other block is free, and block_count counts them.
RegistryExact ==
  stops = 0 /\ downs = 0 =>
    /\ Registered(list) = Held
    /\ free = Block \ Held
    /\ count = Cardinality(Held)
    /\ stray = None

\* With a block more than the hardware holds at once, as uart_drv.c:14-15 asks
\* for, a request for a block is met.
RequestMet == stops = 0 /\ downs = 0 => assert = "none"

\* A restart loses at most the one block it writes beyond block_list.
LeakBounded ==
  downs = 0 => Cardinality(Block \ (free \cup Registered(list))) <= stops

\* After an error reception comes back, unless it is shut down.
ReceptionResumes ==
  rxState = "stopping" ~> (rxState = "on" /\ nxt # None) \/ downs > 0

\* uart_drv.c:273 asserts that the slab has a block for get_buffer.
AllocSucceeds == assert # "slab"
=============================================================================
