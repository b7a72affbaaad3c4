----------------------------- MODULE SerialDfu -----------------------------
(***************************************************************************)
(* The serial firmware update: int_dfu_helper.c on the ichip sends the     *)
(* image in its own flash to the bchip, whose callbacks in dfu_module_52.c *)
(* erase and write their flash.  Each step is a SIMP request; the response *)
(* callback decides on the next one.                                       *)
(*                                                                         *)
(* SIMP is seen through its promise (Rpc.tla): one request at a time, each *)
(* executed at most once and concluded by an answer, a timeout or, when    *)
(* its transmission is aborted, by nothing.                                *)
(***************************************************************************)
EXTENDS Integers, FiniteSets

CONSTANTS
  Block,      \* IMG_BLOCK_SIZE
  Page,       \* bytes in a flash page
  FlashLen,   \* bytes in the secondary slot of either chip
  Word,       \* one more than the largest uint32_t
  Sizes,      \* the sizes of images
  None,       \* no request is under way
  Fault,      \* the faults that occur: "refuse", "abort", "lose", "flash"
  MaxFaults,  \* bound: faults in all
  MaxStarts,  \* bound: updates in all
  Overlap     \* may an update be started before the last one has ended?

ASSUME SizeAssumption ==
  /\ Block \in Nat \ {0} /\ Page \in Nat \ {0} /\ FlashLen \in Nat
  /\ Word \in Nat /\ Word > FlashLen + Block
  /\ Sizes \subseteq 0..FlashLen

ASSUME BoundAssumption ==
  /\ MaxFaults \in Nat /\ MaxStarts \in Nat /\ Overlap \in BOOLEAN
  /\ Fault \subseteq {"refuse", "abort", "lose", "flash"}

VARIABLES
  size,    \* m_img_size
  offset,  \* m_img_offset
  wk,      \* wk_get_and_write_data is pending
  call,    \* the request under way, with the answer once there is one
  flash,   \* the bchip's slot: the update that wrote a byte, Blank or Mixed
  told,    \* "image transfer done" has been reached in this update
  acked,   \* the done request has been concluded
  starts,  \* updates started
  faults   \* faults so far

vars == <<size, offset, wk, call, flash, told, acked, starts, faults>>
progress == <<told, acked, starts>>

Address == 0..(FlashLen - 1)
Blank == 0
Mixed == -1

Answer == {"none", "ok", "empty"}
Call == [op : {"erase", "write", "done"}, at : 0..(Word - 1), len : 0..(Word - 1), answer : Answer]

ASSUME NoneAssumption == None \notin Call

Ask(op, at, len) == [op |-> op, at |-> at, len |-> len, answer |-> "none"]

Init ==
  /\ size = 0 /\ offset = 0 /\ wk = FALSE /\ call = None
  /\ flash = [a \in Address |-> Mixed]
  /\ told = FALSE /\ acked = FALSE /\ starts = 0 /\ faults = 0

-----------------------------------------------------------------------------
(* SIMP *)

Strike(kind) ==
  /\ kind \in Fault
  /\ faults < MaxFaults
  /\ faults' = faults + 1

\* app_cmd_request: refused while a request is under way, and while one of the
\* bchip is.  The callers ignore a refusal.
Request(r) ==
  \/ call = None /\ call' = r /\ UNCHANGED faults
  \/ call = None /\ call' = None /\ Strike("refuse")
  \/ call # None /\ UNCHANGED <<call, faults>>

\* The request or the answer is lost, or the transmission aborted.
Unanswered == call # None /\ call.answer = "none"

Abort ==
  /\ Unanswered
  /\ Strike("abort")
  /\ call' = None
  /\ UNCHANGED <<size, offset, wk, flash, progress>>

-----------------------------------------------------------------------------
(* The bchip *)

\* app_flash_write, at the level of bytes: the 0xFF that fill up the last word
\* leave the flash as it is.
Written(a) == a \in call.at..(call.at + call.len - 1)

req_cb_flash_write ==
  /\ Unanswered /\ call.op = "write"
  /\ IF call.at + call.len <= FlashLen
     THEN /\ flash' = [a \in Address |->
                         IF ~Written(a) THEN flash[a]
                         ELSE IF flash[a] = Blank THEN starts ELSE Mixed]
          /\ call' = [call EXCEPT !.answer = "ok"]
     ELSE /\ call' = [call EXCEPT !.answer = "empty"]
          /\ UNCHANGED flash
  /\ UNCHANGED <<size, offset, wk, progress, faults>>

\* app_flash_erase_page erases whole pages, at most the slot.
req_cb_flash_erase ==
  /\ Unanswered /\ call.op = "erase"
  /\ flash' = [a \in Address |-> IF a < call.len THEN Blank ELSE flash[a]]
  /\ call' = [call EXCEPT !.answer = "ok"]
  /\ UNCHANGED <<size, offset, wk, progress, faults>>

req_cb_flash_done ==
  /\ Unanswered /\ call.op = "done"
  /\ call' = [call EXCEPT !.answer = "ok"]
  /\ UNCHANGED <<size, offset, wk, flash, progress, faults>>

\* The flash driver reports an error: the answer is empty.
FlashFails ==
  /\ Unanswered /\ call.op \in {"write", "erase"}
  /\ Strike("flash")
  /\ call' = [call EXCEPT !.answer = "empty"]
  /\ UNCHANGED <<size, offset, wk, flash, progress>>

-----------------------------------------------------------------------------
(* The ichip *)

CeilDiv(a, b) == (a + b - 1) \div b

Smaller(a, b) == IF a < b THEN a ELSE b

\* startdfuprocess: a new size, and the offset as the last update left it.
startdfuprocess(n) ==
  /\ n \in Sizes
  /\ starts < MaxStarts
  /\ Overlap \/ starts = 0 \/ (acked /\ call = None)
  /\ starts' = starts + 1
  /\ size' = n
  /\ told' = FALSE /\ acked' = FALSE
  /\ Request(Ask("erase", 0, Smaller(CeilDiv(n, Page) * Page, FlashLen)))
  /\ UNCHANGED <<offset, wk, flash>>

\* Mutant: all that is left is sent at once.
wk_get_and_write_data_handle_WholeImage ==
  /\ wk
  /\ wk' = FALSE
  /\ LET len == (size - offset + Word) % Word
     IN /\ Request(Ask("write", offset, len))
        /\ offset' = (offset + len) % Word
  /\ UNCHANGED <<size, flash, progress>>

\* wk_get_and_write_data_handle: the offset moves on even if the request is
\* refused.  The difference is that of two uint32_t.
wk_get_and_write_data_handle ==
  /\ wk
  /\ wk' = FALSE
  /\ LET left == (size - offset + Word) % Word
         len == Smaller(left, Block)
     IN /\ Request(Ask("write", offset, len))
        /\ offset' = (offset + len) % Word
  /\ UNCHANGED <<size, flash, progress>>

\* Mutant: the first block follows whatever the answer to the erase is.
rsp_cb_flash_erase_AnyAnswer(how) ==
  /\ call.op = "erase"
  /\ wk' = TRUE
  /\ UNCHANGED <<offset, told, acked>>

\* rsp_cb_flash_erase goes on only if the answer is "ok".
rsp_cb_flash_erase(how) ==
  /\ call.op = "erase"
  /\ wk' = (wk \/ how = "ok")
  /\ UNCHANGED <<offset, told, acked>>

\* Mutant: the end is told one block early.
rsp_cb_flash_write_Early ==
  /\ call.op = "write"
  /\ offset' = IF offset = size THEN 0 ELSE offset
  /\ wk' = (wk \/ (offset # size /\ offset > 0))
  /\ told' = (told \/ offset + Block >= size)
  /\ UNCHANGED acked

\* Mutant: the offset is not reset at the end.
rsp_cb_flash_write_KeepsOffset ==
  /\ call.op = "write"
  /\ wk' = (wk \/ (offset # size /\ offset > 0))
  /\ told' = (told \/ offset = size)
  /\ UNCHANGED <<offset, acked>>

\* rsp_cb_flash_write does not look at the answer.  The done request, which it
\* makes at the end, is in Answered and TimedOut.
rsp_cb_flash_write ==
  /\ call.op = "write"
  /\ offset' = IF offset = size THEN 0 ELSE offset
  /\ wk' = (wk \/ (offset # size /\ offset > 0))
  /\ told' = (told \/ offset = size)
  /\ UNCHANGED acked

rsp_cb_flash_done ==
  /\ call.op = "done"
  /\ acked' = TRUE
  /\ UNCHANGED <<offset, wk, told>>

Callback(how) == rsp_cb_flash_erase(how) \/ rsp_cb_flash_write \/ rsp_cb_flash_done

Done == Ask("done", 0, 0)

AllWritten == call.op = "write" /\ offset = size

\* An answer: the chip is idle again when the callback runs, so the callback
\* may issue the done request.
Answered ==
  /\ call # None /\ call.answer # "none"
  /\ Callback(call.answer)
  /\ IF AllWritten
     THEN \/ call' = Done /\ UNCHANGED faults
          \/ call' = None /\ Strike("refuse")
     ELSE call' = None /\ UNCHANGED faults
  /\ UNCHANGED <<size, flash, starts>>

\* A timeout, because the request or its answer was lost: the callback runs
\* while the chip is still in host mode, and the done request is refused.
TimedOut ==
  /\ call # None
  /\ Strike("lose")
  /\ Callback("timeout")
  /\ call' = None
  /\ UNCHANGED <<size, flash, starts>>

-----------------------------------------------------------------------------
Next == \/ \E n \in Sizes : startdfuprocess(n)
        \/ wk_get_and_write_data_handle
        \/ req_cb_flash_write \/ req_cb_flash_erase \/ req_cb_flash_done \/ FlashFails
        \/ Answered \/ TimedOut \/ Abort

Spec == Init /\ [][Next]_vars

\* The work queues of both chips run, and SIMP delivers what is not lost.
Fairness ==
  /\ WF_vars(wk_get_and_write_data_handle)
  /\ WF_vars(req_cb_flash_write \/ req_cb_flash_erase \/ req_cb_flash_done)
  /\ WF_vars(Answered)

FairSpec == Spec /\ Fairness

-----------------------------------------------------------------------------
(* Properties *)

\* Every variable has its type: the offset stays a uint32_t and no request asks
\* for more than a block, whatever goes wrong and however updates overlap.
TypeOK ==
  /\ size \in Sizes \cup {0}
  /\ offset \in 0..(Word - 1)
  /\ wk \in BOOLEAN
  /\ call \in Call \cup {None}
  /\ call # None /\ call.op = "write" => call.len <= Block
  /\ flash \in [Address -> Mixed..MaxStarts]
  /\ told \in BOOLEAN /\ acked \in BOOLEAN
  /\ starts \in 0..MaxStarts /\ faults \in 0..MaxFaults

Image == {a \in Address : a < size}
Copied == {a \in Image : flash[a] = starts}

\* How much of the image has been handed over: the bytes of a write that is not
\* yet executed have not, and the offset is reset when the end is told.
Handed ==
  IF told THEN size
  ELSE IF Unanswered /\ call.op = "write" THEN call.at ELSE offset

\* The transfer of Transfer.tla.
AsTransfer == INSTANCE Transfer WITH pos <- Handed, held <- Copied

ImplementsTransfer == AsTransfer!Spec

\* When the end is told the bchip lacks at most one block for each fault, and
\* nothing if there was none: no block is skipped, written before the erase or
\* written twice.
GapsBounded == told => Cardinality(Image \ Copied) <= Block * faults

\* Without faults every update ends with the answer to the done request.
Completes == [](faults = 0) => (starts > 0 /\ ~acked ~> acked)

\* int_dfu_helper.c:147 says of the answer to a write "response contains: ok":
\* when the callback has got the last one, "image transfer done", the bchip
\* holds the image.
DoneMeansWritten == told => Copied = Image
=============================================================================
