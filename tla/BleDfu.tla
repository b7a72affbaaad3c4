------------------------------- MODULE BleDfu -------------------------------
(***************************************************************************)
(* The update over Bluetooth: BDUNK sends an image, packet by packet, to   *)
(* the bchip (dfu_module_52.c, main.c), which collects a block and either  *)
(* writes it to its own slot or has the ichip write it (int_dfu_helper.c). *)
(*                                                                         *)
(* Three activities of the bchip are interleaved: the Bluetooth thread     *)
(* (Rx...), the system work queue (Wk...), which also runs the callbacks   *)
(* of SIMP, and the timer interrupt of SIMP.  SIMP is seen request by      *)
(* request; Simp.tla has its details.                                      *)
(***************************************************************************)
EXTENDS AppFlash, Bdunk, FiniteSets, SequencesExt

CONSTANTS
  Block,      \* IMG_BLOCK_SIZE
  UInt32,     \* one more than the largest uint32_t
  None,       \* no request is under way
  Fault,      \* the faults that occur
  MaxFaults,  \* bound: faults in all
  MaxStarts,  \* bound: starts of BDUNK
  Untimely    \* may a connection be made while the bchip is not ready for it?

ASSUME BlockAssumption ==
  /\ Block \in Nat \ {0} /\ Block % Packet = 0 /\ Block % Word = 0
  /\ UInt32 \in Nat /\ UInt32 > SlotLen + Block
  /\ \A n \in Sizes : n <= SlotLen

ASSUME BoundAssumption ==
  /\ MaxFaults \in Nat /\ MaxStarts \in Nat /\ Untimely \in BOOLEAN
  /\ Fault \subseteq {"drop", "notify", "flash", "refuse", "lose", "abort", "stale"}

VARIABLES
  c,        \* BDUNK
  conn,     \* the link is up
  toC,      \* notifications on their way to BDUNK
  toB,      \* packets on their way to the bchip
  b,        \* the statics of dfu_module_52.c
  phase,    \* of the bchip: see Phase
  wq,       \* its system work queue
  call,     \* the SIMP request of the bchip under way, with its answer
  slave,    \* the request of the ichip that the bchip is serving, or "none"
  slot52,   \* the secondary slot of the bchip
  slot91,   \* that of the ichip
  flag52,   \* the mcuboot flag of slot52 has been set since the last image began
  job,      \* the image that the bchip was last told to expect
  put,      \* the addresses at which bytes of it were programmed
  told,     \* its end was told to BDUNK
  heard,    \* the end of the last one for the 91 was told to the ichip
  starts,   \* starts of BDUNK
  faults    \* faults so far

link == <<c, conn, toC, toB>>
chip == <<b, phase, wq>>
simp == <<call, slave>>
flash == <<slot52, slot91, flag52>>
history == <<job, put, told, heard, starts>>
vars == <<link, chip, simp, flash, history, faults>>

Byte == (0..MaxStarts) \X Chip \X (0..(SlotLen - 1))

\* An image that was sent in no start of BDUNK.
OtherImage == [a \in Address |-> <<0, "52", a>>]

\* The work queue of the bchip sleeps before it cuts the link, or until the link
\* has new parameters, when it asks for data or, after a failed erase, does not.
Sleeps == {"cutting", "asking", "waiting"}

Phase == {"boot", "ready", "halted"} \cup Sleeps

Running == phase \in {"ready"} \cup Sleeps
Work == {"info", "update", "flag", "rsp", "req"}

Statics ==
  [bufLen |-> 0, off |-> 0, size |-> 0, type |-> "52", at |-> 0, len |-> 0,
   buf |-> [i \in 1..Block |-> Blank], avail52 |-> 0, avail91 |-> 0]

NoJob == [chip |-> "52", size |-> 0, id |-> 0, blank |-> TRUE]

Off == [Launched(0, "52", 0, 0, FALSE) EXCEPT !.status = "off"]

Init ==
  /\ c = Off /\ conn = FALSE /\ toC = <<>> /\ toB = <<>>
  /\ b = Statics /\ phase = "boot" /\ wq = <<>>
  /\ call = None /\ slave = "none"
  /\ slot52 \in {OtherImage, [a \in Address |-> Blank]}
  /\ slot91 = [a \in Address |-> Mixed]
  /\ flag52 = FALSE /\ job = NoJob /\ put = {} /\ told = FALSE /\ heard = FALSE
  /\ starts = 0 /\ faults = 0

-----------------------------------------------------------------------------
(* What the functions of the bchip are made of *)

Strike(kind) ==
  /\ kind \in Fault
  /\ faults < MaxFaults
  /\ faults' = faults + 1

\* ble_send_req and send_deviceinfo: nobody looks at the result.
Sent(p) == IF conn THEN Append(toC, p) ELSE toC

Notify(p) ==
  \/ toC' = Sent(p) /\ UNCHANGED faults
  \/ conn /\ Strike("notify") /\ UNCHANGED toC

\* k_work_submit; a pending item stays where it is.
Submit(work) == wq' = IF work \in ToSet(wq) THEN wq ELSE Append(wq, work)

Idle == call = None /\ slave = "none"

Ask(op, at, bytes) == [op |-> op, at |-> at, bytes |-> bytes, answer |-> "none"]

\* app_cmd_request: refused unless the mode is idle, which a request of the
\* ichip may have changed.  The frame is built at once, so the block may be
\* overwritten afterwards.  The callers ignore a refusal.
app_cmd_request(r) ==
  \/ call' = (IF Idle THEN r ELSE call) /\ UNCHANGED faults
  \/ Idle /\ Strike("refuse") /\ UNCHANGED call

CeilDiv(m, n) == (m + n - 1) \div n

cmd_request_flash_erase(size) == app_cmd_request(Ask("erase", CeilDiv(size, Page), <<>>))
cmd_request_flash_write(at, bytes) == app_cmd_request(Ask("write", at, bytes))

-----------------------------------------------------------------------------
(* The Bluetooth thread: nus_received_cb_handler, one action for each packet *)

\* The chip takes a packet from the link.
Rx(op) ==
  /\ Running
  /\ toB # <<>> /\ Head(toB).op = op
  /\ toB' = Tail(toB)
  /\ UNCHANGED <<c, conn, phase>>

\* retrieve_dev_info: the own size is read, that of the ichip is asked for.
retrieve_dev_info ==
  /\ b' = [b EXCEPT !.avail52 = app_flash_get_DevInf]
  /\ IF b.avail91 = 0 THEN app_cmd_request(Ask("devinf", 0, <<>>)) /\ UNCHANGED toC
     ELSE Notify(DevInf(b.avail91, app_flash_get_DevInf)) /\ UNCHANGED call

RxStart ==
  /\ Rx("start")
  /\ retrieve_dev_info
  /\ UNCHANGED <<wq, slave, flash, history>>

\* The size and the type are stored; neither the offset nor what has been
\* collected is reset.
Expecting(size, what) ==
  [b EXCEPT !.size = size, !.type = IF what = "52" THEN "52" ELSE "91"]

RxInfo ==
  /\ Rx("info")
  /\ LET p == Head(toB)
     IN /\ b' = Expecting(p.size, p.what)
        /\ IF p.what = "52" THEN Submit("info") /\ UNCHANGED <<call, faults>>
           ELSE cmd_request_flash_erase(p.size) /\ UNCHANGED wq
        /\ job' = [chip |-> b'.type, size |-> p.size, id |-> p.id,
                   blank |-> \A a \in 0..(p.size - 1) : slot52[a] = Blank]
  /\ put' = {} /\ told' = FALSE /\ flag52' = FALSE
  /\ heard' = (heard /\ b'.type = "52")
  /\ UNCHANGED <<toC, slave, slot52, slot91, starts>>

Cleared == [b EXCEPT !.bufLen = 0, !.off = 0, !.size = 0]

RxSelf ==
  /\ Rx("self")
  /\ b' = Cleared /\ Notify(Plain("selfstart"))
  /\ UNCHANGED <<wq, simp, flash, history>>

RxDone ==
  /\ Rx("done")
  /\ b' = Cleared
  /\ UNCHANGED <<toC, wq, simp, flash, history, faults>>

\* Mutant: every packet is copied to the start of the block.
Collected_AtStart(bytes) ==
  [i \in 1..Block |-> IF i <= Len(bytes) THEN bytes[i] ELSE b.buf[i]]

\* memcpy to m_cmd_buffer, behind what has been collected.
Collected(bytes) ==
  [i \in 1..Block |-> IF i \in (b.bufLen + 1)..(b.bufLen + Len(bytes))
                      THEN bytes[i - b.bufLen] ELSE b.buf[i]]

\* The first n bytes; behind the block lies other memory.
Bytes(buf, n) == [i \in 1..n |-> IF i <= Block THEN buf[i] ELSE Mixed]

\* Mutant: buffer_len is not reset when a block is complete.
BlockDone_KeepsLength(buf, n) ==
  [b EXCEPT !.buf = buf, !.bufLen = n, !.at = b.off, !.len = n, !.off = (b.off + n) % UInt32]

\* Mutant: the offset moves on by a whole block, whatever the block holds.
BlockDone_ByBlock(buf, n) ==
  [b EXCEPT !.buf = buf, !.bufLen = 0, !.at = b.off, !.len = n, !.off = (b.off + Block) % UInt32]

\* A whole block: the header is filled in, and the next begins behind it.
BlockDone(buf, n) ==
  [b EXCEPT !.buf = buf, !.bufLen = 0, !.at = b.off, !.len = n, !.off = (b.off + n) % UInt32]

\* Mutant: the next packet is asked for before the block is written.
HandOver_AsksNext(buf, n) ==
  /\ IF b.type = "91" THEN cmd_request_flash_write(b.off, Bytes(buf, n)) /\ UNCHANGED wq
     ELSE Submit("update") /\ UNCHANGED <<call, faults>>
  /\ toC' = Sent(Plain("get"))

HandOver(buf, n) ==
  /\ IF b.type = "91" THEN cmd_request_flash_write(b.off, Bytes(buf, n)) /\ UNCHANGED wq
     ELSE Submit("update") /\ UNCHANGED <<call, faults>>
  /\ UNCHANGED toC

\* A packet of the image.  The difference is that of two uint32_t.
RxData ==
  /\ Rx("data")
  /\ LET bytes == Head(toB).bytes
         buf == Collected(bytes)
         n == b.bufLen + Len(bytes)
     IN IF n = Block \/ n = (b.size - b.off + UInt32) % UInt32
        THEN b' = BlockDone(buf, n) /\ HandOver(buf, n)
        ELSE /\ b' = [b EXCEPT !.buf = buf, !.bufLen = n]
             /\ Notify(Plain("get"))
             /\ UNCHANGED <<wq, call>>
  /\ UNCHANGED <<slave, flash, history>>

\* An empty write, by which BDUNK answers what it does not know.  The first byte
\* of nothing is whatever the receive buffer held: mostly no op code ...
RxEmpty ==
  /\ Rx("empty")
  /\ UNCHANGED <<toC, b, wq, simp, flash, history, faults>>

\* ... but it may be taken for any packet.  As data it has 65535 bytes, which are
\* copied over the memory behind the block.
RxStale ==
  /\ Running
  /\ toB # <<>> /\ Head(toB).op = "empty" /\ toB' = Tail(toB)
  /\ Strike("stale")
  /\ \/ /\ b' = [b EXCEPT !.avail52 = app_flash_get_DevInf]
        /\ toC' = (IF b.avail91 = 0 THEN toC ELSE Sent(DevInf(b.avail91, b'.avail52)))
        /\ call' = (IF b.avail91 = 0 /\ Idle THEN Ask("devinf", 0, <<>>) ELSE call)
        /\ UNCHANGED <<phase, wq>>
     \/ /\ \E n \in Sizes : b' = Expecting(n, "52")
        /\ Submit("info")
        /\ UNCHANGED <<phase, toC, call>>
     \/ /\ b' = Cleared /\ toC' = Sent(Plain("selfstart"))
        /\ UNCHANGED <<phase, wq, call>>
     \/ /\ phase' = "halted"
        /\ UNCHANGED <<b, toC, wq, call>>
  /\ UNCHANGED <<c, conn, slave, flash, history>>

-----------------------------------------------------------------------------
(* SIMP and the ichip *)

Unanswered == call # None /\ call.answer = "none"

Answer(op, ok) ==
  /\ Unanswered /\ call.op = op
  /\ call' = [call EXCEPT !.answer = IF ok THEN "ok" ELSE "empty"]
  /\ UNCHANGED <<link, chip, slave, slot52, flag52, job, told, starts>>

\* req_dev_fwinfo92 of the ichip.
req_dev_fwinfo92 == Answer("devinf", TRUE) /\ UNCHANGED <<slot91, put, heard, faults>>

\* req_cb_flash_erase of the ichip.
req_cb_flash_erase ==
  \/ LET r == app_flash_erase_page(slot91, 0, call.at)
     IN /\ Answer("erase", r.ok)
        /\ slot91' = r.slot
        /\ UNCHANGED <<put, heard, faults>>
  \/ Answer("erase", FALSE) /\ Strike("flash") /\ UNCHANGED <<slot91, put, heard>>

\* The addresses that a write changes.
Span(at, n) == at..(at + n - 1)

\* req_cb_flash_write of the ichip.
req_cb_flash_write ==
  \/ LET r == app_flash_write(slot91, call.at, call.bytes)
     IN /\ Answer("write", r.ok)
        /\ slot91' = r.slot
        /\ put' = IF r.ok THEN put \cup Span(call.at, Len(call.bytes)) ELSE put
        /\ UNCHANGED <<heard, faults>>
  \/ Answer("write", FALSE) /\ Strike("flash") /\ UNCHANGED <<slot91, put, heard>>

\* req_cb_flash_done of the ichip, whose event handler then sets the mcuboot flag.
req_cb_flash_done ==
  /\ Answer("done", TRUE)
  /\ heard' = TRUE
  /\ UNCHANGED <<slot91, put, faults>>

\* on_uart_rx_ready and on_cmd_receive_complete: the response is there, the timer
\* is stopped and the work item submitted.
Responded ==
  /\ call # None /\ call.answer # "none" /\ "rsp" \notin ToSet(wq)
  /\ Running
  /\ Submit("rsp")
  /\ UNCHANGED <<link, b, phase, simp, flash, history, faults>>

\* UART_TX_ABORTED: the request is forgotten and no callback called.
TxAborted ==
  /\ Unanswered
  /\ Strike("abort")
  /\ call' = None
  /\ UNCHANGED <<link, chip, slave, flash, history>>

\* Nothing is under way, and nothing is left over from a transfer that broke off.
Quiet ==
  phase = "ready" /\ wq = <<>> /\ Idle /\ b.bufLen = 0 /\ b.off = 0

\* The ichip asks for device information, or tells the end of a serial update,
\* which has rewritten the slot of the bchip (SerialDfu.tla).  During an update
\* over Bluetooth its requests only matter as refusals of those of the bchip.
IchipAsks(op) ==
  /\ phase = "ready" /\ Idle
  /\ Untimely \/ (Quiet /\ ~conn)
  /\ slave' = op
  /\ Submit("req")
  /\ IF op = "done"
     THEN /\ slot52' = OtherImage
          /\ job' = NoJob /\ put' = {} /\ told' = FALSE /\ heard' = FALSE /\ flag52' = FALSE
     ELSE UNCHANGED <<slot52, flag52, job, put, told, heard>>
  /\ UNCHANGED <<link, b, phase, call, slot91, starts, faults>>

-----------------------------------------------------------------------------
(* The work queue of the bchip *)

Wk(work) ==
  /\ phase = "ready"
  /\ wq # <<>> /\ Head(wq) = work
  /\ UNCHANGED <<c, conn, toB>>

\* Mutant: an image that fills the slot is refused.
wk_self_info_handler_Strict ==
  /\ Wk("info")
  /\ wq' = Tail(wq)
  /\ phase' = IF b.avail52 <= b.size THEN "ready" ELSE "asking"
  /\ UNCHANGED <<toC, b, simp, flash, history, faults>>

\* wk_self_info_handler.  The slot is not erased.
wk_self_info_handler ==
  /\ Wk("info")
  /\ wq' = Tail(wq)
  /\ phase' = IF b.avail52 < b.size THEN "ready" ELSE "asking"
  /\ UNCHANGED <<toC, b, simp, flash, history, faults>>

\* update_bluetooth_params returns, in time or not, to the one that called it.
update_bluetooth_params ==
  /\ phase \in {"asking", "waiting"}
  /\ phase' = "ready"
  /\ IF phase = "asking" THEN Notify(Plain("get")) ELSE UNCHANGED <<toC, faults>>
  /\ UNCHANGED <<c, conn, toB, b, wq, simp, flash, history>>

\* A work item is submitted by the one that is running.
SubmitNext(work) == wq' = IF work \in ToSet(Tail(wq)) THEN Tail(wq) ELSE Append(Tail(wq), work)

\* dfu_file_ready, from either channel; then the offset is reset if it was Bluetooth.
dfu_file_ready(off) ==
  /\ b' = [b EXCEPT !.type = "52", !.off = off]
  /\ SubmitNext("flag")

\* Mutant: after an error the transfer goes on.
wk_self_update_handler_GoesOn ==
  /\ Wk("update")
  /\ UNCHANGED <<phase, simp, slot91, flag52, job, heard, starts>>
  /\ LET r == app_flash_write(slot52, b.at, Bytes(b.buf, b.len))
     IN /\ \/ /\ slot52' = r.slot /\ UNCHANGED faults
              /\ put' = IF r.ok THEN put \cup Span(b.at, b.len) ELSE put
           \/ Strike("flash") /\ UNCHANGED <<slot52, put>>
        /\ IF b.off = b.size
           THEN toC' = Sent(Plain("success")) /\ told' = TRUE /\ dfu_file_ready(0)
           ELSE toC' = Sent(Plain("get")) /\ wq' = Tail(wq) /\ UNCHANGED <<b, told>>

\* wk_self_update_handler: after an error the transfer just ends.
wk_self_update_handler ==
  /\ Wk("update")
  /\ UNCHANGED <<phase, simp, slot91, flag52, job, heard, starts>>
  /\ LET r == app_flash_write(slot52, b.at, Bytes(b.buf, b.len))
     IN \/ /\ r.ok
           /\ slot52' = r.slot /\ put' = put \cup Span(b.at, b.len)
           /\ IF b.off = b.size
              THEN Notify(Plain("success")) /\ told' = TRUE /\ dfu_file_ready(0)
              ELSE Notify(Plain("get")) /\ wq' = Tail(wq) /\ UNCHANGED <<b, told>>
        \/ /\ IF r.ok THEN Strike("flash") ELSE UNCHANGED faults
           /\ wq' = Tail(wq)
           /\ UNCHANGED <<b, toC, slot52, put, told>>

\* wk_update_mcuboot_flag_handler, which then says that the link will be cut and
\* sleeps for two seconds.
wk_update_mcuboot_flag_handler ==
  /\ Wk("flag")
  /\ wq' = Tail(wq)
  /\ flag52' = (flag52 \/ b.type = "52")
  /\ Notify(Plain("cut"))
  /\ phase' = "cutting"
  /\ UNCHANGED <<b, simp, slot52, slot91, history>>

\* What the two bytes of the size and those behind the answer may say as a size:
\* too little or enough.
Garbage == {0, SlotLen}

\* rsp_cb_flash_erase: the link gets new parameters, whatever the answer.
rsp_cb_flash_erase ==
  /\ call.op = "erase"
  /\ phase' = IF call.answer = "ok" THEN "asking" ELSE "waiting"
  /\ call' = None
  /\ UNCHANGED <<toC, b, told, faults>>

\* rsp_cb_flash_write does not look at the answer.  The last block is followed by
\* the done request, which is accepted unless the ichip was faster.
rsp_cb_flash_write ==
  /\ call.op = "write"
  /\ IF b.off = b.size
     THEN /\ b' = [b EXCEPT !.off = 0] /\ told' = TRUE
          /\ \/ Notify(Plain("success")) /\ call' = Ask("done", 0, <<>>)
             \/ Strike("refuse") /\ toC' = Sent(Plain("success")) /\ call' = None
     ELSE /\ IF b.off > 0 THEN Notify(Plain("get")) ELSE UNCHANGED <<toC, faults>>
          /\ call' = None
          /\ UNCHANGED <<b, told>>
  /\ UNCHANGED phase

rsp_cb_flash_done ==
  /\ call.op = "done"
  /\ call' = None
  /\ UNCHANGED <<toC, b, told, phase, faults>>

\* rsp_dev_fwinfo91 reads the size two bytes too far.
rsp_dev_fwinfo91 ==
  /\ call.op = "devinf"
  /\ \E n \in Garbage : b' = [b EXCEPT !.avail91 = n] /\ Notify(DevInf(n, b.avail52))
  /\ call' = None
  /\ UNCHANGED <<told, phase>>

\* wk_proc_rsp_handler: the mode is idle when the callback runs.
wk_proc_rsp_handler ==
  /\ Wk("rsp")
  /\ wq' = Tail(wq)
  /\ rsp_cb_flash_erase \/ rsp_cb_flash_write \/ rsp_cb_flash_done \/ rsp_dev_fwinfo91
  /\ UNCHANGED <<slave, flash, job, put, heard, starts>>

\* tmr_rsp_timeout_handler: the callback runs in the interrupt and the mode is
\* idle only behind it, so that the done request is refused.
\* update_bluetooth_params waits in the interrupt, which halts the chip in a build
\* with assertions.
tmr_rsp_timeout_handler ==
  /\ call # None /\ "rsp" \notin ToSet(wq)
  /\ Running
  /\ Strike("lose")
  /\ call' = None
  /\ CASE call.op = "erase" ->
             phase' \in {phase, "halted"} /\ UNCHANGED <<toC, b, told>>
       [] call.op = "write" ->
            /\ toC' = IF b.off = b.size THEN Sent(Plain("success"))
                      ELSE IF b.off > 0 THEN Sent(Plain("get")) ELSE toC
            /\ told' = (told \/ b.off = b.size)
            /\ b' = [b EXCEPT !.off = IF @ = b.size THEN 0 ELSE @]
            /\ UNCHANGED phase
       [] call.op = "done" -> UNCHANGED <<toC, b, told, phase>>
       [] call.op = "devinf" ->
            /\ \E n \in Garbage : b' = [b EXCEPT !.avail91 = n] /\ toC' = Sent(DevInf(n, b.avail52))
            /\ UNCHANGED <<told, phase>>
  /\ UNCHANGED <<c, conn, toB, wq, slave, flash, job, put, heard, starts>>

\* wk_proc_req_handler: the response, and then app_cmd_event_handler of main.c.
wk_proc_req_handler ==
  /\ Wk("req")
  /\ slave' = "none"
  /\ IF slave = "done" THEN dfu_file_ready(b.off)
     ELSE wq' = Tail(wq) /\ UNCHANGED b
  /\ UNCHANGED <<toC, phase, call, flash, history, faults>>

-----------------------------------------------------------------------------
(* The link, BDUNK and the reset button *)

InProgress == job.size > 0 /\ ~told

connected == conn' = TRUE

disconnected == conn' = FALSE /\ toC' = <<>> /\ toB' = <<>>

\* disconnect_from_Central, two seconds later.
CutEnds ==
  /\ phase = "cutting"
  /\ phase' = "ready"
  /\ disconnected
  /\ UNCHANGED <<c, b, wq, simp, flash, history, faults>>

\* The link drops, perhaps as the Bluetooth of the Mac is reset.
LinkDrops ==
  /\ conn
  /\ Strike("drop")
  /\ disconnected
  /\ c' \in {c, centralManagerDidUpdateState(c)}
  /\ UNCHANGED <<chip, simp, flash, history>>

\* getArguments.
Launch(what, n52, n91, loads) ==
  /\ c.status \in {"off", "crashed"} /\ starts < MaxStarts
  /\ what = "91" <=> n52 = 0
  /\ what = "52" <=> n91 = 0
  /\ loads => what = "both"
  /\ starts' = starts + 1
  /\ c' = Launched(starts + 1, what, n52, n91, loads)
  /\ UNCHANGED <<conn, toC, toB, chip, simp, flash, job, put, told, heard, faults>>

\* A trap ends BDUNK and with it the link.
BdunkDoes(r) ==
  /\ c' = r.c
  /\ IF r.c.status = "crashed" THEN disconnected
     ELSE connected /\ toB' = toB \o r.out
  /\ UNCHANGED <<chip, simp, flash, history, faults>>

\* didDiscoverCharacteristicsFor: the connection is there and logic runs with the
\* last op code.
Connect(yes) ==
  /\ c.status = "on" /\ c.auto /\ ~conn /\ phase = "ready"
  /\ Untimely \/ (Quiet /\ c.idx = 0)
  /\ LET r == logic(c, yes)
     IN BdunkDoes(r) /\ (r.c.status = "crashed" \/ toC' = <<>>)

didUpdateValueFor ==
  /\ toC # <<>>
  /\ LET r == Notified(c, Head(toC))
     IN BdunkDoes(r) /\ (r.c.status = "crashed" \/ toC' = Tail(toC))

\* The user ends BDUNK.
Quit ==
  /\ c.status = "on"
  /\ c' = Off
  /\ IF InProgress THEN Strike("drop") ELSE UNCHANGED faults
  /\ disconnected
  /\ UNCHANGED <<chip, simp, flash, history>>

\* The button or the watchdog of a user.  mcuboot swaps the images if the flag is
\* set.
Reboot ==
  /\ phase = "halted" \/ (phase = "ready" /\ wq = <<>> /\ Idle /\ ~conn /\ b # Statics)
  /\ disconnected
  /\ b' = Statics /\ phase' = "boot" /\ wq' = <<>> /\ call' = None /\ slave' = "none"
  /\ slot52' = IF flag52 THEN OtherImage ELSE slot52
  /\ job' = NoJob /\ put' = {} /\ told' = FALSE /\ heard' = FALSE /\ flag52' = FALSE
  /\ UNCHANGED <<c, slot91, starts, faults>>

\* The work items and the callbacks of SIMP are there.
initalize_dfu_module == phase' = "ready"

\* main.  Connections are accepted from bt_enable on.
Boot ==
  /\ phase = "boot"
  /\ initalize_dfu_module
  /\ UNCHANGED <<link, b, wq, simp, flash, history, faults>>

-----------------------------------------------------------------------------
BluetoothThread ==
  RxStart \/ RxInfo \/ RxSelf \/ RxDone \/ RxData \/ RxEmpty \/ RxStale

WorkQueue ==
  \/ wk_self_info_handler \/ wk_self_update_handler \/ wk_update_mcuboot_flag_handler
  \/ wk_proc_rsp_handler \/ wk_proc_req_handler \/ CutEnds
  \/ update_bluetooth_params

Ichip ==
  req_dev_fwinfo92 \/ req_cb_flash_erase \/ req_cb_flash_write \/ req_cb_flash_done

Central ==
  \/ \E what \in What, n52 \in Sizes \cup {0}, n91 \in Sizes \cup {0}, loads \in BOOLEAN :
        Launch(what, n52, n91, loads)
  \/ \E yes \in BOOLEAN : Connect(yes)
  \/ didUpdateValueFor \/ Quit

Next ==
  \/ BluetoothThread \/ WorkQueue \/ Responded \/ Ichip \/ Central
  \/ TxAborted \/ tmr_rsp_timeout_handler \/ LinkDrops \/ Reboot \/ Boot
  \/ \E op \in {"devinf", "done"} : IchipAsks(op)

Spec == Init /\ [][Next]_vars

\* The threads of both chips run, the link delivers until it drops, and the Mac
\* handles its events.
Fairness ==
  /\ WF_vars(BluetoothThread) /\ WF_vars(WorkQueue) /\ WF_vars(Responded)
  /\ WF_vars(Ichip) /\ WF_vars(didUpdateValueFor)

FairSpec == Spec /\ Fairness

-----------------------------------------------------------------------------
(* Properties *)

Call == [op : {"devinf", "erase", "write", "done"}, at : 0..(UInt32 - 1),
         bytes : Seq(Byte \cup {Blank, Mixed}), answer : {"none", "ok", "empty"}]

\* Every variable has its type.
TypeOK ==
  /\ conn \in BOOLEAN /\ phase \in Phase
  /\ ToSet(wq) \subseteq Work /\ Len(wq) <= Cardinality(Work)
  /\ call \in Call \cup {None} /\ slave \in {"none", "devinf", "done"}
  /\ \A i \in DOMAIN toC : toC[i].op \in ToCentral
  /\ \A i \in DOMAIN toB : toB[i].op \in ToBchip
  /\ {slot52, slot91} \subseteq [Address -> Byte \cup {Blank, Mixed}]
  /\ b.bufLen \in 0..Block /\ b.off \in 0..(UInt32 - 1) /\ b.at \in 0..(UInt32 - 1)
  /\ b.type \in Chip /\ put \subseteq Address
  /\ flag52 \in BOOLEAN /\ told \in BOOLEAN /\ heard \in BOOLEAN
  /\ starts \in 0..MaxStarts /\ faults \in 0..MaxFaults

\* A packet that is on its way has room behind what has been collected: BDUNK and
\* the bchip agree about where a block ends.
BufferFits ==
  \A i \in DOMAIN toB :
    toB[i].op = "data" => b.bufLen + Len(toB[i].bytes) <= Block

\* The Bluetooth thread leaves m_cmd_buffer alone while the block in it waits for
\* the work queue, although nothing locks it.
BlockUndisturbed ==
  [][("update" \in ToSet(wq) /\ "update" \in ToSet(wq')) =>
       <<b'.buf, b'.at, b'.len>> = <<b.buf, b.at, b.len>>]_vars

Slot == IF job.chip = "52" THEN slot52 ELSE slot91

\* What has been written of an image is what BDUNK has at that place.  The slot of
\* the 52 is not erased before, so there it holds only if it was blank.
StoredInPlace ==
  job.chip = "91" \/ job.blank => \A a \in put : Slot[a] = <<job.id, job.chip, a>>

\* The next byte of the image that has not been handed over to the flash.
Handed ==
  IF told THEN job.size
  ELSE IF "update" \in ToSet(wq) THEN b.at
  ELSE IF Unanswered /\ call.op = "write" THEN call.at ELSE b.off

\* The transfer of Transfer.tla.
AsTransfer == INSTANCE Transfer WITH
  Sizes <- Sizes \cup {0}, size <- job.size, pos <- Handed, held <- put

ImplementsTransfer == AsTransfer!Spec

\* Success is never told of an image for the 52 that is not all written, and its
\* flag is set only then: a failed write ends the update, whatever else goes wrong.
FlagMeansStored ==
  job.chip = "52" /\ job.size > 0 /\ (told \/ flag52) => told /\ put = 0..(job.size - 1)

\* The bchip never asks for a packet behind the end of the image, which would trap
\* BDUNK; the only trap is that of an update of both, whose first image is not there.
NoTrap == c.status = "crashed" => c.what = "both" /\ ~c.loads /\ c.idx = 0

\* Without faults an image that the bchip expects is told to be there; then the
\* flag of its own slot is set, or the ichip hears of it.
Completes ==
  [](faults = 0) =>
    /\ InProgress ~> told
    /\ job.size > 0 /\ told /\ job.chip = "52" ~> flag52
    /\ job.size > 0 /\ told /\ job.chip = "91" ~> heard
=============================================================================
