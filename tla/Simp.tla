------------------------------- MODULE Simp --------------------------------
(***************************************************************************)
(* The SIMP command protocol (simp.c) on both chips and the UART link      *)
(* between them.  Each chip runs the same code: an application calls       *)
(* app_cmd_request, the transmit and receive interrupts of the UART driver *)
(* drive the mode and state of m_cmd_ctx, a one-shot timer ends a wait and *)
(* two work items run the callbacks on the system work queue.              *)
(*                                                                         *)
(* A frame travels as PktLen units: unit 1 is the start flag and length,   *)
(* unit 2 the op code and data, the last one the CRC.  Only complete       *)
(* frames pass the CRC; the start flag is not covered by it.               *)
(***************************************************************************)
EXTENDS Integers, Sequences, FiniteSets, FiniteSetsExt

CONSTANTS
  Chip,       \* the two ends of the link
  Peer,       \* Peer[c] is the chip at the other end
  Host,       \* the chips whose application issues requests
  Thread,     \* the contexts of a chip that may call app_cmd_request
  Op,         \* the registered op codes
  NoOp,       \* an op code nobody registered
  PktLen,     \* units in a frame
  MaxLen,     \* units that fit CMD_MAX_PACKET_LENGTH
  MaxReq,     \* bound: requests issued in all
  Fault,      \* the kinds of fault that occur: "abort", "lose", "corrupt"
  MaxFaults,  \* bound: faults in all
  Late,       \* may the timeout fire while an answer can still come?
  Yields      \* may a callback give up the CPU to the calling threads?

ASSUME ChipAssumption ==
  /\ IsFiniteSet(Chip)
  /\ Peer \in [Chip -> Chip]
  /\ \A c \in Chip : Peer[c] # c /\ Peer[Peer[c]] = c
  /\ Host \subseteq Chip

ASSUME OpAssumption == NoOp \notin Op

ASSUME BoundAssumption ==
  /\ PktLen \in Nat /\ PktLen >= 2
  /\ MaxLen \in Nat /\ MaxLen >= PktLen
  /\ MaxReq \in Nat /\ MaxFaults \in Nat /\ Fault \subseteq {"abort", "lose", "corrupt"}
  /\ Late \in BOOLEAN /\ Yields \in BOOLEAN

VARIABLES
  ctx,      \* m_cmd_ctx, the response timer and the pending work items
  pc,       \* where each thread is inside app_cmd_request
  wk,       \* what the system work queue is running
  txBuf,    \* m_tx_buff: the frame built last
  txq,      \* units the UART has still to shift out; it is busy unless empty
  line,     \* units shifted out towards the chip and not yet received
  rx,       \* m_rx_buff and the statics of on_uart_rx_ready
  faults,   \* faults injected so far
  sent,     \* history: requests issued by the chip
  served,   \* history: ids of the requests its callbacks executed
  replies   \* history: calls of the response callbacks

vars == <<ctx, pc, wk, txBuf, txq, line, rx, faults, sent, served, replies>>
link == <<txBuf, txq>>
history == <<sent, served, replies>>

-----------------------------------------------------------------------------
(* Frames and the units they travel in *)

\* id is a ghost: the number of the request, copied into its response.
Frame == [kind : {"req", "rsp"}, op : Op \cup {NoOp}, id : Nat]

Unit == [f : Frame, i : 0..PktLen]

\* What is left of a unit damaged on the wire.
Junk == [f |-> [kind |-> "req", op |-> NoOp, id |-> 0], i |-> 0]

Units(f) == [k \in 1..PktLen |-> [f |-> f, i |-> k]]

\* The CRC covers everything after the start flag.
Intact(buf) ==
  /\ Len(buf) = PktLen
  /\ buf[1].i = 1
  /\ \A k \in 2..PktLen : buf[k] = [f |-> buf[2].f, i |-> k]

FrameIn(buf) == [buf[2].f EXCEPT !.kind = buf[1].f.kind]

\* buff_to_cmd checks nothing.  What it reads from a buffer that holds no
\* complete frame is a mix of old and new bytes: any op code.
buff_to_cmd(buf) ==
  IF Intact(buf)
  THEN {FrameIn(buf)}
  ELSE {[kind |-> "req", op |-> o, id |-> 0] : o \in Op \cup {NoOp}}

-----------------------------------------------------------------------------
(* Mode and state of a chip *)

\* The states state_handler leaves standing; it turns the others into idle.
State == {"idle", "req_sending", "req_sent", "req_receiving", "req_received",
          "rsp_sending", "rsp_receiving", "rsp_received", "err_receive"}

Context == [mode : {"idle", "host", "slave"}, state : State,
            timer : BOOLEAN, wkReq : BOOLEAN, wkRsp : BOOLEAN]

\* Mutants, here and below: mistakes the properties have to notice.
IdleKeepsMode(x) == [x EXCEPT !.state = "idle"]

Idle(x) == [x EXCEPT !.state = "idle", !.mode = "idle"]

StartTimerForgotten(x) == x

StartTimer(x) == [x EXCEPT !.timer = TRUE]

StopTimerForgotten(x) == x

StopTimer(x) == [x EXCEPT !.timer = FALSE]

state_handler(x) ==
  CASE x.state = "idle"          -> Idle(x)
    [] x.state = "req_sending"   -> [x EXCEPT !.mode = "host"]
    [] x.state = "req_sent"      -> StartTimer(x)
    [] x.state = "rsp_received"  -> [StopTimer(x) EXCEPT !.wkRsp = TRUE]
    [] x.state = "req_receiving" -> [x EXCEPT !.mode = "slave"]
    [] x.state = "req_received"  -> [x EXCEPT !.wkReq = TRUE]
    [] x.state = "err_receive"   -> IF x.mode = "host" THEN x ELSE Idle(x)
    [] x.state \in {"rsp_sent", "err_send"} -> Idle(x)
    [] x.state \in {"rsp_receiving", "rsp_sending"} -> x

\* state_set: the handler runs only when the state changes.
state_set(x, s) ==
  IF x.state = s THEN x ELSE state_handler([x EXCEPT !.state = s])

on_cmd_send_start(x) ==
  state_set(x, IF x.mode = "slave" THEN "rsp_sending" ELSE "req_sending")

on_cmd_send_complete_SkipsHandler(x) ==
  CASE x.mode = "host"  -> state_set(x, "req_sent")
    [] x.mode = "slave" -> [x EXCEPT !.state = "rsp_sent"]
    [] x.mode = "idle"  -> x

on_cmd_send_complete_HostOnly(x) ==
  IF x.mode = "host" THEN state_set(x, "req_sent") ELSE x

on_cmd_send_complete(x) ==
  CASE x.mode = "host"  -> state_set(x, "req_sent")
    [] x.mode = "slave" -> state_set(x, "rsp_sent")
    [] x.mode = "idle"  -> x

on_cmd_send_error(x) == state_set(x, "err_send")

on_cmd_receive_start(x) ==
  state_set(x, IF x.mode = "host" THEN "rsp_receiving" ELSE "req_receiving")

on_cmd_receive_complete(x) ==
  CASE x.mode = "host"  -> state_set(x, "rsp_received")
    [] x.mode = "slave" -> state_set(x, "req_received")
    [] x.mode = "idle"  -> x

on_cmd_receive_error(x) == state_set(x, "err_receive")

\* Does m_cb_list have a callback for the op code?
cmd_cb_get(op) == op \in Op

Init ==
  /\ ctx = [c \in Chip |-> [mode |-> "idle", state |-> "idle", timer |-> FALSE,
                            wkReq |-> FALSE, wkRsp |-> FALSE]]
  /\ pc = [c \in Chip |-> [t \in Thread |-> "idle"]]
  /\ wk = [c \in Chip |-> "none"]
  /\ txBuf = [c \in Chip |-> Junk.f]
  /\ txq = [c \in Chip |-> <<>>]
  /\ line = [c \in Chip |-> <<>>]
  /\ rx = [c \in Chip |-> [buf |-> <<>>, started |-> FALSE, need |-> 0]]
  /\ faults = 0
  /\ sent = [c \in Chip |-> 0]
  /\ served = [c \in Chip |-> <<>>]
  /\ replies = [c \in Chip |-> <<>>]

Strike(kind) ==
  /\ kind \in Fault
  /\ faults < MaxFaults
  /\ faults' = faults + 1

-----------------------------------------------------------------------------
(* Sending *)

\* uart_send starts the transmission of m_tx_buff unless one is running, which is
\* an error nobody looks at: the running one goes on with the new bytes, which fit
\* the old ones or not.
uart_send(c, f) ==
  LET left == Len(txq[c]) IN
  IF left = 0
  THEN txq' = [txq EXCEPT ![c] = Units(f)]
  ELSE \E tail \in {SubSeq(Units(f), PktLen - left + 1, PktLen),
                    [k \in 1..left |-> Junk]} :
         txq' = [txq EXCEPT ![c] = tail]

\* The tail of cmd_send: cmd_to_buff writes m_tx_buff, even while the UART is
\* reading it.
Transmit(c, f) ==
  /\ txBuf' = [txBuf EXCEPT ![c] = f]
  /\ uart_send(c, f)

\* The work queue is cooperative: a thread runs while a callback does only if
\* the callback blocks.
CanRun(c) == wk[c] = "none" \/ Yields

\* Requests issued or being issued, on both chips.
Budget == MapThenSumSet(LAMBDA c : sent[c], Chip)
          + Cardinality({p \in Chip \X Thread : pc[p[1]][p[2]] # "idle"})

\* app_cmd_request up to its check of the mode ...
ReqCheck(c, t) ==
  /\ c \in Host
  /\ CanRun(c)
  /\ pc[c][t] = "idle"
  /\ Budget < MaxReq
  /\ ctx[c].mode = "idle"
  /\ pc' = [pc EXCEPT ![c][t] = "checked"]
  /\ UNCHANGED <<ctx, wk, link, line, rx, faults, history>>

\* ... then mode_set and on_cmd_send_start, whatever happened since ...
ReqStart(c, t) ==
  /\ CanRun(c)
  /\ pc[c][t] = "checked"
  /\ pc' = [pc EXCEPT ![c][t] = "started"]
  /\ ctx' = [ctx EXCEPT ![c] = on_cmd_send_start([@ EXCEPT !.mode = "host"])]
  /\ UNCHANGED <<wk, link, line, rx, faults, history>>

\* ... then cmd_to_buff and uart_send.
ReqSend(c, t) ==
  /\ CanRun(c)
  /\ pc[c][t] = "started"
  /\ pc' = [pc EXCEPT ![c][t] = "idle"]
  /\ sent' = [sent EXCEPT ![c] = @ + 1]
  /\ \E o \in Op : Transmit(c, [kind |-> "req", op |-> o, id |-> sent[c] + 1])
  /\ UNCHANGED <<ctx, wk, line, rx, faults, served, replies>>

\* A unit leaves the chip; after the last one UART_TX_DONE is reported.
TxShift(c) ==
  /\ txq[c] # <<>>
  /\ line' = [line EXCEPT ![Peer[c]] = Append(@, Head(txq[c]))]
  /\ txq' = [txq EXCEPT ![c] = Tail(@)]
  /\ ctx' = IF Len(txq[c]) = 1
            THEN [ctx EXCEPT ![c] = on_cmd_send_complete(@)]
            ELSE ctx
  /\ UNCHANGED <<pc, wk, txBuf, rx, faults, history>>

TxAbortUnnoticed(c) ==
  /\ Strike("abort")
  /\ txq[c] # <<>>
  /\ txq' = [txq EXCEPT ![c] = <<>>]
  /\ UNCHANGED <<ctx, pc, wk, txBuf, line, rx, history>>

\* UART_TX_ABORTED: the rest of the frame is dropped.
TxAbort(c) ==
  /\ Strike("abort")
  /\ txq[c] # <<>>
  /\ txq' = [txq EXCEPT ![c] = <<>>]
  /\ ctx' = [ctx EXCEPT ![c] = on_cmd_send_error(@)]
  /\ UNCHANGED <<pc, wk, txBuf, line, rx, history>>

-----------------------------------------------------------------------------
(* Receiving *)

\* The length cmd_len_get may decode: 0 when too little has arrived, the
\* length of the frame when its header did, anything otherwise.  MaxLen + 1
\* stands for every length above CMD_MAX_PACKET_LENGTH.
cmd_len_get(buf) ==
  IF Len(buf) < 2 THEN {0}
  ELSE IF buf[1].i = 1 THEN {PktLen} ELSE 0..(MaxLen + 1)

\* In host mode the frame must be a response to the op code in m_tx_buff, in
\* slave mode a request; in idle mode neither is checked.
format_check(c, buf, mode) ==
  /\ Intact(buf)
  /\ mode = "host" => FrameIn(buf).kind = "rsp" /\ FrameIn(buf).op = txBuf[c].op
  /\ mode = "slave" => FrameIn(buf).kind = "req"

AcceptsAsSlave(x) == x.mode = "host" => x.state \in {"req_sent", "rsp_receiving"}

Accepts(x) ==
  /\ x.mode = "host" => x.state \in {"req_sent", "rsp_receiving"}
  /\ x.mode = "slave" => x.state = "req_receiving"

CollectOn(c, y, buf, len) ==
  LET complete == len # 0 /\ Len(buf) >= len
  IN /\ rx' = [rx EXCEPT ![c] = [buf |-> buf, started |-> TRUE, need |-> len]]
     /\ ctx' = [ctx EXCEPT ![c] =
                  IF ~complete THEN y
                  ELSE IF format_check(c, buf, y.mode)
                       THEN on_cmd_receive_complete(y)
                       ELSE on_cmd_receive_error(y)]

\* on_uart_rx_ready with a chunk that collection has admitted: y and buf are
\* the context and the buffer once the chunk is stored, len the length known.
Collect(c, y, buf, len) ==
  LET tooLong == rx[c].need = 0 /\ len > MaxLen
      z == IF tooLong THEN on_cmd_receive_error(y) ELSE y
      complete == len # 0 /\ Len(buf) >= len
  IN /\ rx' = [rx EXCEPT ![c] = [buf |-> buf, started |-> ~complete,
                                 need |-> IF complete THEN 0 ELSE len]]
     /\ ctx' = [ctx EXCEPT ![c] =
                  IF ~complete THEN z
                  ELSE IF format_check(c, buf, z.mode)
                       THEN on_cmd_receive_complete(z)
                       ELSE on_cmd_receive_error(z)]

\* UART_RX_RDY with the first n units on the line.
RxReady(c, n) ==
  /\ n \in 1..Len(line[c])
  /\ line' = [line EXCEPT ![c] = SubSeq(@, n + 1, Len(@))]
  /\ LET chunk == SubSeq(line[c], 1, n)
         buf == IF rx[c].started THEN rx[c].buf \o chunk ELSE chunk
         y == IF rx[c].started THEN ctx[c] ELSE on_cmd_receive_start(ctx[c])
     IN IF ~Accepts(ctx[c])
        THEN UNCHANGED <<rx, ctx>>
        ELSE \E len \in IF rx[c].need # 0 THEN {rx[c].need} ELSE cmd_len_get(buf) :
               Collect(c, y, buf, len)
  /\ UNCHANGED <<pc, wk, link, faults, history>>

-----------------------------------------------------------------------------
(* The response timer and the work items *)

Reply(how, f) == [how |-> how, kind |-> f.kind, op |-> f.op, id |-> f.id]

\* Nothing is under way that could still answer the request of c.
Quiet(c) ==
  /\ \A d \in {c, Peer[c]} : txq[d] = <<>> /\ line[d] = <<>>
  /\ ~ctx[Peer[c]].wkReq
  /\ wk[Peer[c]] = "none"

\* tmr_rsp_timeout_handler: "to" goes to the callback of the op in m_tx_buff.
Timeout(c) ==
  /\ ctx[c].timer
  /\ Late \/ Quiet(c)
  /\ replies' = IF cmd_cb_get(txBuf[c].op)
                THEN [replies EXCEPT ![c] = Append(@, Reply("timeout", txBuf[c]))]
                ELSE replies
  /\ ctx' = [ctx EXCEPT ![c] = state_set([@ EXCEPT !.timer = FALSE], "idle")]
  /\ UNCHANGED <<pc, wk, link, line, rx, faults, sent, served>>

WkReqRunAgain(c) ==
  /\ wk[c] = "none"
  /\ ctx[c].wkReq
  /\ wk' = [wk EXCEPT ![c] = "req"]
  /\ \E f \in buff_to_cmd(rx[c].buf) :
       served' = IF cmd_cb_get(f.op)
                 THEN [served EXCEPT ![c] = Append(@, f.id)] ELSE served
  /\ UNCHANGED <<ctx, pc, link, line, rx, faults, sent, replies>>

\* wk_proc_req_handler up to the response; an unregistered op is answered too.
WkReqRun(c) ==
  /\ wk[c] = "none"
  /\ ctx[c].wkReq
  /\ ctx' = [ctx EXCEPT ![c].wkReq = FALSE]
  /\ wk' = [wk EXCEPT ![c] = "req"]
  /\ \E f \in buff_to_cmd(rx[c].buf) :
       served' = IF cmd_cb_get(f.op)
                 THEN [served EXCEPT ![c] = Append(@, f.id)] ELSE served
  /\ UNCHANGED <<pc, link, line, rx, faults, sent, replies>>

\* app_cmd_respond up to on_cmd_send_start ...
RespondStart(c) ==
  /\ wk[c] = "req"
  /\ IF ctx[c].state \in {"req_received", "req_sent"}
     THEN /\ wk' = [wk EXCEPT ![c] = "respond"]
          /\ ctx' = [ctx EXCEPT ![c] = on_cmd_send_start(@)]
     ELSE /\ wk' = [wk EXCEPT ![c] = "none"]
          /\ UNCHANGED ctx
  /\ UNCHANGED <<pc, link, line, rx, faults, history>>

\* ... and its cmd_to_buff and uart_send; the op code is that of m_rx_buff.
RespondSend(c) ==
  /\ wk[c] = "respond"
  /\ wk' = [wk EXCEPT ![c] = "none"]
  /\ \E f \in buff_to_cmd(rx[c].buf) :
       Transmit(c, [kind |-> "rsp", op |-> f.op, id |-> f.id])
  /\ UNCHANGED <<ctx, pc, line, rx, faults, history>>

\* wk_proc_rsp_handler sets the state to idle first ...
WkRspRun(c) ==
  /\ wk[c] = "none"
  /\ ctx[c].wkRsp
  /\ ctx' = [ctx EXCEPT ![c] = state_set([@ EXCEPT !.wkRsp = FALSE], "idle")]
  /\ wk' = [wk EXCEPT ![c] = "rsp"]
  /\ UNCHANGED <<pc, link, line, rx, faults, history>>

\* ... and only then gives the content of m_rx_buff to the callback.
WkRspRead(c) ==
  /\ wk[c] = "rsp"
  /\ wk' = [wk EXCEPT ![c] = "none"]
  /\ \E f \in buff_to_cmd(rx[c].buf) :
       replies' = IF cmd_cb_get(f.op)
                  THEN [replies EXCEPT ![c] = Append(@, Reply("rsp", f))]
                  ELSE replies
  /\ UNCHANGED <<ctx, pc, link, line, rx, faults, sent, served>>

-----------------------------------------------------------------------------
(* The wire *)

DropAt(s, k) == SubSeq(s, 1, k - 1) \o SubSeq(s, k + 1, Len(s))

Lose(c, k) ==
  /\ Strike("lose")
  /\ k \in 1..Len(line[c])
  /\ line' = [line EXCEPT ![c] = DropAt(@, k)]
  /\ UNCHANGED <<ctx, pc, wk, link, rx, history>>

Corrupt(c, k) ==
  /\ Strike("corrupt")
  /\ k \in 1..Len(line[c])
  /\ line' = [line EXCEPT ![c][k] = Junk]
  /\ UNCHANGED <<ctx, pc, wk, link, rx, history>>

-----------------------------------------------------------------------------
Request(c) == \E t \in Thread : ReqCheck(c, t) \/ ReqStart(c, t) \/ ReqSend(c, t)

Transmission(c) == TxShift(c) \/ TxAbort(c)

Reception(c) == \E n \in 1..Len(line[c]) : RxReady(c, n)

WorkQueue(c) == \/ WkReqRun(c) \/ RespondStart(c) \/ RespondSend(c)
                \/ WkRspRun(c) \/ WkRspRead(c)

Wire(c) == \E k \in 1..Len(line[c]) : Lose(c, k) \/ Corrupt(c, k)

Next == \E c \in Chip : \/ Request(c) \/ Transmission(c) \/ Reception(c)
                        \/ Timeout(c) \/ WorkQueue(c) \/ Wire(c)

Spec == Init /\ [][Next]_vars

\* The UART and the timer run on their own, the scheduler runs every thread
\* that is ready and the work queue; no thread has to issue a request.
Fairness ==
  \A c \in Chip :
    /\ WF_vars(TxShift(c))
    /\ WF_vars(Reception(c))
    /\ WF_vars(Timeout(c))
    /\ WF_vars(WorkQueue(c))
    /\ \A t \in Thread : WF_vars(ReqStart(c, t) \/ ReqSend(c, t))

FairSpec == Spec /\ Fairness

-----------------------------------------------------------------------------
(* Properties *)

Receiver == [buf : Seq(Unit), started : BOOLEAN, need : 0..(MaxLen + 1)]

Conclusion == [how : {"rsp", "timeout"}, kind : {"req", "rsp"}, op : Op, id : Nat]

\* Every variable has its type.  A chip rests in no state that state_handler
\* turns into idle: rsp_sent and err_send are left in the step they are set.
TypeOK ==
  /\ ctx \in [Chip -> Context]
  /\ pc \in [Chip -> [Thread -> {"idle", "checked", "started"}]]
  /\ wk \in [Chip -> {"none", "req", "respond", "rsp"}]
  /\ txBuf \in [Chip -> Frame]
  /\ txq \in [Chip -> Seq(Unit)]
  /\ \A c \in Chip : Len(txq[c]) <= PktLen
  /\ line \in [Chip -> Seq(Unit)]
  /\ rx \in [Chip -> Receiver]
  /\ faults \in Nat
  /\ sent \in [Chip -> Nat]
  /\ served \in [Chip -> Seq(Nat)]
  /\ replies \in [Chip -> Seq(Conclusion)]

\* The mode, which decides whether app_cmd_request is refused and how the
\* interrupts read a frame, is kept apart from the state and set by hand: the
\* two never disagree.
Consistent(x) ==
  /\ x.mode = "idle" <=> x.state = "idle"
  /\ x.mode = "slave" <=> x.state \in {"req_receiving", "req_received", "rsp_sending"}

ModeMatchesState == \A c \in Chip : Consistent(ctx[c])

\* Something is under way that takes the chip out of its state, given whether
\* the UART is sending or about to, and whether a request is being processed.
Alive(x, sending, processing) ==
  /\ x.state \in {"req_sending", "rsp_sending"} => sending
  /\ x.state \in {"req_sent", "rsp_receiving", "err_receive"} => x.timer
  /\ x.state = "req_received" => x.wkReq \/ processing
  /\ x.state = "rsp_received" => x.wkRsp

\* The UART is busy, or a caller is between on_cmd_send_start and uart_send.
Sending(c) ==
  \/ txq[c] # <<>>
  \/ wk[c] = "respond"
  \/ \E t \in Thread : pc[c][t] = "started"

\* A chip that has left idle always has something pending that moves it on:
\* the UART, the timer, a work item or a thread.  The one exception is
\* req_receiving, where only the peer can: no timer guards a slave that got
\* half a request.  It holds for any number of threads and of hosts, whatever
\* is lost and whenever the timer fires.
NeverStranded == \A c \in Chip : Alive(ctx[c], Sending(c), wk[c] = "req")

\* A response callback gets response data, as simp.h:102-109 says of rsp_cb_t
\* ("process response callback function"), not the bytes of a request.
CallbackGetsResponse ==
  \A c \in Chip : \A k \in DOMAIN replies[c] :
    replies[c][k].how = "rsp" => replies[c][k].kind = "rsp"

\* The chip has made no request of its own so far.
OnlyServes(c) == sent[c] = 0 /\ \A t \in Thread : pc[c][t] = "idle"

\* A chip that only serves executes a request at most once, even if its host has
\* given up on it and issued the next one.  Nothing protects a chip that issues
\* requests itself: a frame of its peer that overtakes another one in m_tx_buff
\* reaches it as a mixture of both.
AtMostOnce ==
  \A c \in Chip : OnlyServes(c) =>
    \A k \in DOMAIN served[c] : \A j \in 1..(k - 1) : served[c][j] # served[c][k]

\* While a request is being processed the receive interrupt leaves m_rx_buff
\* alone, from which the callback and app_cmd_respond read, even when the peer has
\* given up waiting and sends its next request.  A chip that issues requests of its
\* own has no such protection, see app_cmd_request.
RequestStable ==
  [][\A c \in Chip :
       wk[c] \notin {"none", "rsp"} /\ wk'[c] # "none" /\ OnlyServes(c)
       => rx'[c] = rx[c]]_vars

\* A request leaves the application blocked only for a while: host mode, in
\* which app_cmd_request is refused, always ends.
HostReturns == \A c \in Chip : ctx[c].mode = "host" ~> ctx[c].mode # "host"

\* So does slave mode, as long as the link loses nothing.
SlaveReturns ==
  [](faults = 0) => \A c \in Chip : ctx[c].mode = "slave" ~> ctx[c].mode # "slave"

\* With one host and a link that loses nothing, every request is answered: the
\* callback gets the response to that very request.
RequestAnswered ==
  [](faults = 0) =>
    \A c \in Host : \A n \in 1..MaxReq :
      sent[c] >= n ~> \E k \in DOMAIN replies[c] :
                        replies[c][k].how = "rsp" /\ replies[c][k].id = n

\* Every request that has been sent whole ends in a callback, even when units are
\* lost or the transmission of the response is aborted, so an application that waits
\* for its callback goes on.
RequestConcluded ==
  \A c \in Host : \A n \in 1..MaxReq :
    sent[c] = n /\ ctx[c].state = "req_sent" ~> \E k \in DOMAIN replies[c] : replies[c][k].id = n

\* The only host, seen as the caller of Rpc.tla: the detailed protocol keeps
\* the promises stated there.
TheHost == CHOOSE c \in Host : TRUE

AsRpc == INSTANCE Rpc WITH
  calls <- sent[TheHost],
  executed <- served[Peer[TheHost]],
  concluded <- [k \in DOMAIN replies[TheHost] |->
                  LET r == replies[TheHost][k] IN
                  [id |-> r.id, how |-> IF r.how = "rsp" THEN r.kind ELSE r.how]]

ImplementsRpc == AsRpc!Spec
=============================================================================
