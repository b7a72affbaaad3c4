----------------------------- MODULE SimpProofs -----------------------------
(***************************************************************************)
(* Proofs about Simp.tla, for every set of chips, hosts, threads and op    *)
(* codes and every bound.  In the first part TypeOK and ModeMatchesState   *)
(* and NeverStranded together are inductive; each lemma is about one       *)
(* handler of simp.c.  The second part is about executing requests once,   *)
(* the third shows that with one host the protocol implements Rpc.tla.     *)
(***************************************************************************)
EXTENDS Simp, SequenceTheorems, TLAPS

IInv == TypeOK /\ ModeMatchesState /\ NeverStranded

USE ChipAssumption, OpAssumption, BoundAssumption

-----------------------------------------------------------------------------
(* The context under each handler *)

\* on_cmd_send_start after app_cmd_request has set the mode.
LEMMA RequestStarts ==
  ASSUME NEW x \in Context
  PROVE  LET y == on_cmd_send_start([x EXCEPT !.mode = "host"]) IN
         y \in Context /\ Consistent(y) /\ Alive(y, TRUE, FALSE)
<1> DEFINE x0 == [x EXCEPT !.mode = "host"]
           y == on_cmd_send_start(x0)
<1>1. x0 \in Context /\ x0.mode = "host"
  BY DEF Context
<1>2. y = state_set(x0, "req_sending")
  BY <1>1 DEF on_cmd_send_start
<1>3. y \in Context /\ y.state = "req_sending" /\ y.mode = "host"
  <2>1. CASE x0.state = "req_sending"
    BY <1>1, <1>2, <2>1 DEF state_set
  <2>2. CASE x0.state # "req_sending"
    <3> DEFINE x1 == [x0 EXCEPT !.state = "req_sending"]
    <3>1. x1 \in Context /\ x1.state = "req_sending" /\ x1.mode = "host"
      BY <1>1 DEF Context, State
    <3>2. y = state_handler(x1)
      BY <1>2, <2>2 DEF state_set
    <3>3. state_handler(x1) = [x1 EXCEPT !.mode = "host"]
      BY <3>1 DEF state_handler
    <3> HIDE DEF x1, y
    <3>4. QED
      BY <3>1, <3>2, <3>3 DEF Context
  <2>3. QED
    BY <2>1, <2>2
<1>4. QED
  BY <1>3 DEF Consistent, Alive

\* on_cmd_send_start in app_cmd_respond, for a consistent context.
LEMMA ResponseStarts ==
  ASSUME NEW x \in Context, Consistent(x),
         x.state \in {"req_received", "req_sent"}
  PROVE  LET y == on_cmd_send_start(x) IN
         y \in Context /\ Consistent(y) /\ Alive(y, TRUE, FALSE)
BY DEF Context, State, Consistent, Alive, on_cmd_send_start, state_set,
       state_handler, Idle, StartTimer, StopTimer

\* A completed transmission leaves nothing waiting for the UART.
LEMMA SendCompletes ==
  ASSUME NEW x \in Context, NEW s \in BOOLEAN, NEW p \in BOOLEAN,
         Consistent(x), Alive(x, s, p)
  PROVE  LET y == on_cmd_send_complete(x) IN
         y \in Context /\ Consistent(y) /\ Alive(y, FALSE, p)
<1>1. CASE x.mode = "host" /\ x.state = "req_sent"
  BY <1>1 DEF Context, State, Consistent, Alive, on_cmd_send_complete, state_set
<1>2. CASE x.mode = "host" /\ x.state # "req_sent"
  BY <1>2 DEF Context, State, Consistent, Alive, on_cmd_send_complete, state_set,
              state_handler, StartTimer
<1>3. CASE x.mode = "slave"
  BY <1>3 DEF Context, State, Consistent, Alive, on_cmd_send_complete, state_set,
              state_handler, Idle, StartTimer, StopTimer
<1>4. CASE x.mode = "idle"
  BY <1>4 DEF Context, State, Consistent, Alive, on_cmd_send_complete
<1>5. QED
  BY <1>1, <1>2, <1>3, <1>4 DEF Context

\* An aborted transmission leaves the chip idle.
LEMMA SendFails ==
  ASSUME NEW x \in Context, Consistent(x)
  PROVE  LET y == on_cmd_send_error(x) IN
         y \in Context /\ Consistent(y) /\ Alive(y, FALSE, FALSE)
BY DEF Context, State, Consistent, Alive, on_cmd_send_error, state_set,
       state_handler, Idle, StartTimer, StopTimer

\* What on_uart_rx_ready relies on while it collects a frame: the receive
\* handlers run only in states where a host has its timer.
Collecting(x) ==
  /\ Consistent(x)
  /\ x.state \in {"req_sent", "rsp_receiving", "err_receive"} => x.timer
  /\ x.state \in {"idle", "req_receiving", "req_sent", "rsp_receiving", "err_receive"}

\* The first chunk of a frame makes the chip a slave or goes on as a host.
LEMMA ReceiveStarts ==
  ASSUME NEW x \in Context, NEW s \in BOOLEAN, NEW p \in BOOLEAN,
         Consistent(x), Alive(x, s, p), Accepts(x)
  PROVE  LET y == on_cmd_receive_start(x) IN
         /\ Collecting(x)
         /\ y \in Context /\ Collecting(y)
BY DEF Context, State, Consistent, Alive, Accepts, Collecting,
       on_cmd_receive_start, state_set, state_handler, Idle, StartTimer, StopTimer

\* A bad frame leaves a host to its timer and anyone else idle.
LEMMA ReceiveFails ==
  ASSUME NEW x \in Context, Collecting(x)
  PROVE  LET y == on_cmd_receive_error(x) IN y \in Context /\ Collecting(y)
BY DEF Context, State, Consistent, Collecting, on_cmd_receive_error, state_set,
       state_handler, Idle, StartTimer, StopTimer

\* A complete frame leaves a work item pending.
LEMMA ReceiveCompletes ==
  ASSUME NEW x \in Context, Collecting(x), NEW s \in BOOLEAN, NEW p \in BOOLEAN
  PROVE  LET y == on_cmd_receive_complete(x) IN
         y \in Context /\ Consistent(y) /\ Alive(y, s, p)
BY DEF Context, State, Consistent, Alive, Collecting, on_cmd_receive_complete,
       state_set, state_handler, Idle, StartTimer, StopTimer

\* A chip that collects a frame needs no transmission.
LEMMA CollectingIsAlive ==
  ASSUME NEW x \in Context, Collecting(x), NEW s \in BOOLEAN, NEW p \in BOOLEAN
  PROVE  Consistent(x) /\ Alive(x, s, p)
BY DEF Context, State, Consistent, Alive, Collecting

\* The timer and the response work item return the chip to idle.
LEMMA ReturnsToIdle ==
  ASSUME NEW x \in Context, Consistent(x)
  PROVE  LET y == state_set(x, "idle") IN
         y \in Context /\ Consistent(y) /\ Alive(y, FALSE, FALSE)
BY DEF Context, State, Consistent, Alive, state_set, state_handler, Idle, StartTimer, StopTimer

-----------------------------------------------------------------------------
(* Frames, units and sequences of them *)

\* A damaged unit is a unit of a frame with no op code.
LEMMA JunkType == Junk \in Unit /\ Junk.f \in Frame
BY DEF Junk, Unit, Frame

\* A frame travels as PktLen units.
LEMMA UnitsType ==
  ASSUME NEW f \in Frame
  PROVE  /\ Units(f) \in Seq(Unit)
         /\ Len(Units(f)) = PktLen
         /\ \A k \in 1..PktLen : Units(f)[k] \in Unit
<1>1. \A k \in 1..PktLen : [f |-> f, i |-> k] \in Unit
  BY DEF Unit
<1>2. Units(f) \in [1..PktLen -> Unit]
  BY <1>1 DEF Units
<1>3. QED
  BY <1>2 DEF Units

\* Whatever m_rx_buff holds, what is read from it is a frame.
LEMMA ReadType ==
  ASSUME NEW buf \in Seq(Unit), NEW f \in buff_to_cmd(buf)
  PROVE  f \in Frame
<1>1. CASE Intact(buf)
  <2>1. buf[1] \in Unit /\ buf[2] \in Unit
    BY <1>1 DEF Intact
  <2>2. f = [buf[2].f EXCEPT !.kind = buf[1].f.kind]
    BY <1>1 DEF buff_to_cmd, FrameIn
  <2>3. QED
    BY <2>1, <2>2 DEF Unit, Frame
<1>2. CASE ~Intact(buf)
  BY <1>2 DEF buff_to_cmd, Frame
<1>3. QED
  BY <1>1, <1>2

\* After cmd_send the UART is busy, with at most one frame.
LEMMA TransmitBusy ==
  ASSUME TypeOK, NEW c \in Chip, NEW f \in Frame, Transmit(c, f)
  PROVE  /\ txBuf' \in [Chip -> Frame]
         /\ txq' \in [Chip -> Seq(Unit)]
         /\ \A d \in Chip : Len(txq'[d]) <= PktLen
         /\ txq'[c] # <<>>
         /\ \A d \in Chip : d # c => txq'[d] = txq[d]
<1> DEFINE left == Len(txq[c])
<1>1. txBuf' \in [Chip -> Frame]
  BY DEF TypeOK, Transmit, uart_send
<1>2. PICK s : /\ txq' = [txq EXCEPT ![c] = s]
               /\ s \in Seq(Unit) /\ Len(s) <= PktLen /\ s # <<>>
  <2>1. left \in 0..PktLen
    BY DEF TypeOK
  <2>2. CASE left = 0
    <3>1. Units(f) # <<>>
      BY UnitsType
    <3>2. QED
      BY <2>2, <3>1, UnitsType DEF Transmit, uart_send
  <2>3. CASE left # 0
    <3> DEFINE new == SubSeq(Units(f), PktLen - left + 1, PktLen)
               bad == [k \in 1..left |-> Junk]
    <3>1. txq' = [txq EXCEPT ![c] = new] \/ txq' = [txq EXCEPT ![c] = bad]
      BY <2>3 DEF Transmit, uart_send
    <3>2. new \in Seq(Unit) /\ Len(new) = left
      BY <2>1, <2>3, UnitsType, SubSeqProperties
    <3>3. bad \in Seq(Unit) /\ Len(bad) = left
      BY <2>1, JunkType
    <3> HIDE DEF left, new, bad
    <3>4. new # <<>> /\ bad # <<>> /\ left <= PktLen
      BY <2>1, <2>3, <3>2, <3>3
    <3>5. QED
      BY <3>1, <3>2, <3>3, <3>4
  <2>4. QED
    BY <2>2, <2>3
<1>3. QED
  BY <1>1, <1>2 DEF TypeOK

\* A lost unit leaves a sequence of units.
LEMMA DropAtType ==
  ASSUME NEW S, NEW s \in Seq(S), NEW k \in 1..Len(s)
  PROVE  DropAt(s, k) \in Seq(S)
<1>1. SubSeq(s, 1, k - 1) \in Seq(S)
  BY SubSeqProperties
<1>2. SubSeq(s, k + 1, Len(s)) \in Seq(S)
  BY SubSeqProperties
<1>3. QED
  BY <1>1, <1>2 DEF DropAt

-----------------------------------------------------------------------------
(* One lemma per action: it preserves the inductive invariant *)

\* One chip in order, and a step that leaves the other chips alone.
InOrder(c) == Consistent(ctx[c]) /\ Alive(ctx[c], Sending(c), wk[c] = "req")

Untouched(d) ==
  ctx'[d] = ctx[d] /\ txq'[d] = txq[d] /\ wk'[d] = wk[d] /\ pc'[d] = pc[d]

\* A step of one chip keeps the invariant if that chip's part holds after it.
LEMMA OneChipMoves ==
  ASSUME IInv, NEW c \in Chip, TypeOK', InOrder(c)',
         \A d \in Chip : d # c => Untouched(d)
  PROVE  IInv'
<1>1. ASSUME NEW d \in Chip PROVE InOrder(d)'
  <2>1. CASE d = c
    BY <2>1
  <2>2. CASE d # c
    <3>1. Sending(d)' = Sending(d)
      BY <2>2 DEF Sending, Untouched
    <3>2. Consistent(ctx[d])' /\ Alive(ctx[d], Sending(d), wk[d] = "req")'
      BY <2>2, <3>1 DEF Untouched, IInv, ModeMatchesState, NeverStranded
    <3>3. QED
      BY <3>2 DEF InOrder
  <2>3. QED
    BY <2>1, <2>2
<1>2. QED
  BY <1>1 DEF IInv, ModeMatchesState, NeverStranded, InOrder

\* What the invariant says of one chip.
LEMMA EachInOrder ==
  ASSUME IInv, NEW c \in Chip
  PROVE  ctx[c] \in Context /\ InOrder(c)
BY DEF IInv, TypeOK, ModeMatchesState, NeverStranded, InOrder

\* The check of the mode in app_cmd_request.
LEMMA ReqCheckSafe ==
  ASSUME IInv, NEW c \in Chip, NEW t \in Thread, ReqCheck(c, t)
  PROVE  IInv'
<1>1. TypeOK'
  BY DEF IInv, TypeOK, ReqCheck, link, history
<1>2. \A u \in Thread : pc[c][u] = "started" => pc'[c][u] = "started"
  BY DEF IInv, TypeOK, ReqCheck
<1>3. InOrder(c)'
  BY <1>2 DEF IInv, ModeMatchesState, NeverStranded, InOrder, Alive, Sending,
              ReqCheck, link, history
<1>4. \A d \in Chip : d # c => Untouched(d)
  BY DEF IInv, TypeOK, ReqCheck, Untouched, link, history
<1>5. QED
  BY <1>1, <1>3, <1>4, OneChipMoves

\* app_cmd_request going to host mode, whatever happened since its check.
LEMMA ReqStartSafe ==
  ASSUME IInv, NEW c \in Chip, NEW t \in Thread, ReqStart(c, t)
  PROVE  IInv'
<1> DEFINE y == on_cmd_send_start([ctx[c] EXCEPT !.mode = "host"])
<1>1. y \in Context /\ Consistent(y) /\ Alive(y, TRUE, FALSE)
  BY RequestStarts DEF IInv, TypeOK
<1>2. ctx' = [ctx EXCEPT ![c] = y] /\ pc' = [pc EXCEPT ![c][t] = "started"]
  BY DEF ReqStart
<1> HIDE DEF y
<1>3. TypeOK'
  <2>1. pc' \in [Chip -> [Thread -> {"idle", "checked", "started"}]]
    BY <1>2 DEF IInv, TypeOK
  <2>2. ctx' \in [Chip -> Context]
    BY <1>1, <1>2 DEF IInv, TypeOK
  <2>3. QED
    BY <2>1, <2>2 DEF IInv, TypeOK, ReqStart, link, history
<1>4. pc'[c][t] = "started" /\ ctx'[c] = y
  BY <1>2 DEF IInv, TypeOK
<1>5. InOrder(c)'
  BY <1>1, <1>4 DEF InOrder, Alive, Sending
<1>6. \A d \in Chip : d # c => Untouched(d)
  BY <1>2 DEF IInv, TypeOK, ReqStart, Untouched, link, history
<1>7. QED
  BY <1>3, <1>5, <1>6, OneChipMoves

\* The transmission of a request.
LEMMA ReqSendSafe ==
  ASSUME IInv, NEW c \in Chip, NEW t \in Thread, ReqSend(c, t)
  PROVE  IInv'
<1>1. PICK f \in Frame : Transmit(c, f)
  <2>1. \A o \in Op : [kind |-> "req", op |-> o, id |-> sent[c] + 1] \in Frame
    BY DEF IInv, TypeOK, Frame
  <2>2. QED
    BY <2>1 DEF ReqSend
<1>2. /\ txBuf' \in [Chip -> Frame]
      /\ txq' \in [Chip -> Seq(Unit)]
      /\ \A d \in Chip : Len(txq'[d]) <= PktLen
      /\ txq'[c] # <<>>
      /\ \A d \in Chip : d # c => txq'[d] = txq[d]
  BY <1>1, TransmitBusy DEF IInv
<1>3. TypeOK'
  <2>1. pc' \in [Chip -> [Thread -> {"idle", "checked", "started"}]]
    BY DEF IInv, TypeOK, ReqSend
  <2>2. sent' \in [Chip -> Nat]
    BY DEF IInv, TypeOK, ReqSend
  <2>3. QED
    BY <1>2, <2>1, <2>2 DEF IInv, TypeOK, ReqSend
<1>4. InOrder(c)'
  BY <1>2 DEF IInv, ModeMatchesState, NeverStranded, InOrder, Alive, Sending, ReqSend
<1>5. \A d \in Chip : d # c => Untouched(d)
  BY <1>2 DEF IInv, TypeOK, ReqSend, Untouched
<1>6. QED
  BY <1>3, <1>4, <1>5, OneChipMoves

\* A unit leaving the chip, the last one with UART_TX_DONE.
LEMMA TxShiftSafe ==
  ASSUME IInv, NEW c \in Chip, TxShift(c)
  PROVE  IInv'
<1> DEFINE p == wk[c] = "req"
           y == on_cmd_send_complete(ctx[c])
<1>1. Head(txq[c]) \in Unit /\ Tail(txq[c]) \in Seq(Unit)
      /\ Len(Tail(txq[c])) = Len(txq[c]) - 1
  BY HeadTailProperties DEF IInv, TypeOK, TxShift
<1>2. y \in Context /\ Consistent(y) /\ Alive(y, FALSE, p)
  <2>1. Sending(c) \in BOOLEAN /\ p \in BOOLEAN
    BY DEF Sending
  <2>2. QED
    BY <2>1, EachInOrder, SendCompletes DEF InOrder
<1>3. ctx' = [ctx EXCEPT ![c] = y] \/ (ctx' = ctx /\ txq'[c] # <<>>)
  <2>1. CASE Len(txq[c]) = 1
    BY <2>1 DEF TxShift
  <2>2. CASE Len(txq[c]) # 1
    <3>1. Len(txq[c]) \in Nat /\ Len(txq[c]) # 0
      BY EmptySeq DEF IInv, TypeOK, TxShift
    <3>2. txq'[c] = Tail(txq[c])
      BY DEF IInv, TypeOK, TxShift
    <3>3. Len(txq'[c]) # 0
      BY <1>1, <2>2, <3>1, <3>2
    <3>4. txq'[c] # <<>>
      BY <3>3, EmptySeq
    <3>5. QED
      BY <2>2, <3>4 DEF TxShift
  <2>3. QED
    BY <2>1, <2>2
<1> HIDE DEF y
<1>4. TypeOK'
  <2>1. line' \in [Chip -> Seq(Unit)]
    BY <1>1 DEF IInv, TypeOK, TxShift
  <2>2. ctx' \in [Chip -> Context]
    <3>1. ctx \in [Chip -> Context]
      BY DEF IInv, TypeOK
    <3>2. QED
      BY <1>2, <1>3, <3>1
  <2>3. txq' \in [Chip -> Seq(Unit)] /\ \A d \in Chip : Len(txq'[d]) <= PktLen
    BY <1>1 DEF IInv, TypeOK, TxShift
  <2>4. QED
    BY <2>1, <2>2, <2>3 DEF IInv, TypeOK, TxShift, history
<1>5. InOrder(c)'
  <2>1. CASE ctx' = [ctx EXCEPT ![c] = y]
    <3>1. ctx'[c] = y /\ wk' = wk
      BY <2>1 DEF IInv, TypeOK, TxShift
    <3>2. QED
      BY <1>2, <3>1 DEF InOrder, Alive
  <2>2. CASE ctx' = ctx /\ txq'[c] # <<>>
    BY <2>2 DEF IInv, ModeMatchesState, NeverStranded, InOrder, Alive, Sending, TxShift
  <2>3. QED
    BY <1>3, <2>1, <2>2
<1>6. \A d \in Chip : d # c => Untouched(d)
  BY <1>3 DEF IInv, TypeOK, TxShift, Untouched
<1>7. QED
  BY <1>4, <1>5, <1>6, OneChipMoves

\* UART_TX_ABORTED.
LEMMA TxAbortSafe ==
  ASSUME IInv, NEW c \in Chip, TxAbort(c)
  PROVE  IInv'
<1> DEFINE y == on_cmd_send_error(ctx[c])
<1>1. y \in Context /\ Consistent(y) /\ Alive(y, FALSE, FALSE)
  BY SendFails DEF IInv, TypeOK, ModeMatchesState
<1>2. ctx' = [ctx EXCEPT ![c] = y]
  BY DEF TxAbort
<1> HIDE DEF y
<1>3. TypeOK'
  <2>1. txq' \in [Chip -> Seq(Unit)] /\ \A d \in Chip : Len(txq'[d]) <= PktLen
    BY DEF IInv, TypeOK, TxAbort
  <2>2. QED
    BY <1>1, <1>2, <2>1 DEF IInv, TypeOK, TxAbort, Strike, history
<1>4. InOrder(c)'
  BY <1>1, <1>2 DEF IInv, TypeOK, InOrder, Alive
<1>5. \A d \in Chip : d # c => Untouched(d)
  BY <1>2 DEF IInv, TypeOK, TxAbort, Untouched
<1>6. QED
  BY <1>3, <1>4, <1>5, OneChipMoves

\* UART_RX_RDY.
LEMMA RxReadySafe ==
  ASSUME IInv, NEW c \in Chip, NEW n \in 1..Len(line[c]), RxReady(c, n)
  PROVE  IInv'
<1> DEFINE chunk == SubSeq(line[c], 1, n)
           stored == IF rx[c].started THEN rx[c].buf \o chunk ELSE chunk
           y == IF rx[c].started THEN ctx[c] ELSE on_cmd_receive_start(ctx[c])
<1>1. line[c] \in Seq(Unit) /\ rx[c] \in Receiver /\ ctx[c] \in Context
  BY DEF IInv, TypeOK
<1>2. chunk \in Seq(Unit) /\ SubSeq(line[c], n + 1, Len(line[c])) \in Seq(Unit)
  BY <1>1, SubSeqProperties
<1>3. stored \in Seq(Unit)
  BY <1>1, <1>2, ConcatProperties DEF Receiver
<1>4. line' \in [Chip -> Seq(Unit)]
  BY <1>2 DEF IInv, TypeOK, RxReady
<1> HIDE DEF chunk
<1>5. CASE ~Accepts(ctx[c])
  <2>1. rx' = rx /\ ctx' = ctx
    BY <1>5 DEF RxReady
  <2>2. TypeOK'
    BY <1>4, <2>1 DEF IInv, TypeOK, RxReady, link, history
  <2>3. InOrder(c)'
    BY <2>1, EachInOrder DEF InOrder, Sending, RxReady, link
  <2>4. \A d \in Chip : d # c => Untouched(d)
    BY <2>1 DEF RxReady, Untouched, link
  <2>5. QED
    BY <2>2, <2>3, <2>4, OneChipMoves
<1>6. CASE Accepts(ctx[c])
  <2>1. y \in Context /\ Collecting(y)
    <3>1. Sending(c) \in BOOLEAN
      BY DEF Sending
    <3>2. QED
      BY <1>1, <1>6, <3>1, EachInOrder, ReceiveStarts DEF InOrder
  <2> HIDE DEF stored, y
  <2>2. PICK len \in 0..(MaxLen + 1) : Collect(c, y, stored, len)
    <3>1. PICK len \in IF rx[c].need # 0 THEN {rx[c].need} ELSE cmd_len_get(stored) :
            Collect(c, y, stored, len)
      BY <1>6 DEF RxReady, stored, y, chunk
    <3>2. len \in 0..(MaxLen + 1)
      BY <1>1, <3>1 DEF Receiver, cmd_len_get
    <3>3. QED
      BY <3>1, <3>2
  <2> DEFINE z == IF rx[c].need = 0 /\ len > MaxLen
                  THEN on_cmd_receive_error(y) ELSE y
             complete == len # 0 /\ Len(stored) >= len
             w == IF ~complete THEN z
                  ELSE IF format_check(c, stored, z.mode)
                       THEN on_cmd_receive_complete(z)
                       ELSE on_cmd_receive_error(z)
  <2>3. z \in Context /\ Collecting(z)
    BY <2>1, ReceiveFails
  <2> HIDE DEF z
  <2>4. w \in Context /\ \A s, p \in BOOLEAN : Consistent(w) /\ Alive(w, s, p)
    <3>1. w \in {z, on_cmd_receive_complete(z), on_cmd_receive_error(z)}
      OBVIOUS
    <3> HIDE DEF w
    <3>2. QED
      BY <2>3, <3>1, ReceiveFails, ReceiveCompletes, CollectingIsAlive
  <2>5. /\ rx' = [rx EXCEPT ![c] = [buf |-> stored, started |-> ~complete,
                                    need |-> IF complete THEN 0 ELSE len]]
        /\ ctx' = [ctx EXCEPT ![c] = w]
    BY <2>2 DEF Collect, z
  <2>6. [buf |-> stored, started |-> ~complete,
         need |-> IF complete THEN 0 ELSE len] \in Receiver
    <3>1. (~complete) \in BOOLEAN
      OBVIOUS
    <3> HIDE DEF complete
    <3>2. (IF complete THEN 0 ELSE len) \in 0..(MaxLen + 1)
      BY <2>2
    <3>3. QED
      BY <1>3, <3>1, <3>2 DEF Receiver
  <2> HIDE DEF complete, w
  <2>7. TypeOK'
    <3>1. rx' \in [Chip -> Receiver]
      BY <2>5, <2>6 DEF IInv, TypeOK
    <3>2. ctx' \in [Chip -> Context]
      BY <2>4, <2>5 DEF IInv, TypeOK
    <3>3. QED
      BY <1>4, <3>1, <3>2 DEF IInv, TypeOK, RxReady, link, history
  <2>8. InOrder(c)'
    <3>1. ctx'[c] = w
      BY <2>5 DEF IInv, TypeOK
    <3>2. Sending(c)' \in BOOLEAN
      BY DEF Sending
    <3>3. QED
      BY <2>4, <3>1, <3>2 DEF InOrder
  <2>9. \A d \in Chip : d # c => Untouched(d)
    BY <2>5 DEF IInv, TypeOK, RxReady, Untouched, link
  <2>10. QED
    BY <2>7, <2>8, <2>9, OneChipMoves
<1>7. QED
  BY <1>5, <1>6

\* tmr_rsp_timeout_handler.
LEMMA TimeoutSafe ==
  ASSUME IInv, NEW c \in Chip, Timeout(c)
  PROVE  IInv'
<1> DEFINE x0 == [ctx[c] EXCEPT !.timer = FALSE]
           y == state_set(x0, "idle")
<1>1. x0 \in Context /\ Consistent(x0)
  <2>1. ctx[c] \in Context /\ Consistent(ctx[c])
    BY EachInOrder DEF InOrder
  <2>2. QED
    BY <2>1 DEF Context, Consistent
<1>2. ctx' = [ctx EXCEPT ![c] = y]
  BY DEF Timeout
<1> HIDE DEF x0
<1>3. y \in Context /\ Consistent(y) /\ Alive(y, FALSE, FALSE)
  BY <1>1, ReturnsToIdle
<1> HIDE DEF y
<1>4. TypeOK'
  <2>1. replies' \in [Chip -> Seq(Conclusion)]
    <3>1. CASE txBuf[c].op \in Op
      <4>1. Reply("timeout", txBuf[c]) \in Conclusion
        BY <3>1 DEF IInv, TypeOK, Frame, Reply, Conclusion
      <4>2. replies' = [replies EXCEPT ![c] = Append(@, Reply("timeout", txBuf[c]))]
        BY <3>1 DEF Timeout, cmd_cb_get
      <4>3. QED
        BY <4>1, <4>2 DEF IInv, TypeOK
    <3>2. CASE txBuf[c].op \notin Op
      BY <3>2 DEF IInv, TypeOK, Timeout, cmd_cb_get
    <3>3. QED
      BY <3>1, <3>2
  <2>2. ctx' \in [Chip -> Context]
    BY <1>2, <1>3 DEF IInv, TypeOK
  <2>3. QED
    BY <2>1, <2>2 DEF IInv, TypeOK, Timeout, link
<1>5. InOrder(c)'
  BY <1>2, <1>3 DEF IInv, TypeOK, InOrder, Alive
<1>6. \A d \in Chip : d # c => Untouched(d)
  BY <1>2 DEF IInv, TypeOK, Timeout, Untouched, link
<1>7. QED
  BY <1>4, <1>5, <1>6, OneChipMoves

\* wk_proc_req_handler up to the response.
LEMMA WkReqRunSafe ==
  ASSUME IInv, NEW c \in Chip, WkReqRun(c)
  PROVE  IInv'
<1> DEFINE y == [ctx[c] EXCEPT !.wkReq = FALSE]
<1>1. PICK f \in Frame :
        served' = IF f.op \in Op
                  THEN [served EXCEPT ![c] = Append(@, f.id)] ELSE served
  <2>1. rx[c].buf \in Seq(Unit)
    BY DEF IInv, TypeOK, Receiver
  <2>2. QED
    BY <2>1, ReadType DEF WkReqRun, cmd_cb_get
<1>2. ctx' = [ctx EXCEPT ![c] = y] /\ wk' = [wk EXCEPT ![c] = "req"]
  BY DEF WkReqRun
<1>3. y \in Context /\ Consistent(y) /\ Alive(y, Sending(c), TRUE)
  <2>1. /\ ctx[c] \in Context
        /\ Consistent(ctx[c]) /\ Alive(ctx[c], Sending(c), wk[c] = "req")
    BY EachInOrder DEF InOrder
  <2>2. y \in Context
    BY <2>1 DEF Context
  <2>3. /\ y.mode = ctx[c].mode /\ y.state = ctx[c].state
        /\ y.timer = ctx[c].timer /\ y.wkRsp = ctx[c].wkRsp
    BY <2>1 DEF Context
  <2>4. QED
    BY <2>1, <2>2, <2>3 DEF Consistent, Alive
<1> HIDE DEF y
<1>4. TypeOK'
  <2>1. served' \in [Chip -> Seq(Nat)]
    BY <1>1 DEF IInv, TypeOK, Frame
  <2>2. ctx' \in [Chip -> Context]
    BY <1>2, <1>3 DEF IInv, TypeOK
  <2>3. QED
    BY <1>2, <2>1, <2>2 DEF IInv, TypeOK, WkReqRun, link
<1>5. InOrder(c)'
  <2>1. ctx'[c] = y /\ wk'[c] = "req" /\ wk[c] = "none"
    BY <1>2 DEF IInv, TypeOK, WkReqRun
  <2>2. Sending(c)' = Sending(c)
    BY <2>1 DEF Sending, WkReqRun, link
  <2>3. QED
    BY <1>3, <2>1, <2>2 DEF InOrder
<1>6. \A d \in Chip : d # c => Untouched(d)
  BY <1>2 DEF IInv, TypeOK, WkReqRun, Untouched, link
<1>7. QED
  BY <1>4, <1>5, <1>6, OneChipMoves

\* app_cmd_respond up to the transmission.
LEMMA RespondStartSafe ==
  ASSUME IInv, NEW c \in Chip, RespondStart(c)
  PROVE  IInv'
<1> DEFINE y == on_cmd_send_start(ctx[c])
<1>1. CASE ctx[c].state \in {"req_received", "req_sent"}
  <2>1. y \in Context /\ Consistent(y) /\ Alive(y, TRUE, FALSE)
    BY <1>1, EachInOrder, ResponseStarts DEF InOrder
  <2>2. ctx' = [ctx EXCEPT ![c] = y] /\ wk' = [wk EXCEPT ![c] = "respond"]
    BY <1>1 DEF RespondStart
  <2> HIDE DEF y
  <2>3. TypeOK'
    <3>1. ctx' \in [Chip -> Context]
      BY <2>1, <2>2 DEF IInv, TypeOK
    <3>2. QED
      BY <2>2, <3>1 DEF IInv, TypeOK, RespondStart, link, history
  <2>4. InOrder(c)'
    <3>1. ctx'[c] = y /\ wk'[c] = "respond"
      BY <2>2 DEF IInv, TypeOK
    <3>2. QED
      BY <2>1, <3>1 DEF InOrder, Sending
  <2>5. \A d \in Chip : d # c => Untouched(d)
    BY <2>2 DEF IInv, TypeOK, RespondStart, Untouched, link
  <2>6. QED
    BY <2>3, <2>4, <2>5, OneChipMoves
<1>2. CASE ctx[c].state \notin {"req_received", "req_sent"}
  <2>1. ctx' = ctx /\ wk' = [wk EXCEPT ![c] = "none"]
    BY <1>2 DEF RespondStart
  <2>2. TypeOK'
    BY <2>1 DEF IInv, TypeOK, RespondStart, link, history
  <2>3. InOrder(c)'
    <3>1. ctx'[c] = ctx[c] /\ wk'[c] = "none" /\ wk[c] = "req"
      BY <2>1 DEF IInv, TypeOK, RespondStart
    <3>2. Sending(c)' = Sending(c)
      BY <3>1 DEF Sending, RespondStart, link
    <3>3. QED
      BY <1>2, <3>1, <3>2, EachInOrder DEF InOrder, Alive
  <2>4. \A d \in Chip : d # c => Untouched(d)
    BY <2>1 DEF IInv, TypeOK, RespondStart, Untouched, link
  <2>5. QED
    BY <2>2, <2>3, <2>4, OneChipMoves
<1>3. QED
  BY <1>1, <1>2

\* The transmission of a response.
LEMMA RespondSendSafe ==
  ASSUME IInv, NEW c \in Chip, RespondSend(c)
  PROVE  IInv'
<1>1. PICK f \in Frame : Transmit(c, f)
  <2>1. rx[c].buf \in Seq(Unit)
    BY DEF IInv, TypeOK, Receiver
  <2>2. PICK g \in buff_to_cmd(rx[c].buf) :
          Transmit(c, [kind |-> "rsp", op |-> g.op, id |-> g.id])
    BY DEF RespondSend
  <2>3. g \in Frame
    BY <2>1, <2>2, ReadType
  <2>4. [kind |-> "rsp", op |-> g.op, id |-> g.id] \in Frame
    BY <2>3 DEF Frame
  <2>5. QED
    BY <2>2, <2>4
<1>2. /\ txBuf' \in [Chip -> Frame]
      /\ txq' \in [Chip -> Seq(Unit)]
      /\ \A d \in Chip : Len(txq'[d]) <= PktLen
      /\ txq'[c] # <<>>
      /\ \A d \in Chip : d # c => txq'[d] = txq[d]
  BY <1>1, TransmitBusy DEF IInv
<1>3. TypeOK'
  BY <1>2 DEF IInv, TypeOK, RespondSend, history
<1>4. InOrder(c)'
  <2>1. ctx'[c] = ctx[c] /\ wk[c] = "respond" /\ Sending(c)'
    BY <1>2 DEF RespondSend, Sending
  <2>2. QED
    BY <2>1, EachInOrder DEF InOrder, Alive
<1>5. \A d \in Chip : d # c => Untouched(d)
  BY <1>2 DEF IInv, TypeOK, RespondSend, Untouched
<1>6. QED
  BY <1>3, <1>4, <1>5, OneChipMoves

\* wk_proc_rsp_handler going to idle.
LEMMA WkRspRunSafe ==
  ASSUME IInv, NEW c \in Chip, WkRspRun(c)
  PROVE  IInv'
<1> DEFINE x0 == [ctx[c] EXCEPT !.wkRsp = FALSE]
           y == state_set(x0, "idle")
<1>1. x0 \in Context /\ Consistent(x0)
  <2>1. ctx[c] \in Context /\ Consistent(ctx[c])
    BY EachInOrder DEF InOrder
  <2>2. QED
    BY <2>1 DEF Context, Consistent
<1>2. ctx' = [ctx EXCEPT ![c] = y]
  BY DEF WkRspRun
<1> HIDE DEF x0
<1>3. y \in Context /\ Consistent(y) /\ Alive(y, FALSE, FALSE)
  BY <1>1, ReturnsToIdle
<1> HIDE DEF y
<1>4. TypeOK'
  <2>1. ctx' \in [Chip -> Context]
    BY <1>2, <1>3 DEF IInv, TypeOK
  <2>2. QED
    BY <2>1 DEF IInv, TypeOK, WkRspRun, link, history
<1>5. InOrder(c)'
  BY <1>2, <1>3 DEF IInv, TypeOK, InOrder, Alive
<1>6. \A d \in Chip : d # c => Untouched(d)
  BY <1>2 DEF IInv, TypeOK, WkRspRun, Untouched, link
<1>7. QED
  BY <1>4, <1>5, <1>6, OneChipMoves

\* wk_proc_rsp_handler calling the callback.
LEMMA WkRspReadSafe ==
  ASSUME IInv, NEW c \in Chip, WkRspRead(c)
  PROVE  IInv'
<1>1. TypeOK'
  <2>1. PICK f \in Frame :
          replies' = IF f.op \in Op
                     THEN [replies EXCEPT ![c] = Append(@, Reply("rsp", f))]
                     ELSE replies
    <3>1. rx[c].buf \in Seq(Unit)
      BY DEF IInv, TypeOK, Receiver
    <3>2. QED
      BY <3>1, ReadType DEF WkRspRead, cmd_cb_get
  <2>2. f.op \in Op => Reply("rsp", f) \in Conclusion
    BY DEF Frame, Reply, Conclusion
  <2>3. replies' \in [Chip -> Seq(Conclusion)]
    BY <2>1, <2>2 DEF IInv, TypeOK
  <2>4. QED
    BY <2>3 DEF IInv, TypeOK, WkRspRead, link
<1>2. InOrder(c)'
  <2>1. ctx'[c] = ctx[c] /\ wk[c] = "rsp" /\ wk'[c] = "none"
    BY DEF IInv, TypeOK, WkRspRead
  <2>2. Sending(c)' = Sending(c)
    BY <2>1 DEF Sending, WkRspRead, link
  <2>3. QED
    BY <2>1, <2>2, EachInOrder DEF InOrder
<1>3. \A d \in Chip : d # c => Untouched(d)
  BY DEF IInv, TypeOK, WkRspRead, Untouched, link
<1>4. QED
  BY <1>1, <1>2, <1>3, OneChipMoves

\* Losses and damages on the wire.
LEMMA WireSafe ==
  ASSUME IInv, NEW c \in Chip, NEW k \in 1..Len(line[c]), Lose(c, k) \/ Corrupt(c, k)
  PROVE  IInv'
<1>1. line' \in [Chip -> Seq(Unit)] /\ faults' \in Nat
  <2>1. line[c] \in Seq(Unit)
    BY DEF IInv, TypeOK
  <2>2. CASE Lose(c, k)
    BY <2>1, <2>2, DropAtType DEF IInv, TypeOK, Lose, Strike
  <2>3. CASE Corrupt(c, k)
    <3>1. [line[c] EXCEPT ![k] = Junk] \in Seq(Unit)
      BY <2>1, JunkType, ExceptSeq
    <3>2. line' = [line EXCEPT ![c] = [line[c] EXCEPT ![k] = Junk]]
      BY <2>3 DEF Corrupt
    <3>3. QED
      BY <2>3, <3>1, <3>2 DEF IInv, TypeOK, Corrupt, Strike
  <2>4. QED
    BY <2>2, <2>3
<1>2. UNCHANGED <<ctx, pc, wk, txBuf, txq, rx, sent, served, replies>>
  BY DEF Lose, Corrupt, link, history
<1>3. TypeOK'
  BY <1>1, <1>2 DEF IInv, TypeOK
<1>4. \A d \in Chip : Untouched(d)
  BY <1>2 DEF Untouched
<1>5. InOrder(c)'
  BY <1>2, EachInOrder DEF InOrder, Sending
<1>6. QED
  BY <1>3, <1>4, <1>5, OneChipMoves

-----------------------------------------------------------------------------
(* The theorems *)

\* The invariant holds after app_cmd_init.
LEMMA Initially == Init => IInv
<1> SUFFICES ASSUME Init PROVE IInv
  OBVIOUS
<1>1. TypeOK
  <2>1. \A c \in Chip : txq[c] = <<>> /\ rx[c] \in Receiver
    BY DEF Init, Receiver
  <2>2. rx \in [Chip -> Receiver]
    BY <2>1 DEF Init
  <2>3. ctx \in [Chip -> Context] /\ txBuf \in [Chip -> Frame]
    BY JunkType DEF Init, Context, State
  <2>4. QED
    BY <2>1, <2>2, <2>3 DEF Init, TypeOK
<1>2. ModeMatchesState /\ NeverStranded
  BY DEF Init, ModeMatchesState, NeverStranded, Consistent, Alive
<1>3. QED
  BY <1>1, <1>2 DEF IInv

\* Every step keeps the invariant.
LEMMA Inductively == IInv /\ [Next]_vars => IInv'
<1> SUFFICES ASSUME IInv, [Next]_vars PROVE IInv'
  OBVIOUS
<1>1. ASSUME NEW c \in Chip, Request(c) PROVE IInv'
  BY <1>1, ReqCheckSafe, ReqStartSafe, ReqSendSafe DEF Request
<1>2. ASSUME NEW c \in Chip, Transmission(c) PROVE IInv'
  BY <1>2, TxShiftSafe, TxAbortSafe DEF Transmission
<1>3. ASSUME NEW c \in Chip, Reception(c) PROVE IInv'
  BY <1>3, RxReadySafe DEF Reception
<1>4. ASSUME NEW c \in Chip, Timeout(c) PROVE IInv'
  BY <1>4, TimeoutSafe
<1>5. ASSUME NEW c \in Chip, WorkQueue(c) PROVE IInv'
  BY <1>5, WkReqRunSafe, RespondStartSafe, RespondSendSafe, WkRspRunSafe,
     WkRspReadSafe DEF WorkQueue
<1>6. ASSUME NEW c \in Chip, Wire(c) PROVE IInv'
  BY <1>6, WireSafe DEF Wire
<1>7. CASE UNCHANGED vars
  BY <1>7 DEF IInv, TypeOK, ModeMatchesState, NeverStranded, Sending, vars
<1>8. QED
  BY <1>1, <1>2, <1>3, <1>4, <1>5, <1>6, <1>7 DEF Next

\* In every state each chip is in a mode that fits its state and has something
\* pending that ends that state.
THEOREM Invariance == Spec => []IInv
<1>1. QED
  BY Initially, Inductively, PTL DEF Spec

\* Every variable keeps its type, and a chip rests only in resting states.
THEOREM TypeCorrect == Spec => []TypeOK
BY Invariance, PTL DEF IInv

\* The mode of a chip and its state never disagree.
THEOREM ModeFollowsState == Spec => []ModeMatchesState
BY Invariance, PTL DEF IInv

\* A chip that is not idle has something pending that moves it on, except a
\* slave in the middle of a request.
THEOREM NobodyStranded == Spec => []NeverStranded
BY Invariance, PTL DEF IInv

-----------------------------------------------------------------------------
(* A chip that only serves executes every request at most once, however    *)
(* late the timeouts and whatever is lost, damaged or aborted.  Responses  *)
(* carry no number and requests neither; what makes this true is the order *)
(* of the units on the wire and that each unit is read once.               *)

-----------------------------------------------------------------------------
(* Units on their way *)

\* The ids of the frames whose CRC, the last unit, is in a sequence of units.
Crcs(q) == {q[k].f.id : k \in {j \in DOMAIN q : q[j].i = PktLen}}

Below(x, y) == \A m \in Crcs(x), n \in Crcs(y) : m < n

Rising(q) ==
  \A j, k \in DOMAIN q :
    j < k /\ q[j].i = PktLen /\ q[k].i = PktLen => q[j].f.id < q[k].f.id

\* No unit is the beginning of a request.
Responses(q) == \A k \in DOMAIN q : q[k].i = 1 => q[k].f.kind = "rsp"

\* What a concatenation holds.
LEMMA Joined ==
  ASSUME NEW x \in Seq(Unit), NEW y \in Seq(Unit)
  PROVE  /\ x \o y \in Seq(Unit)
         /\ Crcs(x \o y) = Crcs(x) \cup Crcs(y)
         /\ Rising(x) /\ Rising(y) /\ Below(x, y) => Rising(x \o y)
         /\ Responses(x) /\ Responses(y) => Responses(x \o y)
<1> DEFINE z == x \o y
<1>1. /\ z \in Seq(Unit) /\ Len(x) \in Nat /\ Len(y) \in Nat
      /\ DOMAIN x = 1..Len(x) /\ DOMAIN y = 1..Len(y) /\ DOMAIN z = 1..(Len(x) + Len(y))
      /\ \A k \in DOMAIN x : k \in DOMAIN z /\ z[k] = x[k]
      /\ \A k \in DOMAIN y : k + Len(x) \in DOMAIN z /\ z[k + Len(x)] = y[k]
  BY ConcatProperties
<1> HIDE DEF z
<1>2. \A k \in DOMAIN z : k \notin DOMAIN x => k - Len(x) \in DOMAIN y /\ z[k] = y[k - Len(x)]
  <2>1. ASSUME NEW k \in DOMAIN z, k \notin DOMAIN x
        PROVE  k - Len(x) \in DOMAIN y /\ z[k] = y[k - Len(x)]
    <3>1. k - Len(x) \in DOMAIN y
      BY <1>1, <2>1
    <3>2. (k - Len(x)) + Len(x) = k
      BY <1>1, <2>1
    <3>3. QED
      BY <1>1, <3>1, <3>2
  <2>2. QED
    BY <2>1
<1>3. Crcs(z) = Crcs(x) \cup Crcs(y)
  <2>1. Crcs(z) \subseteq Crcs(x) \cup Crcs(y)
    BY <1>1, <1>2 DEF Crcs
  <2>2. Crcs(x) \subseteq Crcs(z)
    BY <1>1 DEF Crcs
  <2>3. Crcs(y) \subseteq Crcs(z)
    BY <1>1 DEF Crcs
  <2>4. QED
    BY <2>1, <2>2, <2>3
<1>4. ASSUME Rising(x), Rising(y), Below(x, y) PROVE Rising(z)
  <2> SUFFICES ASSUME NEW j \in DOMAIN z, NEW k \in DOMAIN z,
                      j < k, z[j].i = PktLen, z[k].i = PktLen
               PROVE  z[j].f.id < z[k].f.id
    BY DEF Rising
  <2>1. CASE j \in DOMAIN x /\ k \in DOMAIN x
    BY <1>1, <1>4, <2>1 DEF Rising
  <2>2. CASE j \in DOMAIN x /\ k \notin DOMAIN x
    <3>1. z[j].f.id \in Crcs(x)
      BY <1>1, <2>2 DEF Crcs
    <3>2. z[k].f.id \in Crcs(y)
      BY <1>2, <2>2 DEF Crcs
    <3>3. QED
      BY <1>4, <3>1, <3>2 DEF Below
  <2>3. CASE j \notin DOMAIN x /\ k \notin DOMAIN x
    <3>1. j - Len(x) < k - Len(x)
      BY <1>1
    <3>2. QED
      BY <1>2, <1>4, <2>3, <3>1 DEF Rising
  <2>4. CASE j \notin DOMAIN x /\ k \in DOMAIN x
    BY <1>1, <2>4
  <2>5. QED
    BY <2>1, <2>2, <2>3, <2>4
<1>5. ASSUME Responses(x), Responses(y) PROVE Responses(z)
  BY <1>1, <1>2, <1>5 DEF Responses
<1>6. QED
  BY <1>1, <1>3, <1>4, <1>5 DEF z

\* What a part holds.
LEMMA Part ==
  ASSUME NEW x \in Seq(Unit), NEW m \in Nat \ {0}, NEW n \in 0..Len(x)
  PROVE  LET y == SubSeq(x, m, n) IN
         /\ y \in Seq(Unit)
         /\ Crcs(y) \subseteq Crcs(x)
         /\ Rising(x) => Rising(y)
         /\ Responses(x) => Responses(y)
<1> DEFINE y == SubSeq(x, m, n)
<1>1. Len(x) \in Nat /\ DOMAIN x = 1..Len(x)
  OBVIOUS
<1>2. /\ y \in Seq(Unit)
      /\ \A k \in DOMAIN y : k \in Nat /\ m + k - 1 \in DOMAIN x /\ y[k] = x[m + k - 1]
  <2>1. CASE m <= n
    <3>1. m \in 1..Len(x) /\ n \in m..Len(x) 
      BY <1>1, <2>1
    <3>2. y \in Seq(Unit) /\ Len(y) = n - m + 1 /\ \A k \in 1..Len(y) : y[k] = x[m + k - 1]
      BY <3>1, SubSeqProperties
    <3>3. DOMAIN y = 1..(n - m + 1)
      BY <3>2
    <3>4. \A k \in 1..(n - m + 1) : k \in Nat /\ m + k - 1 \in 1..Len(x)
      BY <1>1, <3>1
    <3>5. QED
      BY <1>1, <3>2, <3>3, <3>4
  <2>2. CASE ~(m <= n)
    <3>1. y = <<>>
      BY <1>1, <2>2, SubSeqProperties
    <3>2. QED
      BY <3>1
  <2>3. QED
    BY <2>1, <2>2
<1> HIDE DEF y
<1>3. Crcs(y) \subseteq Crcs(x)
  BY <1>2 DEF Crcs
<1>4. ASSUME Rising(x) PROVE Rising(y)
  <2> SUFFICES ASSUME NEW j \in DOMAIN y, NEW k \in DOMAIN y,
                      j < k, y[j].i = PktLen, y[k].i = PktLen
               PROVE  y[j].f.id < y[k].f.id
    BY DEF Rising
  <2>1. m + j - 1 < m + k - 1
    BY <1>2
  <2>2. QED
    BY <1>2, <1>4, <2>1 DEF Rising
<1>5. Responses(x) => Responses(y)
  BY <1>2 DEF Responses
<1>6. QED
  BY <1>2, <1>3, <1>4, <1>5 DEF y

\* A sequence that rises is cut into two.
LEMMA Cut ==
  ASSUME NEW x \in Seq(Unit), NEW n \in 0..Len(x), NEW m \in (n + 1)..(Len(x) + 1), Rising(x)
  PROVE  Below(SubSeq(x, 1, n), SubSeq(x, m, Len(x)))
<1> DEFINE a == SubSeq(x, 1, n)
           b == SubSeq(x, m, Len(x))
<1>1. Len(x) \in Nat /\ DOMAIN x = 1..Len(x)
  OBVIOUS
<1>2. \A k \in DOMAIN a : k \in DOMAIN x /\ k <= n /\ a[k] = x[k]
  <2>1. Len(a) = n /\ \A k \in 1..n : a[k] = x[1 + k - 1]
    BY <1>1, SubSeqProperties
  <2>2. DOMAIN a = 1..n
    BY <1>1, <2>1, SubSeqProperties
  <2>3. QED
    BY <1>1, <2>1, <2>2
<1>3. \A k \in DOMAIN b : m + k - 1 \in DOMAIN x /\ n < m + k - 1 /\ b[k] = x[m + k - 1]
  <2>1. CASE m <= Len(x)
    <3>1. m \in 1..Len(x) /\ b \in Seq(Unit) /\ Len(b) = Len(x) - m + 1
          /\ \A k \in 1..Len(b) : b[k] = x[m + k - 1]
      BY <1>1, <2>1, SubSeqProperties
    <3>2. DOMAIN b = 1..(Len(x) - m + 1)
      BY <3>1
    <3>3. QED
      BY <1>1, <3>1, <3>2
  <2>2. CASE ~(m <= Len(x))
    BY <1>1, <2>2, SubSeqProperties
  <2>3. QED
    BY <2>1, <2>2
<1> HIDE DEF a, b
<1>4. ASSUME NEW j \in DOMAIN a, NEW k \in DOMAIN b, a[j].i = PktLen, b[k].i = PktLen
      PROVE  a[j].f.id < b[k].f.id
  <2>1. j < m + k - 1
    BY <1>1, <1>2, <1>3
  <2>2. QED
    BY <1>2, <1>3, <1>4, <2>1 DEF Rising
<1>5. QED
  BY <1>4 DEF Below, Crcs, a, b

\* The ids are numbers; a sequence without units has none.
LEMMA CrcsAreIds ==
  /\ \A x \in Seq(Unit) : Crcs(x) \subseteq Nat
  /\ Crcs(<<>>) = {} /\ Rising(<<>>) /\ Responses(<<>>)
  /\ <<>> \in Seq(Unit)
<1>1. ASSUME NEW x \in Seq(Unit) PROVE Crcs(x) \subseteq Nat
  <2>1. \A k \in DOMAIN x : x[k] \in Unit
    OBVIOUS
  <2>2. \A u \in Unit : u.f.id \in Nat
    BY DEF Unit, Frame
  <2>3. QED
    BY <2>1, <2>2 DEF Crcs
<1>2. <<>> \in Seq(Unit) /\ DOMAIN <<>> = {}
  OBVIOUS
<1>3. Crcs(<<>>) = {} /\ Rising(<<>>) /\ Responses(<<>>)
  BY <1>2 DEF Crcs, Rising, Responses
<1>4. QED
  BY <1>1, <1>2, <1>3

\* A unit that is lost or damaged.
LEMMA OneLess ==
  ASSUME NEW x \in Seq(Unit), NEW k \in 1..Len(x), NEW y \in {DropAt(x, k), [x EXCEPT ![k] = Junk]}
  PROVE  /\ y \in Seq(Unit)
         /\ Crcs(y) \subseteq Crcs(x)
         /\ Rising(x) => Rising(y)
         /\ Responses(x) => Responses(y)
<1>1. Len(x) \in Nat /\ k \in Nat /\ k - 1 \in 0..Len(x) /\ k + 1 \in Nat \ {0}
      /\ Len(x) \in 0..Len(x)
  OBVIOUS
<1>2. CASE y = DropAt(x, k)
  <2> DEFINE a == SubSeq(x, 1, k - 1)
             b == SubSeq(x, k + 1, Len(x))
  <2>1. /\ a \in Seq(Unit) /\ Crcs(a) \subseteq Crcs(x)
        /\ Rising(x) => Rising(a)
        /\ Responses(x) => Responses(a)
    BY <1>1, Part
  <2>2. /\ b \in Seq(Unit) /\ Crcs(b) \subseteq Crcs(x)
        /\ Rising(x) => Rising(b)
        /\ Responses(x) => Responses(b)
    BY <1>1, Part
  <2>3. Rising(x) => Below(a, b)
    <3>1. k + 1 \in ((k - 1) + 1)..(Len(x) + 1)
      BY <1>1
    <3>2. QED
      BY <1>1, <3>1, Cut
  <2>4. y = a \o b
    BY <1>2 DEF DropAt
  <2> HIDE DEF a, b
  <2>5. QED
    BY <2>1, <2>2, <2>3, <2>4, Joined
<1>3. CASE y = [x EXCEPT ![k] = Junk]
  <2>1. y \in Seq(Unit) /\ DOMAIN y = DOMAIN x /\ DOMAIN x = 1..Len(x)
    BY <1>3, JunkType, ExceptSeq
  <2>2. \A j \in DOMAIN y : y[j] = x[j] \/ y[j] = Junk
    BY <1>3, <2>1
  <2>3. Junk.i = 0 /\ PktLen # 0
    BY DEF Junk
  <2>4. \A j \in DOMAIN y : y[j].i = PktLen \/ y[j].i = 1 => y[j] = x[j]
    BY <2>2, <2>3
  <2>5. Crcs(y) \subseteq Crcs(x)
    BY <2>1, <2>4 DEF Crcs
  <2>6. Rising(x) => Rising(y)
    BY <2>1, <2>4 DEF Rising
  <2>7. Responses(x) => Responses(y)
    BY <2>1, <2>4 DEF Responses
  <2>8. QED
    BY <2>1, <2>5, <2>6, <2>7
<1>4. QED
  BY <1>2, <1>3

\* What the UART has to send after cmd_to_buff and uart_send: a whole frame, the
\* end of one, or something damaged.
LEMMA Transmitted ==
  ASSUME TypeOK, NEW c \in Chip, NEW f \in Frame, Transmit(c, f)
  PROVE  /\ \A d \in Chip : d # c => txq'[d] = txq[d]
         /\ txq'[c] \in Seq(Unit)
         /\ Crcs(txq'[c]) \subseteq {f.id}
         /\ Rising(txq'[c])
         /\ f.kind = "rsp" => Responses(txq'[c])
<1> DEFINE left == Len(txq[c])
           u == Units(f)
<1>1. u \in Seq(Unit) /\ Len(u) = PktLen /\ PktLen \in Nat
  BY UnitsType
<1>2. /\ Crcs(u) \subseteq {f.id}
      /\ Rising(u)
      /\ f.kind = "rsp" => Responses(u)
  <2>1. DOMAIN u = 1..PktLen /\ \A k \in 1..PktLen : u[k].f = f /\ u[k].i = k
    BY DEF Units
  <2> HIDE DEF u
  <2>2. Crcs(u) \subseteq {f.id}
    BY <2>1 DEF Crcs
  <2>3. Rising(u)
    BY <1>1, <2>1 DEF Rising
  <2>4. f.kind = "rsp" => Responses(u)
    BY <2>1 DEF Responses
  <2>5. QED
    BY <2>2, <2>3, <2>4
<1> HIDE DEF u
<1>3. left \in 0..PktLen
  BY DEF TypeOK
<1>4. CASE left = 0
  BY <1>1, <1>2, <1>4 DEF Transmit, uart_send, u, TypeOK
<1>5. CASE left # 0
  <2> DEFINE new == SubSeq(u, PktLen - left + 1, PktLen)
             bad == [k \in 1..left |-> Junk]
  <2>1. txq' = [txq EXCEPT ![c] = new] \/ txq' = [txq EXCEPT ![c] = bad]
    BY <1>5 DEF Transmit, uart_send, u
  <2>2. /\ new \in Seq(Unit) /\ Crcs(new) \subseteq {f.id} /\ Rising(new)
        /\ f.kind = "rsp" => Responses(new)
    <3>1. PktLen - left + 1 \in Nat \ {0} /\ PktLen \in 0..Len(u)
      BY <1>1, <1>3
    <3>2. QED
      BY <1>1, <1>2, <3>1, Part
  <2>3. /\ bad \in Seq(Unit) /\ Crcs(bad) \subseteq {f.id} /\ Rising(bad) /\ Responses(bad)
    <3>1. Junk.i = 0 /\ PktLen # 0
      BY DEF Junk
    <3>2. bad \in Seq(Unit) /\ DOMAIN bad = 1..left /\ \A k \in 1..left : bad[k] = Junk
      BY <1>3, JunkType
    <3> HIDE DEF bad
    <3>3. QED
      BY <3>1, <3>2 DEF Crcs, Rising, Responses
  <2> HIDE DEF left, new, bad
  <2>4. QED
    BY <2>1, <2>2, <2>3 DEF TypeOK
<1>6. QED
  BY <1>4, <1>5

-----------------------------------------------------------------------------
(* The order of the requests *)

\* b has been collected, l is on the line, q still to be sent, n the id of the
\* last request, and s what has been executed.
Flow(b, l, q, n, s) ==
  /\ Rising(l) /\ Rising(q)
  /\ Below(b, l) /\ Below(b, q) /\ Below(l, q)
  /\ \A m \in Crcs(b) \cup Crcs(l) \cup Crcs(q) : m <= n /\ \A k \in DOMAIN s : s[k] < m
  /\ \A k \in DOMAIN s : s[k] <= n

LEMMA FlowShrinks ==
  ASSUME NEW b, NEW l, NEW q, NEW n, NEW s, Flow(b, l, q, n, s),
         NEW b2, NEW l2, NEW q2,
         Crcs(b2) \subseteq Crcs(b), Crcs(l2) \subseteq Crcs(l), Crcs(q2) \subseteq Crcs(q),
         Rising(l2), Rising(q2)
  PROVE  Flow(b2, l2, q2, n, s)
BY DEF Flow, Below

\* A unit goes from the UART to the line.
LEMMA FlowShifts ==
  ASSUME NEW b, NEW l \in Seq(Unit), NEW q \in Seq(Unit), q # <<>>,
         NEW n, NEW s, Flow(b, l, q, n, s)
  PROVE  Flow(b, Append(l, Head(q)), Tail(q), n, s)
<1> DEFINE h == SubSeq(q, 1, 1)
           t == SubSeq(q, 2, Len(q))
<1>1. Len(q) \in Nat /\ Len(q) >= 1
  OBVIOUS
<1>2. Append(l, Head(q)) = l \o h /\ Tail(q) = t
  OBVIOUS
<1>3. h \in Seq(Unit) /\ Crcs(h) \subseteq Crcs(q) /\ (Rising(q) => Rising(h))
  BY <1>1, Part
<1>4. t \in Seq(Unit) /\ Crcs(t) \subseteq Crcs(q) /\ (Rising(q) => Rising(t))
  BY <1>1, Part
<1>5. Below(h, t)
  <2>1. 1 \in 0..Len(q) /\ 2 \in (1 + 1)..(Len(q) + 1)
    BY <1>1
  <2>2. QED
    BY <2>1, Cut DEF Flow
<1> HIDE DEF h, t
<1>6. Crcs(l \o h) = Crcs(l) \cup Crcs(h) /\ Rising(l \o h)
  BY <1>3, Joined DEF Flow, Below
<1>7. QED
  BY <1>2, <1>3, <1>4, <1>5, <1>6 DEF Flow, Below

\* Units are collected.
LEMMA FlowCollects ==
  ASSUME NEW b \in Seq(Unit), NEW l \in Seq(Unit), NEW q, NEW i \in 1..Len(l),
         NEW n, NEW s, Flow(b, l, q, n, s)
  PROVE  Flow(b \o SubSeq(l, 1, i), SubSeq(l, i + 1, Len(l)), q, n, s)
<1> DEFINE h == SubSeq(l, 1, i)
           t == SubSeq(l, i + 1, Len(l))
<1>1. Len(l) \in Nat /\ i \in 0..Len(l) /\ i + 1 \in Nat \ {0} /\ Len(l) \in 0..Len(l)
      /\ i + 1 \in (i + 1)..(Len(l) + 1)
  OBVIOUS
<1>2. h \in Seq(Unit) /\ Crcs(h) \subseteq Crcs(l)
  BY <1>1, Part
<1>3. t \in Seq(Unit) /\ Crcs(t) \subseteq Crcs(l) /\ (Rising(l) => Rising(t))
  BY <1>1, Part
<1>4. Below(h, t)
  BY <1>1, Cut DEF Flow
<1> HIDE DEF h, t
<1>5. Crcs(b \o h) = Crcs(b) \cup Crcs(h)
  BY <1>2, Joined
<1>6. QED
  BY <1>2, <1>3, <1>4, <1>5 DEF Flow, Below, h, t

\* The next request is sent.
LEMMA FlowSends ==
  ASSUME NEW b \in Seq(Unit), NEW l \in Seq(Unit), NEW q, NEW n \in Nat, NEW s \in Seq(Nat),
         Flow(b, l, q, n, s), NEW q2, Crcs(q2) \subseteq {n + 1}, Rising(q2)
  PROVE  Flow(b, l, q2, n + 1, s)
<1>1. \A m \in Crcs(b) \cup Crcs(l) : m \in Nat /\ m <= n /\ m < n + 1
  BY CrcsAreIds DEF Flow
<1>2. \A k \in DOMAIN s : s[k] \in Nat /\ s[k] <= n /\ s[k] < n + 1
  BY DEF Flow
<1>3. QED
  BY <1>1, <1>2 DEF Flow, Below

Distinct(s) == \A k \in DOMAIN s : \A j \in 1..(k - 1) : s[j] # s[k]

\* A request that has arrived whole is executed.
LEMMA FlowExecutes ==
  ASSUME NEW b \in Seq(Unit), NEW l \in Seq(Unit), NEW q \in Seq(Unit), NEW n \in Nat,
         NEW s \in Seq(Nat), Flow(b, l, q, n, s), Distinct(s), Intact(b)
  PROVE  LET s2 == Append(s, b[2].f.id) IN Flow(<<>>, l, q, n, s2) /\ Distinct(s2)
<1> DEFINE e == b[2].f.id
           s2 == Append(s, e)
<1>1. e \in Crcs(b)
  <2>1. DOMAIN b = 1..PktLen /\ PktLen \in DOMAIN b /\ b[PktLen] = [f |-> b[2].f, i |-> PktLen]
    BY DEF Intact
  <2>2. b[PktLen].i = PktLen /\ b[PktLen].f.id = e
    BY <2>1
  <2>3. QED
    BY <2>1, <2>2 DEF Crcs
<1>2. e \in Nat
  BY <1>1, CrcsAreIds
<1>3. /\ Len(s) \in Nat /\ DOMAIN s = 1..Len(s) /\ DOMAIN s2 = 1..(Len(s) + 1)
      /\ s2[Len(s) + 1] = e /\ \A k \in 1..Len(s) : s2[k] = s[k]
  BY <1>2
<1> HIDE DEF e, s2
<1>4. \A k \in 1..Len(s) : s[k] \in Nat /\ s[k] < e
  <2>1. e \in Crcs(b) \cup Crcs(l) \cup Crcs(q)
    BY <1>1
  <2>2. \A k \in DOMAIN s : s[k] < e
    BY <2>1 DEF Flow
  <2>3. \A k \in DOMAIN s : s[k] \in Nat
    OBVIOUS
  <2>4. DOMAIN s = 1..Len(s)
    BY <1>3
  <2>5. QED
    BY <2>2, <2>3, <2>4
<1>5. \A m \in Crcs(l) \cup Crcs(q) : e < m
  BY <1>1 DEF Flow, Below
<1>6. \A k \in DOMAIN s2 : k \in 1..Len(s) \/ (k = Len(s) + 1 /\ s2[k] = e)
  BY <1>3
<1>7. Distinct(s2)
  <2> SUFFICES ASSUME NEW k \in DOMAIN s2, NEW j \in 1..(k - 1) PROVE s2[j] # s2[k]
    BY DEF Distinct
  <2>1. j \in 1..Len(s)
    BY <1>3
  <2>2. CASE k \in 1..Len(s)
    BY <1>3, <2>1, <2>2 DEF Distinct
  <2>3. CASE k = Len(s) + 1
    BY <1>2, <1>3, <1>4, <2>1, <2>3
  <2>4. QED
    BY <1>6, <2>2, <2>3
<1>8. Flow(<<>>, l, q, n, s2)
  <2>1. Crcs(<<>>) = {}
    BY CrcsAreIds
  <2>2. \A m \in Crcs(l) \cup Crcs(q) : \A k \in DOMAIN s2 : s2[k] < m
    BY <1>3, <1>5, <1>6 DEF Flow
  <2>3. \A k \in DOMAIN s2 : s2[k] <= n
    BY <1>1, <1>3, <1>6 DEF Flow
  <2>4. QED
    BY <2>1, <2>2, <2>3 DEF Flow, Below
<1>9. QED
  BY <1>7, <1>8 DEF e, s2

-----------------------------------------------------------------------------
(* The invariant of a chip that only serves *)

\* It is never in host mode, and does one thing at a time.
OneTask(c) ==
  /\ ctx[c].mode # "host" /\ ~ctx[c].timer /\ ~ctx[c].wkRsp /\ wk[c] # "rsp"
  /\ ctx[c].wkReq => ctx[c].state = "req_received" /\ wk[c] = "none"
  /\ wk[c] = "req" => ctx[c].state = "req_received"
  /\ wk[c] = "respond" => ctx[c].state = "rsp_sending" /\ txq[c] = <<>>
  /\ txq[c] # <<>> => ctx[c].state = "rsp_sending"

\* Its peer gets responses only, so that it executes nothing.
PeerOnlyAsks(c) ==
  /\ ~ctx[Peer[c]].wkReq /\ wk[Peer[c]] \notin {"req", "respond"}
  /\ Responses(txq[c]) /\ Responses(line[Peer[c]]) /\ Responses(rx[Peer[c]].buf)

\* What is being collected or waits to be executed.
Collected(c) == IF rx[c].started \/ ctx[c].wkReq THEN rx[c].buf ELSE <<>>

\* Requests come in their order, and what waits to be executed is whole.
InOrderOnce(c) ==
  /\ ctx[c].wkReq => Intact(rx[c].buf) /\ ~rx[c].started
  /\ Flow(Collected(c), line[c], txq[Peer[c]], sent[Peer[c]], served[c])
  /\ Distinct(served[c])

Serves(c) == OneTask(c) /\ PeerOnlyAsks(c) /\ InOrderOnce(c)

\* What the three parts read.
TaskView(c) == <<ctx[c], wk[c], txq[c]>>
PeerView(c) ==
  <<txq[c], line[Peer[c]], rx[Peer[c]].buf, ctx[Peer[c]].wkReq, wk[Peer[c]]>>
FlowView(c) ==
  <<rx[c], ctx[c].wkReq, line[c], txq[Peer[c]], sent[Peer[c]], served[c]>>

LEMMA Unseen ==
  ASSUME NEW c \in Chip, Serves(c)
  PROVE  /\ UNCHANGED TaskView(c) => OneTask(c)'
         /\ UNCHANGED PeerView(c) => PeerOnlyAsks(c)'
         /\ UNCHANGED FlowView(c) => InOrderOnce(c)'
<1>1. UNCHANGED TaskView(c) => OneTask(c)'
  BY DEF Serves, OneTask, TaskView
<1>2. UNCHANGED PeerView(c) => PeerOnlyAsks(c)'
  BY DEF Serves, PeerOnlyAsks, PeerView
<1>3. ASSUME UNCHANGED FlowView(c) PROVE InOrderOnce(c)'
  <2>1. Collected(c)' = Collected(c)
    BY <1>3 DEF Collected, FlowView
  <2>2. QED
    BY <1>3, <2>1 DEF Serves, InOrderOnce, FlowView, Collected
<1>4. QED
  BY <1>1, <1>2, <1>3

\* The types, chip by chip.
LEMMA OfChip ==
  ASSUME TypeOK, NEW c \in Chip
  PROVE  /\ Peer[c] \in Chip /\ Peer[c] # c /\ Peer[Peer[c]] = c
         /\ ctx[c] \in Context /\ txq[c] \in Seq(Unit) /\ line[c] \in Seq(Unit)
         /\ rx[c] \in Receiver /\ rx[c].buf \in Seq(Unit)
         /\ sent[c] \in Nat /\ served[c] \in Seq(Nat) /\ wk[c] \in {"none", "req", "respond", "rsp"}
BY DEF TypeOK, Receiver

-----------------------------------------------------------------------------
(* Steps of other chips *)

LEMMA OthersKeepTxq ==
  ASSUME TypeOK, NEW d \in Chip, NEW f, Transmit(d, f), NEW e \in Chip, e # d
  PROVE  txq'[e] = txq[e]
<1>1. CASE Len(txq[d]) = 0
  BY <1>1 DEF Transmit, uart_send, TypeOK
<1>2. CASE Len(txq[d]) # 0
  <2>1. PICK tail : txq' = [txq EXCEPT ![d] = tail]
    BY <1>2 DEF Transmit, uart_send
  <2>2. QED
    BY <2>1 DEF TypeOK
<1>3. QED
  BY <1>1, <1>2

\* A step of one chip is seen by that chip and its peer only.
LEMMA OthersStay ==
  ASSUME TypeOK, NEW d \in Chip, NEW e \in Chip, e # d, e # Peer[d],
         \/ Request(d) \/ Transmission(d) \/ Reception(d)
         \/ Timeout(d) \/ WorkQueue(d) \/ Wire(d)
  PROVE  /\ ctx'[e] = ctx[e] /\ wk'[e] = wk[e] /\ pc'[e] = pc[e] /\ txBuf'[e] = txBuf[e]
         /\ txq'[e] = txq[e] /\ line'[e] = line[e] /\ rx'[e] = rx[e]
         /\ sent'[e] = sent[e] /\ served'[e] = served[e] /\ replies'[e] = replies[e]
<1>1. CASE Request(d)
  <2>1. PICK t \in Thread : ReqCheck(d, t) \/ ReqStart(d, t) \/ ReqSend(d, t)
    BY <1>1 DEF Request
  <2>2. CASE ReqCheck(d, t)
    BY <2>2 DEF ReqCheck, TypeOK, link, history
  <2>3. CASE ReqStart(d, t)
    BY <2>3 DEF ReqStart, TypeOK, link, history
  <2>4. CASE ReqSend(d, t)
    <3>1. PICK f : Transmit(d, f)
      BY <2>4 DEF ReqSend
    <3>2. txBuf'[e] = txBuf[e] /\ txq'[e] = txq[e]
      BY <3>1, OthersKeepTxq DEF Transmit, TypeOK
    <3>3. QED
      BY <2>4, <3>2 DEF ReqSend, TypeOK
  <2>5. QED
    BY <2>1, <2>2, <2>3, <2>4
<1>2. CASE Transmission(d)
  <2>1. CASE TxShift(d)
    BY <2>1 DEF TxShift, TypeOK, history
  <2>2. CASE TxAbort(d)
    BY <2>2 DEF TxAbort, TypeOK, history
  <2>3. QED
    BY <1>2, <2>1, <2>2 DEF Transmission
<1>3. CASE Reception(d)
  <2>1. PICK m \in 1..Len(line[d]) : RxReady(d, m)
    BY <1>3 DEF Reception
  <2>2. CASE ~Accepts(ctx[d])
    BY <2>1, <2>2 DEF RxReady, TypeOK, link, history
  <2>3. CASE Accepts(ctx[d])
    BY <2>1, <2>3 DEF RxReady, Collect, TypeOK, link, history
  <2>4. QED
    BY <2>2, <2>3
<1>4. CASE Timeout(d)
  <2>1. replies'[e] = replies[e]
    BY <1>4 DEF Timeout, TypeOK
  <2>2. QED
    BY <1>4, <2>1 DEF Timeout, TypeOK, link
<1>5. CASE WorkQueue(d)
  <2>1. CASE WkReqRun(d)
    BY <2>1 DEF WkReqRun, TypeOK, link
  <2>2. CASE RespondStart(d)
    <3>1. UNCHANGED <<pc, txBuf, txq, line, rx, sent, served, replies>>
      BY <2>2 DEF RespondStart, link, history
    <3>2. CASE ctx[d].state \in {"req_received", "req_sent"}
      <4>1. ctx' = [ctx EXCEPT ![d] = on_cmd_send_start(ctx[d])] /\ wk' = [wk EXCEPT ![d] = "respond"]
        BY <2>2, <3>2 DEF RespondStart
      <4>2. QED
        BY <3>1, <4>1 DEF TypeOK
    <3>3. CASE ctx[d].state \notin {"req_received", "req_sent"}
      <4>1. ctx' = ctx /\ wk' = [wk EXCEPT ![d] = "none"]
        BY <2>2, <3>3 DEF RespondStart
      <4>2. QED
        BY <3>1, <4>1 DEF TypeOK
    <3>4. QED
      BY <3>2, <3>3
  <2>3. CASE RespondSend(d)
    <3>1. PICK f : Transmit(d, f)
      BY <2>3 DEF RespondSend
    <3>2. txBuf'[e] = txBuf[e] /\ txq'[e] = txq[e]
      BY <3>1, OthersKeepTxq DEF Transmit, TypeOK
    <3>3. QED
      BY <2>3, <3>2 DEF RespondSend, TypeOK, history
  <2>4. CASE WkRspRun(d)
    BY <2>4 DEF WkRspRun, TypeOK, link, history
  <2>5. CASE WkRspRead(d)
    <3>1. replies'[e] = replies[e]
      BY <2>5 DEF WkRspRead, TypeOK
    <3>2. QED
      BY <2>5, <3>1 DEF WkRspRead, TypeOK, link
  <2>6. QED
    BY <1>5, <2>1, <2>2, <2>3, <2>4, <2>5 DEF WorkQueue
<1>6. CASE Wire(d)
  <2>1. PICK k \in 1..Len(line[d]) : Lose(d, k) \/ Corrupt(d, k)
    BY <1>6 DEF Wire
  <2>2. QED
    BY <2>1 DEF Lose, Corrupt, TypeOK, link, history
<1>7. QED
  BY <1>1, <1>2, <1>3, <1>4, <1>5, <1>6

\* Only the chip and its peer matter.
LEMMA FarSteps ==
  ASSUME IInv, NEW c \in Chip, Serves(c), NEW d \in Chip, d # c, d # Peer[c],
         \/ Request(d) \/ Transmission(d) \/ Reception(d)
         \/ Timeout(d) \/ WorkQueue(d) \/ Wire(d)
  PROVE  Serves(c)'
<1> DEFINE h == Peer[c]
<1>1. /\ h \in Chip /\ d # h /\ d # c /\ Peer[d] \in Chip /\ Peer[d] # c /\ Peer[d] # h
      /\ Peer[h] = c /\ TypeOK
  BY DEF IInv
<1> HIDE DEF h
<1>2. UNCHANGED <<TaskView(c), PeerView(c), FlowView(c)>>
  BY <1>1, OthersStay DEF TaskView, PeerView, FlowView, h
<1>3. QED
  BY <1>2, Unseen DEF Serves

-----------------------------------------------------------------------------
(* The handlers and the request work item *)

\* Only a complete request submits wk_proc_req_handler.
LEMMA RequestPending ==
  ASSUME NEW x \in Context
  PROVE  /\ on_cmd_send_start([x EXCEPT !.mode = "host"]).wkReq = x.wkReq
         /\ on_cmd_send_complete(x).wkReq = x.wkReq
         /\ on_cmd_send_error(x).wkReq = x.wkReq
         /\ on_cmd_receive_start(x).wkReq = x.wkReq
         /\ on_cmd_receive_error(x).wkReq = x.wkReq
         /\ state_set(x, "idle").wkReq = x.wkReq
         /\ x.mode # "slave" => on_cmd_receive_complete(x).wkReq = x.wkReq
<1>1. ASSUME NEW s \in {"idle", "req_sending", "rsp_sending", "req_sent", "rsp_sent", "err_send",
                        "req_receiving", "rsp_receiving", "rsp_received", "err_receive"}
      PROVE  /\ state_set(x, s).wkReq = x.wkReq
             /\ state_set([x EXCEPT !.mode = "host"], s).wkReq = x.wkReq
  BY DEF Context, State, state_set, state_handler, Idle, StartTimer, StopTimer
<1>2. x.mode \in {"idle", "host", "slave"}
  BY DEF Context
<1>3. QED
  BY <1>1, <1>2 DEF on_cmd_send_start, on_cmd_send_complete, on_cmd_send_error,
     on_cmd_receive_start, on_cmd_receive_error, on_cmd_receive_complete

-----------------------------------------------------------------------------
(* Steps of the chip itself *)

LEMMA ServerShifts ==
  ASSUME IInv, NEW c \in Chip, Serves(c), TxShift(c)
  PROVE  Serves(c)'
<1> DEFINE h == Peer[c]
           q == txq[c]
<1>1. TypeOK /\ h \in Chip /\ h # c
  BY OfChip DEF IInv
<1>2. /\ ctx[c] \in Context /\ q \in Seq(Unit) /\ line[h] \in Seq(Unit) /\ q # <<>>
  BY <1>1, OfChip DEF TxShift
<1> HIDE DEF h, q
<1>3. /\ line' = [line EXCEPT ![h] = Append(@, Head(q))] /\ txq' = [txq EXCEPT ![c] = Tail(q)]
      /\ ctx' = IF Len(q) = 1 THEN [ctx EXCEPT ![c] = on_cmd_send_complete(@)] ELSE ctx
      /\ UNCHANGED <<wk, rx, sent, served>>
  BY DEF TxShift, q, h, history
<1>4. /\ line'[h] = Append(line[h], Head(q)) /\ line'[c] = line[c]
      /\ txq'[c] = Tail(q) /\ txq'[h] = txq[h]
      /\ ctx'[h] = ctx[h]
      /\ ctx'[c] = IF Len(q) = 1 THEN on_cmd_send_complete(ctx[c]) ELSE ctx[c]
  BY <1>1, <1>3 DEF TypeOK
<1>5. OneTask(c)'
  <2>1. /\ ctx[c].state = "rsp_sending" /\ wk[c] = "none" /\ ~ctx[c].wkReq
        /\ ~ctx[c].timer /\ ~ctx[c].wkRsp /\ ctx[c].mode = "slave"
    <3>1. ctx[c].state = "rsp_sending" /\ ~ctx[c].wkReq /\ wk[c] = "none"
      BY <1>1, <1>2, OfChip DEF Serves, OneTask, q
    <3>2. Consistent(ctx[c])
      BY DEF IInv, ModeMatchesState
    <3>3. QED
      BY <3>1, <3>2 DEF Serves, OneTask, Consistent
  <2>2. CASE Len(q) = 1
    <3>1. Tail(q) = <<>>
      <4>1. Tail(q) \in Seq(Unit) /\ Len(Tail(q)) = 0
        BY <1>2, <2>2, HeadTailProperties
      <4>2. QED
        BY <4>1, EmptySeq
    <3>2. ctx'[c] = [ctx[c] EXCEPT !.state = "idle", !.mode = "idle"]
      BY <1>2, <1>4, <2>1, <2>2 DEF on_cmd_send_complete, state_set, state_handler, Idle, Context
    <3>3. /\ ctx'[c].state = "idle" /\ ctx'[c].mode = "idle" /\ ctx'[c].timer = ctx[c].timer
          /\ ctx'[c].wkRsp = ctx[c].wkRsp /\ ctx'[c].wkReq = ctx[c].wkReq
      BY <1>2, <3>2 DEF Context
    <3>4. QED
      BY <1>3, <1>4, <2>1, <3>1, <3>3 DEF OneTask
  <2>3. CASE Len(q) # 1
    BY <1>3, <1>4, <2>1, <2>3 DEF OneTask
  <2>4. QED
    BY <2>2, <2>3
<1>6. PeerOnlyAsks(c)'
  <2>1. Responses(q) /\ Responses(line[h])
    BY DEF Serves, PeerOnlyAsks, q, h
  <2>2. Len(q) \in Nat /\ Len(q) >= 1 /\ Append(line[h], Head(q)) = line[h] \o SubSeq(q, 1, 1)
        /\ Tail(q) = SubSeq(q, 2, Len(q))
    BY <1>2
  <2>3. SubSeq(q, 1, 1) \in Seq(Unit) /\ Responses(SubSeq(q, 1, 1)) /\ Responses(Tail(q))
    <3>1. 1 \in 0..Len(q) /\ Len(q) \in 0..Len(q) /\ 1 \in Nat \ {0} /\ 2 \in Nat \ {0}
      BY <2>2
    <3>2. SubSeq(q, 1, 1) \in Seq(Unit) /\ Responses(SubSeq(q, 1, 1))
      BY <1>2, <2>1, <3>1, Part
    <3>3. Responses(SubSeq(q, 2, Len(q)))
      BY <1>2, <2>1, <3>1, Part
    <3>4. QED
      BY <2>2, <3>2, <3>3
  <2>4. Responses(Append(line[h], Head(q)))
    BY <1>2, <2>1, <2>2, <2>3, Joined
  <2>5. QED
    BY <1>3, <1>4, <2>3, <2>4 DEF Serves, PeerOnlyAsks, h
<1>7. UNCHANGED FlowView(c)
  <2>1. ctx'[c].wkReq = ctx[c].wkReq
    BY <1>2, <1>4, RequestPending
  <2>2. QED
    BY <1>3, <1>4, <2>1 DEF FlowView, h
<1>8. QED
  BY <1>5, <1>6, <1>7, Unseen DEF Serves

LEMMA ServerAborts ==
  ASSUME IInv, NEW c \in Chip, Serves(c), TxAbort(c)
  PROVE  Serves(c)'
<1> DEFINE h == Peer[c]
<1>1. TypeOK /\ h \in Chip /\ h # c
  BY OfChip DEF IInv
<1>2. ctx[c] \in Context
  BY <1>1, OfChip
<1> HIDE DEF h
<1>3. /\ txq' = [txq EXCEPT ![c] = <<>>] /\ txq[c] # <<>>
      /\ ctx' = [ctx EXCEPT ![c] = on_cmd_send_error(ctx[c])]
      /\ UNCHANGED <<wk, line, rx, sent, served>>
  BY DEF TxAbort, history
<1>4. /\ txq'[c] = <<>> /\ txq'[h] = txq[h] /\ ctx'[h] = ctx[h]
      /\ ctx'[c] = on_cmd_send_error(ctx[c])
  BY <1>1, <1>3 DEF TypeOK
<1>5. OneTask(c)'
  <2>1. ctx[c].state = "rsp_sending" /\ ~ctx[c].wkReq /\ wk[c] = "none"
        /\ ~ctx[c].timer /\ ~ctx[c].wkRsp
    BY <1>1, <1>2, <1>3, OfChip DEF Serves, OneTask
  <2>2. ctx'[c] = [ctx[c] EXCEPT !.state = "idle", !.mode = "idle"]
    BY <1>2, <1>4, <2>1 DEF on_cmd_send_error, state_set, state_handler, Idle, Context
  <2>3. /\ ctx'[c].state = "idle" /\ ctx'[c].mode = "idle" /\ ctx'[c].timer = ctx[c].timer
        /\ ctx'[c].wkRsp = ctx[c].wkRsp /\ ctx'[c].wkReq = ctx[c].wkReq
    BY <1>2, <2>2 DEF Context
  <2>4. QED
    BY <1>3, <1>4, <2>1, <2>3 DEF OneTask
<1>6. PeerOnlyAsks(c)'
  BY <1>3, <1>4, CrcsAreIds DEF Serves, PeerOnlyAsks, h
<1>7. UNCHANGED FlowView(c)
  <2>1. ctx'[c].wkReq = ctx[c].wkReq
    BY <1>2, <1>4, RequestPending
  <2>2. QED
    BY <1>3, <1>4, <2>1 DEF FlowView, h
<1>8. QED
  BY <1>5, <1>6, <1>7, Unseen DEF Serves

\* A chip in idle or slave mode that a frame may reach.
Receptive(x) ==
  Consistent(x) /\ x.state \in {"idle", "req_receiving"} /\ ~x.timer /\ ~x.wkRsp /\ ~x.wkReq

LEMMA ServerReceives ==
  ASSUME NEW x \in Context, Receptive(x)
  PROVE  /\ \A y \in {on_cmd_receive_start(x), on_cmd_receive_error(x)} :
              y \in Context /\ Receptive(y)
         /\ LET y == on_cmd_receive_complete(x) IN
            /\ y.mode # "host" /\ ~y.timer /\ ~y.wkRsp
            /\ y.wkReq => x.mode = "slave" /\ y.state = "req_received"
<1>1. \/ x.state = "idle" /\ x.mode = "idle"
      \/ x.state = "req_receiving" /\ x.mode = "slave"
  BY DEF Context, State, Receptive, Consistent
<1> DEFINE idle == [x EXCEPT !.state = "idle", !.mode = "idle"]
           begun == [x EXCEPT !.state = "req_receiving", !.mode = "slave"]
           ended == [x EXCEPT !.state = "req_received", !.wkReq = TRUE]
<1>2. idle \in Context /\ Receptive(idle) /\ begun \in Context /\ Receptive(begun)
  BY DEF Context, State, Receptive, Consistent
<1>3. CASE x.state = "idle" /\ x.mode = "idle"
  <2>1. on_cmd_receive_start(x) = begun
    BY <1>3 DEF Context, on_cmd_receive_start, state_set, state_handler
  <2>2. on_cmd_receive_error(x) = idle
    BY <1>3 DEF Context, on_cmd_receive_error, state_set, state_handler, Idle
  <2>3. on_cmd_receive_complete(x) = x
    BY <1>3 DEF on_cmd_receive_complete
  <2> HIDE DEF idle, begun
  <2>4. QED
    BY <1>2, <1>3, <2>1, <2>2, <2>3 DEF Receptive
<1>4. CASE x.state = "req_receiving" /\ x.mode = "slave"
  <2>1. on_cmd_receive_start(x) = x
    BY <1>4 DEF on_cmd_receive_start, state_set
  <2>2. on_cmd_receive_error(x) = idle
    BY <1>4 DEF Context, on_cmd_receive_error, state_set, state_handler, Idle
  <2>3. on_cmd_receive_complete(x) = ended
    BY <1>4 DEF Context, on_cmd_receive_complete, state_set, state_handler
  <2>4. ended.mode = "slave" /\ ended.state = "req_received" /\ ended.timer = x.timer
        /\ ended.wkRsp = x.wkRsp
    BY <1>4 DEF Context
  <2> HIDE DEF idle, begun, ended
  <2>5. QED
    BY <1>2, <1>4, <2>1, <2>2, <2>3, <2>4 DEF Receptive
<1>5. QED
  BY <1>1, <1>3, <1>4

\* The interrupt for reception; a chunk comes from the line.
LEMMA ServerRx ==
  ASSUME IInv, NEW c \in Chip, Serves(c), NEW n \in 1..Len(line[c]), RxReady(c, n)
  PROVE  Serves(c)'
<1> DEFINE h == Peer[c]
           chunk == SubSeq(line[c], 1, n)
           rest == SubSeq(line[c], n + 1, Len(line[c]))
           stored == IF rx[c].started THEN rx[c].buf \o chunk ELSE chunk
           y == IF rx[c].started THEN ctx[c] ELSE on_cmd_receive_start(ctx[c])
<1>1. TypeOK /\ h \in Chip /\ h # c /\ Consistent(ctx[c])
  BY OfChip DEF IInv, ModeMatchesState
<1>2. /\ ctx[c] \in Context /\ line[c] \in Seq(Unit) /\ rx[c].buf \in Seq(Unit)
      /\ Len(line[c]) \in Nat
  BY <1>1, OfChip
<1>3. chunk \in Seq(Unit) /\ rest \in Seq(Unit) /\ Crcs(rest) \subseteq Crcs(line[c]) /\ Rising(rest)
  <2>1. n \in 0..Len(line[c]) /\ n + 1 \in Nat \ {0} /\ Len(line[c]) \in 0..Len(line[c])
    BY <1>2
  <2>2. Rising(line[c])
    BY DEF Serves, InOrderOnce, Flow
  <2>3. QED
    BY <1>2, <2>1, <2>2, Part
<1>4. line' = [line EXCEPT ![c] = rest] /\ UNCHANGED <<wk, txq, sent, served>>
  BY DEF RxReady, link, history
<1>5. line'[c] = rest /\ line'[h] = line[h]
  BY <1>1, <1>4 DEF TypeOK
<1>6. Flow(Collected(c), line[c], txq[h], sent[h], served[c]) /\ Distinct(served[c])
  BY DEF Serves, InOrderOnce
<1>7. CASE ~Accepts(ctx[c])
  <2>1. rx' = rx /\ ctx' = ctx
    BY <1>7 DEF RxReady
  <2>2. UNCHANGED <<TaskView(c), PeerView(c)>>
    BY <1>4, <1>5, <2>1 DEF TaskView, PeerView, h
  <2>3. Collected(c)' = Collected(c)
    BY <2>1 DEF Collected
  <2>4. Flow(Collected(c), rest, txq[h], sent[h], served[c])
    <3>1. Rising(txq[h])
      BY <1>6 DEF Flow
    <3>2. QED
      BY <1>3, <1>6, <3>1, FlowShrinks
  <2>5. InOrderOnce(c)'
    BY <1>4, <1>5, <2>1, <2>3, <2>4 DEF Serves, InOrderOnce, h
  <2>6. QED
    BY <2>2, <2>5, Unseen DEF Serves
<1>8. CASE Accepts(ctx[c])
  <2>1. Receptive(ctx[c]) /\ wk[c] = "none" /\ txq[c] = <<>>
    <3>1. ctx[c].state \in {"idle", "req_receiving"}
      BY <1>1, <1>2, <1>8 DEF Accepts, Consistent, Serves, OneTask, Context
    <3>2. wk[c] \in {"none", "req", "respond", "rsp"}
      BY <1>1, OfChip
    <3>3. QED
      BY <1>1, <3>1, <3>2 DEF Receptive, Serves, OneTask
  <2>2. y \in Context /\ Receptive(y)
    BY <1>2, <2>1, ServerReceives
  <2>3. stored \in Seq(Unit) /\ Flow(stored, rest, txq[h], sent[h], served[c])
    <3>1. CASE rx[c].started
      <4>1. Collected(c) = rx[c].buf
        BY <3>1 DEF Collected
      <4>2. QED
        BY <1>2, <1>3, <1>6, <3>1, <4>1, FlowCollects, Joined
    <3>2. CASE ~rx[c].started
      <4>1. Collected(c) = <<>>
        BY <2>1, <3>2 DEF Collected, Receptive
      <4>2. <<>> \o chunk = chunk /\ <<>> \in Seq(Unit)
        BY <1>3
      <4>3. Flow(<<>>, line[c], txq[h], sent[h], served[c])
        BY <1>6, <4>1
      <4>4. Flow(<<>> \o chunk, rest, txq[h], sent[h], served[c])
        BY <1>2, <4>2, <4>3, FlowCollects
      <4>5. stored = chunk
        BY <3>2
      <4> HIDE DEF stored, chunk, rest, h
      <4>6. QED
        BY <1>3, <4>2, <4>4, <4>5
    <3>3. QED
      BY <3>1, <3>2
  <2> HIDE DEF stored, y, chunk
  <2>4. PICK len : Collect(c, y, stored, len)
    BY <1>8 DEF RxReady, stored, y, chunk
  <2> DEFINE z == IF rx[c].need = 0 /\ len > MaxLen
                  THEN on_cmd_receive_error(y) ELSE y
             complete == len # 0 /\ Len(stored) >= len
             w == IF ~complete THEN z
                  ELSE IF format_check(c, stored, z.mode)
                       THEN on_cmd_receive_complete(z)
                       ELSE on_cmd_receive_error(z)
  <2>5. z \in Context /\ Receptive(z)
    BY <2>2, ServerReceives
  <2> HIDE DEF z
  <2>6. /\ w.mode # "host" /\ ~w.timer /\ ~w.wkRsp
        /\ w.wkReq => w.state = "req_received" /\ complete /\ Intact(stored)
    <3>1. CASE ~complete
      BY <2>5, <3>1 DEF Receptive, Consistent
    <3>2. CASE complete /\ format_check(c, stored, z.mode)
      <4>1. w = on_cmd_receive_complete(z) /\ Intact(stored)
        BY <3>2 DEF format_check
      <4> HIDE DEF w
      <4>2. QED
        BY <2>5, <3>2, <4>1, ServerReceives
    <3>3. CASE complete /\ ~format_check(c, stored, z.mode)
      <4>1. w = on_cmd_receive_error(z)
        BY <3>3
      <4> HIDE DEF w
      <4>2. Receptive(w)
        BY <2>5, <4>1, ServerReceives
      <4>3. QED
        BY <4>2 DEF Receptive, Consistent
    <3>4. QED
      BY <3>1, <3>2, <3>3
  <2>7. /\ rx' = [rx EXCEPT ![c] = [buf |-> stored, started |-> ~complete,
                                    need |-> IF complete THEN 0 ELSE len]]
        /\ ctx' = [ctx EXCEPT ![c] = w]
    BY <2>4 DEF Collect, z
  <2> HIDE DEF complete, w
  <2>8. /\ rx'[c].buf = stored /\ rx'[c].started = ~complete /\ rx'[h] = rx[h]
        /\ ctx'[c] = w /\ ctx'[h] = ctx[h]
    BY <1>1, <2>7 DEF TypeOK
  <2>9. OneTask(c)'
    BY <1>4, <2>1, <2>6, <2>8 DEF OneTask
  <2>10. UNCHANGED PeerView(c)
    BY <1>4, <1>5, <2>8 DEF PeerView, h
  <2>11. InOrderOnce(c)'
    <3>1. ctx'[c].wkReq => Intact(rx'[c].buf) /\ ~rx'[c].started
      BY <2>6, <2>8
    <3>2. Collected(c)' = stored \/ Collected(c)' = <<>>
      BY <2>8 DEF Collected
    <3>3. Crcs(Collected(c)') \subseteq Crcs(stored)
      BY <3>2, CrcsAreIds
    <3>4. Rising(rest) /\ Rising(txq[h])
      BY <1>6, <1>3 DEF Flow
    <3>5. Flow(Collected(c)', rest, txq[h], sent[h], served[c])
      BY <2>3, <3>3, <3>4, FlowShrinks
    <3>6. QED
      BY <1>4, <1>5, <1>6, <3>1, <3>5 DEF InOrderOnce, h
  <2>12. QED
    BY <2>9, <2>10, <2>11, Unseen DEF Serves
<1>9. QED
  BY <1>7, <1>8

\* wk_proc_req_handler executes the request that waits.
LEMMA ServerExecutes ==
  ASSUME IInv, NEW c \in Chip, Serves(c), WkReqRun(c)
  PROVE  Serves(c)'
<1> DEFINE h == Peer[c]
           buf == rx[c].buf
<1>1. TypeOK /\ h \in Chip /\ h # c
  BY OfChip DEF IInv
<1>2. /\ ctx[c] \in Context /\ line[c] \in Seq(Unit) /\ buf \in Seq(Unit)
      /\ txq[h] \in Seq(Unit) /\ sent[h] \in Nat /\ served[c] \in Seq(Nat)
  BY <1>1, OfChip
<1>3. /\ ctx[c].wkReq /\ wk[c] = "none"
      /\ ctx' = [ctx EXCEPT ![c].wkReq = FALSE] /\ wk' = [wk EXCEPT ![c] = "req"]
      /\ UNCHANGED <<txq, line, rx, sent>>
  BY DEF WkReqRun, link
<1>4. /\ ctx'[c] = [ctx[c] EXCEPT !.wkReq = FALSE] /\ wk'[c] = "req"
      /\ ctx'[h] = ctx[h] /\ wk'[h] = wk[h]
  BY <1>1, <1>3 DEF TypeOK
<1>5. Intact(buf) /\ ~rx[c].started /\ Collected(c) = buf
  BY <1>3 DEF Serves, InOrderOnce, Collected
<1>6. /\ ctx'[c].state = ctx[c].state /\ ctx'[c].mode = ctx[c].mode
      /\ ctx'[c].timer = ctx[c].timer /\ ctx'[c].wkRsp = ctx[c].wkRsp /\ ~ctx'[c].wkReq
  BY <1>2, <1>4 DEF Context
<1>7. OneTask(c)'
  BY <1>3, <1>4, <1>6 DEF Serves, OneTask
<1>8. UNCHANGED PeerView(c)
  BY <1>3, <1>4 DEF PeerView, h
<1>9. InOrderOnce(c)'
  <2>1. Flow(buf, line[c], txq[h], sent[h], served[c]) /\ Distinct(served[c])
    BY <1>5 DEF Serves, InOrderOnce
  <2>2. Collected(c)' = <<>>
    BY <1>3, <1>5, <1>6 DEF Collected
  <2>3. PICK f \in buff_to_cmd(buf) :
          served' = IF cmd_cb_get(f.op) THEN [served EXCEPT ![c] = Append(@, f.id)] ELSE served
    BY DEF WkReqRun
  <2>4. f.id = buf[2].f.id
    <3>1. f = FrameIn(buf)
      BY <1>5, <2>3 DEF buff_to_cmd
    <3>2. buf[2] \in Unit
      BY <1>2, <1>5 DEF Intact
    <3>3. QED
      BY <3>1, <3>2 DEF FrameIn, Unit, Frame
  <2>5. CASE cmd_cb_get(f.op)
    <3>1. served'[c] = Append(served[c], buf[2].f.id)
      BY <1>1, <2>3, <2>4, <2>5 DEF TypeOK
    <3>2. Flow(<<>>, line[c], txq[h], sent[h], served'[c]) /\ Distinct(served'[c])
      BY <1>2, <1>5, <2>1, <3>1, FlowExecutes
    <3>3. QED
      BY <1>3, <1>6, <2>2, <3>2 DEF InOrderOnce, h
  <2>6. CASE ~cmd_cb_get(f.op)
    <3>1. served' = served
      BY <2>3, <2>6
    <3>2. Rising(line[c]) /\ Rising(txq[h])
      BY <2>1 DEF Flow
    <3>3. Crcs(<<>>) \subseteq Crcs(buf)
      BY CrcsAreIds
    <3>4. Flow(<<>>, line[c], txq[h], sent[h], served[c])
      BY <2>1, <3>2, <3>3, FlowShrinks
    <3>5. QED
      BY <1>3, <1>6, <2>1, <2>2, <3>1, <3>4 DEF InOrderOnce, h
  <2>7. QED
    BY <2>5, <2>6
<1>10. QED
  BY <1>7, <1>8, <1>9, Unseen DEF Serves

\* The callback answers.
LEMMA ServerResponds ==
  ASSUME IInv, NEW c \in Chip, Serves(c), RespondStart(c)
  PROVE  Serves(c)'
<1> DEFINE h == Peer[c]
           x == [ctx[c] EXCEPT !.state = "rsp_sending"]
<1>1. TypeOK /\ h \in Chip /\ h # c /\ ctx[c] \in Context /\ Consistent(ctx[c])
  BY OfChip DEF IInv, ModeMatchesState
<1>2. /\ wk[c] = "req" /\ ctx[c].state = "req_received" /\ ctx[c].mode = "slave"
      /\ txq[c] = <<>> /\ ~ctx[c].wkReq /\ ~ctx[c].timer /\ ~ctx[c].wkRsp
  BY <1>1 DEF RespondStart, Serves, OneTask, Consistent
<1>3. on_cmd_send_start(ctx[c]) = x
  BY <1>1, <1>2 DEF on_cmd_send_start, state_set, state_handler, Context
<1>4. ctx' = [ctx EXCEPT ![c] = x] /\ wk' = [wk EXCEPT ![c] = "respond"]
  BY <1>2, <1>3 DEF RespondStart
<1>5. UNCHANGED <<txq, line, rx, sent, served>>
  BY DEF RespondStart, link, history
<1>6. /\ x.state = "rsp_sending" /\ x.mode = "slave" /\ ~x.wkReq /\ ~x.timer /\ ~x.wkRsp
      /\ x.wkReq = ctx[c].wkReq
  BY <1>1, <1>2 DEF Context
<1> HIDE DEF h, x
<1>7. ctx'[c] = x /\ wk'[c] = "respond" /\ ctx'[h] = ctx[h] /\ wk'[h] = wk[h]
  BY <1>1, <1>4 DEF TypeOK
<1>8. OneTask(c)'
  BY <1>2, <1>5, <1>6, <1>7 DEF OneTask
<1>9. UNCHANGED <<PeerView(c), FlowView(c)>>
  BY <1>5, <1>6, <1>7 DEF PeerView, FlowView, h
<1>10. QED
  BY <1>8, <1>9, Unseen DEF Serves

LEMMA ServerSends ==
  ASSUME IInv, NEW c \in Chip, Serves(c), RespondSend(c)
  PROVE  Serves(c)'
<1> DEFINE h == Peer[c]
<1>1. TypeOK /\ h \in Chip /\ h # c /\ rx[c].buf \in Seq(Unit)
  BY OfChip DEF IInv
<1> HIDE DEF h
<1>2. PICK g \in buff_to_cmd(rx[c].buf) :
        Transmit(c, [kind |-> "rsp", op |-> g.op, id |-> g.id])
  BY DEF RespondSend
<1>3. g \in Frame
  BY <1>1, <1>2, ReadType
<1>4. [kind |-> "rsp", op |-> g.op, id |-> g.id] \in Frame
  BY <1>3 DEF Frame
<1>5. Responses(txq'[c]) /\ txq'[h] = txq[h]
  BY <1>1, <1>2, <1>4, Transmitted
<1>6. /\ wk[c] = "respond" /\ wk' = [wk EXCEPT ![c] = "none"]
      /\ UNCHANGED <<ctx, line, rx, sent, served>>
  BY DEF RespondSend, history
<1>7. wk'[c] = "none" /\ wk'[h] = wk[h]
  BY <1>1, <1>6 DEF TypeOK
<1>8. OneTask(c)'
  BY <1>6, <1>7 DEF Serves, OneTask
<1>9. PeerOnlyAsks(c)'
  BY <1>5, <1>6, <1>7 DEF Serves, PeerOnlyAsks, h
<1>10. UNCHANGED FlowView(c)
  BY <1>5, <1>6 DEF FlowView, h
<1>11. QED
  BY <1>8, <1>9, <1>10, Unseen DEF Serves

\* A unit for the chip is lost or damaged.
LEMMA ServerWire ==
  ASSUME IInv, NEW c \in Chip, Serves(c),
         NEW k \in 1..Len(line[c]), Lose(c, k) \/ Corrupt(c, k)
  PROVE  Serves(c)'
<1> DEFINE h == Peer[c]
<1>1. TypeOK /\ h \in Chip /\ h # c /\ line[c] \in Seq(Unit)
  BY OfChip DEF IInv
<1> HIDE DEF h
<1>2. UNCHANGED <<ctx, wk, txq, rx, sent, served>>
  BY DEF Lose, Corrupt, link, history
<1>3. line'[h] = line[h] /\ line'[c] \in {DropAt(line[c], k), [line[c] EXCEPT ![k] = Junk]}
  BY <1>1 DEF Lose, Corrupt, TypeOK
<1>4. UNCHANGED <<TaskView(c), PeerView(c)>>
  BY <1>2, <1>3 DEF TaskView, PeerView, h
<1>5. InOrderOnce(c)'
  <2>1. Flow(Collected(c), line[c], txq[h], sent[h], served[c])
    BY DEF Serves, InOrderOnce, h
  <2>2. Rising(txq[h]) /\ Rising(line[c])
    BY <2>1 DEF Flow
  <2>3. Crcs(line'[c]) \subseteq Crcs(line[c]) /\ Rising(line'[c])
    BY <1>1, <1>3, <2>2, OneLess
  <2>4. Flow(Collected(c), line'[c], txq[h], sent[h], served[c])
    BY <2>1, <2>2, <2>3, FlowShrinks
  <2>5. Collected(c)' = Collected(c)
    BY <1>2 DEF Collected
  <2>6. QED
    BY <1>2, <2>4, <2>5 DEF Serves, InOrderOnce, h
<1>6. QED
  BY <1>4, <1>5, Unseen DEF Serves

-----------------------------------------------------------------------------
(* Steps of its peer *)

LEMMA PeerRequests ==
  ASSUME IInv, NEW c \in Chip, Serves(c), Request(Peer[c])
  PROVE  Serves(c)'
<1> DEFINE h == Peer[c]
<1>1. /\ TypeOK /\ h \in Chip /\ h # c /\ ctx[h] \in Context
      /\ rx[c].buf \in Seq(Unit) /\ line[c] \in Seq(Unit)
      /\ sent[h] \in Nat /\ served[c] \in Seq(Nat)
  BY OfChip DEF IInv
<1>2. PICK t \in Thread : ReqCheck(h, t) \/ ReqStart(h, t) \/ ReqSend(h, t)
  BY DEF Request
<1> HIDE DEF h
<1>3. CASE ReqCheck(h, t)
  <2>1. UNCHANGED <<TaskView(c), PeerView(c), FlowView(c)>>
    BY <1>3 DEF ReqCheck, link, history, TaskView, PeerView, FlowView
  <2>2. QED
    BY <2>1, Unseen DEF Serves
<1>4. CASE ReqStart(h, t)
  <2>1. /\ ctx'[h] = on_cmd_send_start([ctx[h] EXCEPT !.mode = "host"]) /\ ctx'[c] = ctx[c]
        /\ UNCHANGED <<wk, txq, line, rx, sent, served>>
    BY <1>1, <1>4 DEF ReqStart, link, history, TypeOK
  <2>2. ctx'[h].wkReq = ctx[h].wkReq
    BY <1>1, <2>1, RequestPending
  <2>3. UNCHANGED <<TaskView(c), PeerView(c), FlowView(c)>>
    BY <2>1, <2>2 DEF TaskView, PeerView, FlowView, h
  <2>4. QED
    BY <2>3, Unseen DEF Serves
<1>5. CASE ReqSend(h, t)
  <2>1. PICK o \in Op : Transmit(h, [kind |-> "req", op |-> o, id |-> sent[h] + 1])
    BY <1>5 DEF ReqSend
  <2> DEFINE f == [kind |-> "req", op |-> o, id |-> sent[h] + 1]
  <2>2. f \in Frame /\ f.id = sent[h] + 1 /\ Transmit(h, f)
    BY <1>1, <2>1 DEF Frame
  <2> HIDE DEF f
  <2>3. txq'[c] = txq[c] /\ Crcs(txq'[h]) \subseteq {sent[h] + 1} /\ Rising(txq'[h])
    <3>1. /\ \A d \in Chip : d # h => txq'[d] = txq[d]
          /\ Crcs(txq'[h]) \subseteq {f.id} /\ Rising(txq'[h])
      BY <1>1, <2>2, Transmitted
    <3>2. QED
      BY <1>1, <2>2, <3>1
  <2>4. sent'[h] = sent[h] + 1 /\ UNCHANGED <<ctx, wk, line, rx, served>>
    BY <1>1, <1>5 DEF ReqSend, TypeOK
  <2>5. UNCHANGED <<TaskView(c), PeerView(c)>>
    BY <2>3, <2>4 DEF TaskView, PeerView, h
  <2>6. InOrderOnce(c)'
    <3>1. Flow(Collected(c), line[c], txq[h], sent[h], served[c])
      BY DEF Serves, InOrderOnce, h
    <3>2. Collected(c)' = Collected(c)
      BY <2>4 DEF Collected
    <3>3. Collected(c) \in Seq(Unit)
      BY <1>1, CrcsAreIds DEF Collected
    <3>4. Flow(Collected(c), line[c], txq'[h], sent[h] + 1, served[c])
      BY <1>1, <2>3, <3>1, <3>3, FlowSends
    <3>5. QED
      BY <2>4, <3>2, <3>4 DEF Serves, InOrderOnce, h
  <2>7. QED
    BY <2>5, <2>6, Unseen DEF Serves
<1>6. QED
  BY <1>2, <1>3, <1>4, <1>5

LEMMA PeerTransmits ==
  ASSUME IInv, NEW c \in Chip, Serves(c), Transmission(Peer[c])
  PROVE  Serves(c)'
<1> DEFINE h == Peer[c]
<1>1. /\ TypeOK /\ h \in Chip /\ h # c /\ Peer[h] = c /\ ctx[h] \in Context
      /\ txq[h] \in Seq(Unit) /\ line[c] \in Seq(Unit)
  BY OfChip DEF IInv
<1>2. TxShift(h) \/ TxAbort(h)
  BY DEF Transmission
<1>3. Flow(Collected(c), line[c], txq[h], sent[h], served[c]) /\ Rising(line[c])
  BY DEF Serves, InOrderOnce, Flow
<1> HIDE DEF h
<1>4. CASE TxShift(h)
  <2>1. /\ txq[h] # <<>> /\ txq'[h] = Tail(txq[h]) /\ txq'[c] = txq[c]
        /\ line'[c] = Append(line[c], Head(txq[h])) /\ line'[h] = line[h]
        /\ ctx'[h] \in {ctx[h], on_cmd_send_complete(ctx[h])} /\ ctx'[c] = ctx[c]
        /\ UNCHANGED <<wk, rx, sent, served>>
    BY <1>1, <1>4 DEF TxShift, history, TypeOK
  <2>2. ctx'[h].wkReq = ctx[h].wkReq
    BY <1>1, <2>1, RequestPending
  <2>3. UNCHANGED <<TaskView(c), PeerView(c)>>
    BY <2>1, <2>2 DEF TaskView, PeerView, h
  <2>4. Flow(Collected(c), line'[c], txq'[h], sent[h], served[c])
    BY <1>1, <1>3, <2>1, FlowShifts
  <2>5. Collected(c)' = Collected(c)
    BY <2>1 DEF Collected
  <2>6. InOrderOnce(c)'
    BY <2>1, <2>4, <2>5 DEF Serves, InOrderOnce, h
  <2>7. QED
    BY <2>3, <2>6, Unseen DEF Serves
<1>5. CASE TxAbort(h)
  <2>1. /\ txq'[h] = <<>> /\ txq'[c] = txq[c]
        /\ ctx'[h] = on_cmd_send_error(ctx[h]) /\ ctx'[c] = ctx[c]
        /\ UNCHANGED <<wk, line, rx, sent, served>>
    BY <1>1, <1>5 DEF TxAbort, history, TypeOK
  <2>2. ctx'[h].wkReq = ctx[h].wkReq
    BY <1>1, <2>1, RequestPending
  <2>3. UNCHANGED <<TaskView(c), PeerView(c)>>
    BY <2>1, <2>2 DEF TaskView, PeerView, h
  <2>4. Flow(Collected(c), line[c], <<>>, sent[h], served[c])
    <3>1. Crcs(<<>>) \subseteq Crcs(txq[h]) /\ Rising(<<>>)
      BY CrcsAreIds
    <3>2. QED
      BY <1>3, <3>1, FlowShrinks
  <2>5. Collected(c)' = Collected(c)
    BY <2>1 DEF Collected
  <2>6. InOrderOnce(c)'
    BY <2>1, <2>4, <2>5 DEF Serves, InOrderOnce, h
  <2>7. QED
    BY <2>3, <2>6, Unseen DEF Serves
<1>6. QED
  BY <1>2, <1>4, <1>5

\* The peer collects responses only: none of them passes format_check in slave mode.
LEMMA PeerReceives ==
  ASSUME IInv, NEW c \in Chip, Serves(c), Reception(Peer[c])
  PROVE  Serves(c)'
<1> DEFINE h == Peer[c]
<1>1. /\ TypeOK /\ h \in Chip /\ h # c /\ ctx[h] \in Context
      /\ line[h] \in Seq(Unit) /\ rx[h].buf \in Seq(Unit)
  BY OfChip DEF IInv
<1>2. PICK n \in 1..Len(line[h]) : RxReady(h, n)
  BY DEF Reception
<1>3. ~ctx[h].wkReq /\ Responses(line[h]) /\ Responses(rx[h].buf)
  BY DEF Serves, PeerOnlyAsks
<1> HIDE DEF h
<1> DEFINE chunk == SubSeq(line[h], 1, n)
           rest == SubSeq(line[h], n + 1, Len(line[h]))
           stored == IF rx[h].started THEN rx[h].buf \o chunk ELSE chunk
           y == IF rx[h].started THEN ctx[h] ELSE on_cmd_receive_start(ctx[h])
<1>4. chunk \in Seq(Unit) /\ Responses(chunk) /\ Responses(rest)
  <2>1. Len(line[h]) \in Nat /\ n \in 0..Len(line[h]) /\ 1 \in Nat \ {0}
        /\ n + 1 \in Nat \ {0} /\ Len(line[h]) \in 0..Len(line[h])
    BY <1>1
  <2>2. chunk \in Seq(Unit) /\ Responses(chunk)
    BY <1>1, <1>3, <2>1, Part
  <2>3. Responses(rest)
    BY <1>1, <1>3, <2>1, Part
  <2>4. QED
    BY <2>2, <2>3
<1>5. stored \in Seq(Unit) /\ Responses(stored)
  <2>1. rx[h].buf \o chunk \in Seq(Unit) /\ Responses(rx[h].buf \o chunk)
    <3> HIDE DEF chunk
    <3>1. QED
      BY <1>1, <1>3, <1>4, Joined
  <2>2. QED
    BY <1>4, <2>1
<1>6. /\ line' = [line EXCEPT ![h] = rest] /\ UNCHANGED <<wk, txq, sent, served>>
  BY <1>2 DEF RxReady, link, history
<1>7. line'[h] = rest /\ line'[c] = line[c]
  BY <1>1, <1>6 DEF TypeOK
<1>8. CASE ~Accepts(ctx[h])
  <2>1. UNCHANGED <<rx, ctx>>
    BY <1>2, <1>8 DEF RxReady
  <2>2. UNCHANGED <<TaskView(c), FlowView(c)>>
    BY <1>6, <1>7, <2>1 DEF TaskView, FlowView, h
  <2>3. PeerOnlyAsks(c)'
    BY <1>4, <1>6, <1>7, <2>1 DEF Serves, PeerOnlyAsks, h
  <2>4. QED
    BY <2>2, <2>3, Unseen DEF Serves
<1>9. CASE Accepts(ctx[h])
  <2>1. y \in Context /\ Collecting(y) /\ ~y.wkReq
    <3>1. on_cmd_receive_start(ctx[h]).wkReq = ctx[h].wkReq
      BY <1>1, RequestPending
    <3>2. LET x == on_cmd_receive_start(ctx[h]) IN
          x \in Context /\ Collecting(x) /\ Collecting(ctx[h])
      <4>1. Sending(h) \in BOOLEAN
        BY DEF Sending
      <4>2. QED
        BY <1>1, <1>9, <4>1, EachInOrder, ReceiveStarts DEF InOrder
    <3>3. QED
      BY <1>1, <1>3, <3>1, <3>2
  <2> HIDE DEF stored, y, chunk, rest
  <2>2. PICK len : Collect(h, y, stored, len)
    BY <1>2, <1>9 DEF RxReady, stored, y, chunk
  <2> DEFINE z == IF rx[h].need = 0 /\ len > MaxLen
                  THEN on_cmd_receive_error(y) ELSE y
             complete == len # 0 /\ Len(stored) >= len
             w == IF ~complete THEN z
                  ELSE IF format_check(h, stored, z.mode)
                       THEN on_cmd_receive_complete(z)
                       ELSE on_cmd_receive_error(z)
  <2>3. z \in Context /\ ~z.wkReq
    <3>1. on_cmd_receive_error(y).wkReq = y.wkReq /\ on_cmd_receive_error(y) \in Context
      BY <2>1, RequestPending, ReceiveFails
    <3>2. QED
      BY <2>1, <3>1
  <2> HIDE DEF z
  <2>4. format_check(h, stored, z.mode) => z.mode # "slave"
    <3> SUFFICES ASSUME Intact(stored), FrameIn(stored).kind = "req" PROVE FALSE
      BY DEF format_check
    <3>1. Len(stored) = PktLen /\ stored[1].i = 1 /\ 1 \in DOMAIN stored /\ 2 \in DOMAIN stored
      BY <1>5 DEF Intact
    <3>2. stored[1].f.kind = "rsp"
      BY <1>5, <3>1 DEF Responses
    <3>3. stored[2] \in Unit
      BY <1>5, <3>1
    <3>4. FrameIn(stored).kind = stored[1].f.kind
      BY <3>3 DEF FrameIn, Unit, Frame
    <3>5. QED
      BY <3>2, <3>4
  <2>5. ~w.wkReq
    <3>1. on_cmd_receive_error(z).wkReq = z.wkReq
      BY <2>3, RequestPending
    <3>2. z.mode # "slave" => on_cmd_receive_complete(z).wkReq = z.wkReq
      BY <2>3, RequestPending
    <3>3. QED
      BY <2>3, <2>4, <3>1, <3>2
  <2>6. /\ rx' = [rx EXCEPT ![h] = [buf |-> stored, started |-> ~complete,
                                    need |-> IF complete THEN 0 ELSE len]]
        /\ ctx' = [ctx EXCEPT ![h] = w]
    BY <2>2 DEF Collect, z
  <2> HIDE DEF complete, w
  <2>7. rx'[h].buf = stored /\ rx'[c] = rx[c] /\ ctx'[h] = w /\ ctx'[c] = ctx[c]
    BY <1>1, <2>6 DEF TypeOK
  <2>8. UNCHANGED <<TaskView(c), FlowView(c)>>
    BY <1>6, <1>7, <2>7 DEF TaskView, FlowView, h
  <2>9. PeerOnlyAsks(c)'
    BY <1>4, <1>5, <1>6, <1>7, <2>5, <2>7 DEF Serves, PeerOnlyAsks, h, rest
  <2>10. QED
    BY <2>8, <2>9, Unseen DEF Serves
<1>10. QED
  BY <1>8, <1>9

LEMMA PeerTimesOut ==
  ASSUME IInv, NEW c \in Chip, Serves(c), Timeout(Peer[c])
  PROVE  Serves(c)'
<1> DEFINE h == Peer[c]
           x == [ctx[h] EXCEPT !.timer = FALSE]
<1>1. TypeOK /\ h \in Chip /\ h # c /\ ctx[h] \in Context
  BY OfChip DEF IInv
<1>2. x \in Context /\ x.wkReq = ctx[h].wkReq
  BY <1>1 DEF Context
<1>3. /\ ctx' = [ctx EXCEPT ![h] = state_set(x, "idle")]
      /\ UNCHANGED <<wk, txq, line, rx, sent, served>>
  BY DEF Timeout, link
<1> HIDE DEF h, x
<1>4. ctx'[h] = state_set(x, "idle") /\ ctx'[c] = ctx[c]
  BY <1>1, <1>3 DEF TypeOK
<1>5. ctx'[h].wkReq = ctx[h].wkReq
  BY <1>2, <1>4, RequestPending
<1>6. UNCHANGED <<TaskView(c), PeerView(c), FlowView(c)>>
  BY <1>3, <1>4, <1>5 DEF TaskView, PeerView, FlowView, h
<1>7. QED
  BY <1>6, Unseen DEF Serves

\* The work queue of the peer runs the response handler only.
LEMMA PeerWorks ==
  ASSUME IInv, NEW c \in Chip, Serves(c), WorkQueue(Peer[c])
  PROVE  Serves(c)'
<1> DEFINE h == Peer[c]
           x == [ctx[h] EXCEPT !.wkRsp = FALSE]
<1>1. TypeOK /\ h \in Chip /\ h # c /\ ctx[h] \in Context
  BY OfChip DEF IInv
<1>2. ~ctx[h].wkReq /\ wk[h] \notin {"req", "respond"}
  BY DEF Serves, PeerOnlyAsks
<1>3. x \in Context /\ x.wkReq = ctx[h].wkReq
  BY <1>1 DEF Context
<1> HIDE DEF h, x
<1>4. WkRspRun(h) \/ WkRspRead(h)
  BY <1>2 DEF WorkQueue, WkReqRun, RespondStart, RespondSend, h
<1>5. /\ UNCHANGED <<txq, line, rx, sent, served>>
      /\ \/ ctx' = [ctx EXCEPT ![h] = state_set(x, "idle")] /\ wk' = [wk EXCEPT ![h] = "rsp"]
         \/ ctx' = ctx /\ wk' = [wk EXCEPT ![h] = "none"]
  BY <1>4 DEF WkRspRun, WkRspRead, link, history, x
<1>6. /\ ctx'[h] \in {ctx[h], state_set(x, "idle")} /\ ctx'[c] = ctx[c]
      /\ wk'[h] \in {"rsp", "none"} /\ wk'[c] = wk[c]
  BY <1>1, <1>5 DEF TypeOK
<1>7. ctx'[h].wkReq = ctx[h].wkReq
  <2>1. state_set(x, "idle").wkReq = x.wkReq
    BY <1>3, RequestPending
  <2>2. QED
    BY <1>3, <1>6, <2>1
<1>8. UNCHANGED <<TaskView(c), FlowView(c)>>
  BY <1>5, <1>6 DEF TaskView, FlowView, h
<1>9. PeerOnlyAsks(c)'
  BY <1>2, <1>5, <1>6, <1>7 DEF Serves, PeerOnlyAsks, h
<1>10. QED
  BY <1>8, <1>9, Unseen DEF Serves

LEMMA PeerWire ==
  ASSUME IInv, NEW c \in Chip, Serves(c), Wire(Peer[c])
  PROVE  Serves(c)'
<1> DEFINE h == Peer[c]
<1>1. TypeOK /\ h \in Chip /\ h # c /\ line[h] \in Seq(Unit) /\ Responses(line[h])
  BY OfChip DEF IInv, Serves, PeerOnlyAsks
<1>2. PICK k \in 1..Len(line[h]) : Lose(h, k) \/ Corrupt(h, k)
  BY DEF Wire
<1> HIDE DEF h
<1>3. UNCHANGED <<ctx, wk, txq, rx, sent, served>>
  BY <1>2 DEF Lose, Corrupt, link, history
<1>4. line'[c] = line[c] /\ line'[h] \in {DropAt(line[h], k), [line[h] EXCEPT ![k] = Junk]}
  BY <1>1, <1>2 DEF Lose, Corrupt, TypeOK
<1>5. Responses(line'[h])
  BY <1>1, <1>4, OneLess
<1>6. UNCHANGED <<TaskView(c), FlowView(c)>>
  BY <1>3, <1>4 DEF TaskView, FlowView, h
<1>7. PeerOnlyAsks(c)'
  BY <1>3, <1>5 DEF Serves, PeerOnlyAsks, h
<1>8. QED
  BY <1>6, <1>7, Unseen DEF Serves

-----------------------------------------------------------------------------
(* The invariant *)

\* Requests are counted and never taken back.
LEMMA ServesSoFar ==
  ASSUME TypeOK, [Next]_vars, NEW c \in Chip, OnlyServes(c)'
  PROVE  OnlyServes(c) /\ ~Request(c)
<1>1. sent[c] \in Nat
  BY DEF TypeOK
<1>2. ASSUME NEW d \in Chip, Request(d) PROVE d # c /\ OnlyServes(c)
  <2>1. PICK t \in Thread : ReqCheck(d, t) \/ ReqStart(d, t) \/ ReqSend(d, t)
    BY <1>2 DEF Request
  <2>2. CASE ReqCheck(d, t) \/ ReqStart(d, t)
    <3>1. sent' = sent
      BY <2>2 DEF ReqCheck, ReqStart, history
    <3>2. PICK p \in {"checked", "started"} : pc' = [pc EXCEPT ![d][t] = p]
      BY <2>2 DEF ReqCheck, ReqStart
    <3>3. pc \in [Chip -> [Thread -> {"idle", "checked", "started"}]]
      BY DEF TypeOK
    <3>4. pc'[d][t] = p /\ (d # c => pc'[c] = pc[c])
      BY <3>2, <3>3
    <3>5. d # c
      BY <3>4 DEF OnlyServes
    <3>6. QED
      BY <3>1, <3>4, <3>5 DEF OnlyServes
  <2>3. CASE ReqSend(d, t)
    <3>1. pc' = [pc EXCEPT ![d][t] = "idle"] /\ sent' = [sent EXCEPT ![d] = @ + 1]
      BY <2>3 DEF ReqSend
    <3>2. d = c => sent'[c] = sent[c] + 1
      BY <3>1 DEF TypeOK
    <3>3. d # c
      BY <1>1, <3>2 DEF OnlyServes
    <3>4. sent'[c] = sent[c] /\ pc'[c] = pc[c]
      BY <3>1, <3>3 DEF TypeOK
    <3>5. QED
      BY <3>3, <3>4 DEF OnlyServes
  <2>4. QED
    BY <2>1, <2>2, <2>3
<1>3. CASE UNCHANGED <<pc, sent>>
  <2>1. OnlyServes(c)
    BY <1>3 DEF OnlyServes
  <2>2. QED
    BY <1>2, <2>1
<1>4. ASSUME NEW d \in Chip,
             Transmission(d) \/ Reception(d) \/ Timeout(d) \/ WorkQueue(d) \/ Wire(d)
      PROVE  UNCHANGED <<pc, sent>>
  BY <1>4 DEF Transmission, TxShift, TxAbort, Reception, RxReady, Timeout, WorkQueue,
     WkReqRun, RespondStart, RespondSend, WkRspRun, WkRspRead, Wire, Lose, Corrupt, history
<1>5. CASE UNCHANGED vars
  BY <1>3, <1>5 DEF vars
<1>6. QED
  BY <1>2, <1>3, <1>4, <1>5 DEF Next

\* What the chip does itself, as long as it makes no request.
LEMMA OwnSteps ==
  ASSUME IInv, NEW c \in Chip, Serves(c),
         Transmission(c) \/ Reception(c) \/ Timeout(c) \/ WorkQueue(c) \/ Wire(c)
  PROVE  Serves(c)'
<1>1. CASE Transmission(c)
  BY <1>1, ServerShifts, ServerAborts DEF Transmission
<1>2. CASE Reception(c)
  BY <1>2, ServerRx DEF Reception
<1>3. CASE Timeout(c)
  BY <1>3 DEF Timeout, Serves, OneTask
<1>4. CASE WorkQueue(c)
  <2>1. ~WkRspRun(c) /\ ~WkRspRead(c)
    BY DEF WkRspRun, WkRspRead, Serves, OneTask
  <2>2. QED
    BY <1>4, <2>1, ServerExecutes, ServerResponds, ServerSends DEF WorkQueue
<1>5. CASE Wire(c)
  BY <1>5, ServerWire DEF Wire
<1>6. QED
  BY <1>1, <1>2, <1>3, <1>4, <1>5

SInv == IInv /\ \A c \in Chip : OnlyServes(c) => Serves(c)

LEMMA ServesAtFirst == Init => SInv
<1> SUFFICES ASSUME Init PROVE SInv
  OBVIOUS
<1>1. IInv
  BY Initially
<1>2. ASSUME NEW c \in Chip PROVE Serves(c)
  <2>1. Peer[c] \in Chip
    OBVIOUS
  <2>2. OneTask(c)
    BY DEF Init, OneTask
  <2>3. PeerOnlyAsks(c)
    BY <2>1, CrcsAreIds DEF Init, PeerOnlyAsks
  <2>4. InOrderOnce(c)
    <3>1. Collected(c) = <<>> /\ served[c] = <<>> /\ ~ctx[c].wkReq
          /\ line[c] = <<>> /\ txq[Peer[c]] = <<>>
      BY <2>1 DEF Init, Collected
    <3>2. Distinct(<<>>) /\ Flow(<<>>, <<>>, <<>>, sent[Peer[c]], <<>>)
      BY CrcsAreIds DEF Distinct, Flow, Below
    <3>3. QED
      BY <3>1, <3>2 DEF InOrderOnce
  <2>5. QED
    BY <2>2, <2>3, <2>4 DEF Serves
<1>3. QED
  BY <1>1, <1>2 DEF SInv

LEMMA ServesOn == SInv /\ [Next]_vars => SInv'
<1> SUFFICES ASSUME SInv, [Next]_vars PROVE SInv'
  OBVIOUS
<1>1. IInv /\ IInv'
  BY Inductively DEF SInv
<1>2. ASSUME NEW c \in Chip, OnlyServes(c)' PROVE Serves(c)'
  <2>1. Serves(c) /\ ~Request(c)
    BY <1>1, <1>2, ServesSoFar DEF SInv, IInv
  <2>2. ASSUME NEW d \in Chip,
               \/ Request(d) \/ Transmission(d) \/ Reception(d)
               \/ Timeout(d) \/ WorkQueue(d) \/ Wire(d)
        PROVE  Serves(c)'
    <3>1. CASE d = c
      BY <1>1, <2>1, <2>2, <3>1, OwnSteps
    <3>2. CASE d = Peer[c]
      BY <1>1, <2>1, <2>2, <3>2, PeerRequests, PeerTransmits, PeerReceives, PeerTimesOut,
         PeerWorks, PeerWire
    <3>3. CASE d # c /\ d # Peer[c]
      BY <1>1, <2>1, <2>2, <3>3, FarSteps
    <3>4. QED
      BY <3>1, <3>2, <3>3
  <2>3. CASE UNCHANGED vars
    <3>1. UNCHANGED <<TaskView(c), PeerView(c), FlowView(c)>>
      BY <2>3 DEF vars, link, history, TaskView, PeerView, FlowView
    <3>2. QED
      BY <2>1, <3>1, Unseen DEF Serves
  <2>4. QED
    BY <2>2, <2>3 DEF Next
<1>3. QED
  BY <1>1, <1>2 DEF SInv

\* While a chip that only serves processes a request, on_uart_rx_ready accepts nothing.
LEMMA BufferUntouched ==
  ASSUME SInv, [Next]_vars, NEW c \in Chip, OnlyServes(c), wk[c] \notin {"none", "rsp"}
  PROVE  rx'[c] = rx[c]
<1>1. TypeOK /\ Serves(c) /\ Consistent(ctx[c]) /\ wk[c] \in {"none", "req", "respond", "rsp"}
  BY OfChip DEF SInv, IInv, ModeMatchesState
<1>2. ~Accepts(ctx[c])
  BY <1>1 DEF Serves, OneTask, Consistent, Accepts
<1>3. ASSUME NEW d \in Chip, NEW n \in 1..Len(line[d]), RxReady(d, n) PROVE rx'[c] = rx[c]
  <2>1. CASE ~Accepts(ctx[d])
    BY <1>3, <2>1 DEF RxReady
  <2>2. CASE Accepts(ctx[d])
    BY <1>1, <1>2, <1>3, <2>2 DEF RxReady, Collect, TypeOK
  <2>3. QED
    BY <2>1, <2>2
<1>4. ASSUME NEW d \in Chip,
             Request(d) \/ Transmission(d) \/ Timeout(d) \/ WorkQueue(d) \/ Wire(d)
      PROVE  rx' = rx
  BY <1>4 DEF Request, ReqCheck, ReqStart, ReqSend, Transmission, TxShift, TxAbort, Timeout,
     WorkQueue, WkReqRun, RespondStart, RespondSend, WkRspRun, WkRspRead, Wire, Lose, Corrupt
<1>5. QED
  BY <1>3, <1>4 DEF Next, Reception, vars

LEMMA ServesAlways == Spec => []SInv
<1>1. QED
  BY ServesAtFirst, ServesOn, PTL DEF Spec

\* wk_proc_req_handler of a chip that only serves executes no request twice,
\* however late the timeouts of its peer and whatever the link loses or damages.
THEOREM ExecutedOnce == Spec => []AtMostOnce
<1>1. SInv => AtMostOnce
  BY DEF SInv, Serves, InOrderOnce, Distinct, AtMostOnce
<1>2. QED
  BY <1>1, ServesAlways, PTL

\* The bytes of a request stay in m_rx_buff until app_cmd_respond has answered it,
\* on a chip that only serves.
THEOREM BufferKept == Spec => RequestStable
<1>1. SInv /\ [Next]_vars =>
        [\A c \in Chip :
           wk[c] \notin {"none", "rsp"} /\ wk'[c] # "none" /\ OnlyServes(c)
           => rx'[c] = rx[c]]_vars
  BY BufferUntouched
<1>2. QED
  BY <1>1, ServesAlways, PTL DEF Spec, RequestStable

-----------------------------------------------------------------------------
(* With one host a command is a remote procedure call.  Responses carry no  *)
(* number, so that this rests on the order of things: whatever is under way *)
(* belongs to the last request of the host, and is in one place.            *)

\* One chip makes requests, from one thread; the timeout is longer than any answer
\* takes; callbacks do not block.
OneHost ==
  /\ \E c \in Chip : Host = {c}
  /\ \A t, u \in Thread : t = u
  /\ ~Late /\ ~Yields

\* The states in which the host waits for the response, with the timer running.
Waiting == {"req_sent", "rsp_receiving", "err_receive"}

NoCrc(q) == \A k \in DOMAIN q : q[k].i # PktLen

\* A CRC comes last, if there is one, and is that of request n or its response.
Final(q, n) ==
  \A k \in DOMAIN q : q[k].i = PktLen => k = Len(q) /\ q[k].f.id = n /\ q[k].f.op \in Op

\* Request n, or its response, has been received whole.
Whole(buf, n) == Intact(buf) /\ buf[2].f.id = n /\ buf[2].f.op \in Op

\* The last request of the host has been executed, or concluded.
Executed(h) == \E k \in DOMAIN served[Peer[h]] : served[Peer[h]][k] = sent[h]
Concluded(h) == \E k \in DOMAIN replies[h] : replies[h][k].id = sent[h]

\* Nothing is on its way back; the server has nothing to do; no request can arrive.
Silent(h) == line[h] = <<>> /\ txq[Peer[h]] = <<>>
Free(h) == ~ctx[Peer[h]].wkReq /\ wk[Peer[h]] = "none"
NoneComing(h) == NoCrc(line[Peer[h]])

\* The host does one thing at a time, too.
HostTask(h) ==
  /\ ctx[h].mode # "slave"
  /\ ctx[h].timer => ctx[h].state \in Waiting
  /\ ctx[h].wkRsp => ctx[h].state = "rsp_received"
  /\ wk[h] = "rsp" => ctx[h].state = "idle" /\ \A t \in Thread : pc[h][t] = "idle"
  /\ txq[h] # <<>> =>
       ctx[h].state = "req_sending" /\ \A t \in Thread : pc[h][t] = "idle"
  /\ \A t \in Thread :
       /\ pc[h][t] = "checked" => ctx[h].state = "idle"
       /\ pc[h][t] = "started" => ctx[h].state = "req_sending"

\* The request is still to be sent, on the line, to be executed, or executed and to be
\* answered.
Outward(h) ==
  /\ Final(line[Peer[h]], sent[h]) /\ Final(txq[h], sent[h])
  /\ txq[h] # <<>> => NoneComing(h) /\ ~Executed(h)
  /\ ~NoneComing(h) => Silent(h) /\ Free(h) /\ ~Executed(h)
  /\ ctx[Peer[h]].wkReq => Silent(h) /\ Whole(rx[Peer[h]].buf, sent[h]) /\ ~Executed(h)
  /\ wk[Peer[h]] # "none" => Silent(h) /\ Whole(rx[Peer[h]].buf, sent[h]) /\ Executed(h)

\* The response is still to be sent, on the line, or received.
Homeward(h) ==
  /\ Final(line[h], sent[h]) /\ Final(txq[Peer[h]], sent[h])
  /\ txq[Peer[h]] # <<>> => NoCrc(line[h])
  /\ ~NoCrc(line[h]) \/ ~NoCrc(txq[Peer[h]]) => Executed(h)
  /\ ctx[h].state = "rsp_received" \/ wk[h] = "rsp" =>
       Whole(rx[h].buf, sent[h]) /\ rx[h].buf[1].f.kind = "rsp" /\ Executed(h)

\* When the host does not wait nothing is under way; as long as it may be told the
\* result it has not been told; and no number is above that of the last request.
Turns(h) ==
  /\ ctx[h].state \notin Waiting => Silent(h) /\ Free(h) /\ NoneComing(h)
  /\ \/ txq[h] # <<>> \/ wk[h] = "rsp" \/ ctx[h].state \in Waiting \cup {"rsp_received"}
     => sent[h] > 0 /\ ~Concluded(h)
  /\ txBuf[h].id = sent[h] /\ (sent[h] > 0 => txBuf[h].op \in Op)
  /\ \A k \in DOMAIN served[Peer[h]] : served[Peer[h]][k] <= sent[h]
  /\ \A k \in DOMAIN replies[h] : replies[h][k].id <= sent[h]

CallInv(h) == HostTask(h) /\ Outward(h) /\ Homeward(h) /\ Turns(h)

\* The steps of Rpc.tla in terms of the protocol, and none of them.
RpcStep(h) ==
  LET p == Peer[h] IN
  \/ UNCHANGED <<sent[h], served[p], replies[h]>>
  \/ sent'[h] = sent[h] + 1 /\ UNCHANGED <<served[p], replies[h]>>
  \/ /\ sent[h] > 0 /\ ~Executed(h) /\ ~Concluded(h)
     /\ served'[p] = Append(served[p], sent[h]) /\ UNCHANGED <<sent[h], replies[h]>>
  \/ /\ sent[h] > 0 /\ ~Concluded(h)
     /\ \E r \in Conclusion :
          /\ r.id = sent[h]
          /\ r.how = "timeout" \/ (r.how = "rsp" /\ r.kind = "rsp" /\ Executed(h))
          /\ replies'[h] = Append(replies[h], r)
     /\ UNCHANGED <<sent[h], served[p]>>

\* What the proofs go by: the invariant of before, the host, and its server.
Calls(h) ==
  /\ SInv /\ OneHost /\ Host = {h} /\ OnlyServes(Peer[h]) /\ CallInv(h)


CallView(h) ==
  LET p == Peer[h] IN
  <<ctx[h], wk[h], pc[h], txBuf[h], txq[h], line[h], rx[h], sent[h], replies[h],
    ctx[p], wk[p], txq[p], line[p], rx[p], served[p]>>

-----------------------------------------------------------------------------
(* Where a CRC is *)

LEMMA EmptyFinal ==
  ASSUME NEW n PROVE Final(<<>>, n) /\ NoCrc(<<>>)
BY DEF Final, NoCrc

\* A sequence with no CRC is as good as none.
LEMMA NoneFinal ==
  ASSUME NEW q, NEW n, NoCrc(q) PROVE Final(q, n)
BY DEF Final, NoCrc

\* What is left of a sequence when its beginning has been read.
LEMMA RestFinal ==
  ASSUME NEW q \in Seq(Unit), NEW n, NEW i \in 1..(Len(q) + 1)
  PROVE  LET r == SubSeq(q, i, Len(q)) IN
         (Final(q, n) => Final(r, n)) /\ (NoCrc(q) => NoCrc(r))
<1> DEFINE r == SubSeq(q, i, Len(q))
<1>1. Len(q) \in Nat /\ DOMAIN q = 1..Len(q)
  OBVIOUS
<1>2. Len(r) = Len(q) - i + 1 /\ DOMAIN r = 1..Len(r)
  BY <1>1
<1>3. \A k \in DOMAIN r : r[k] = q[i + k - 1] /\ i + k - 1 \in DOMAIN q
  BY <1>1, <1>2
<1> HIDE DEF r
<1>4. ASSUME Final(q, n) PROVE Final(r, n)
  <2> SUFFICES ASSUME NEW k \in DOMAIN r, r[k].i = PktLen
               PROVE  k = Len(r) /\ r[k].f.id = n /\ r[k].f.op \in Op
    BY DEF Final
  <2>1. i + k - 1 = Len(q) /\ r[k].f.id = n /\ r[k].f.op \in Op
    BY <1>3, <1>4 DEF Final
  <2>2. QED
    BY <1>1, <1>2, <2>1
<1>5. NoCrc(q) => NoCrc(r)
  BY <1>3 DEF NoCrc
<1>6. QED
  BY <1>4, <1>5 DEF r

\* A unit goes from the UART to the line.
LEMMA ShiftFinal ==
  ASSUME NEW l \in Seq(Unit), NEW q \in Seq(Unit), q # <<>>, NEW n, Final(q, n), NoCrc(l)
  PROVE  LET m == Append(l, Head(q)) IN
         /\ Final(m, n) /\ Final(Tail(q), n)
         /\ NoCrc(m) \/ (Tail(q) = <<>> /\ ~NoCrc(q))
         /\ NoCrc(q) => NoCrc(Tail(q))
<1> DEFINE m == Append(l, Head(q))
<1>1. Len(l) \in Nat /\ Len(q) \in Nat /\ Len(q) >= 1 /\ DOMAIN q = 1..Len(q)
  OBVIOUS
<1>2. Len(m) = Len(l) + 1 /\ DOMAIN m = 1..(Len(l) + 1) /\ m[Len(l) + 1] = q[1]
      /\ \A k \in 1..Len(l) : m[k] = l[k] /\ k \in DOMAIN l
  BY <1>1
<1>3. Tail(q) = SubSeq(q, 2, Len(q)) /\ 2 \in 1..(Len(q) + 1) /\ Len(Tail(q)) = Len(q) - 1
      /\ Tail(q) \in Seq(Unit)
  BY <1>1
<1> HIDE DEF m
<1>4. \A k \in DOMAIN m : m[k].i = PktLen => k = Len(m) /\ q[1].i = PktLen /\ m[k] = q[1]
  <2> SUFFICES ASSUME NEW k \in DOMAIN m, m[k].i = PktLen
               PROVE  k = Len(m) /\ q[1].i = PktLen /\ m[k] = q[1]
    OBVIOUS
  <2>1. k \notin 1..Len(l)
    BY <1>2 DEF NoCrc
  <2>2. k = Len(l) + 1
    BY <1>1, <1>2, <2>1
  <2>3. QED
    BY <1>2, <2>2
<1>5. q[1].i = PktLen => Len(q) = 1 /\ q[1].f.id = n /\ q[1].f.op \in Op /\ ~NoCrc(q)
  <2>1. 1 \in DOMAIN q
    BY <1>1
  <2>2. QED
    BY <2>1 DEF Final, NoCrc
<1>6. Len(q) = 1 => Tail(q) = <<>>
  BY <1>3, EmptySeq
<1>7. Final(m, n)
  BY <1>4, <1>5 DEF Final
<1>8. NoCrc(m) \/ (Tail(q) = <<>> /\ ~NoCrc(q))
  BY <1>4, <1>5, <1>6 DEF NoCrc
<1>9. Final(Tail(q), n) /\ (NoCrc(q) => NoCrc(Tail(q)))
  BY <1>3, RestFinal
<1>10. QED
  BY <1>7, <1>8, <1>9 DEF m

\* A unit is lost.
LEMMA DropFinal ==
  ASSUME NEW q \in Seq(Unit), NEW k \in 1..Len(q), NEW n
  PROVE  /\ Final(q, n) => Final(DropAt(q, k), n)
         /\ NoCrc(q) => NoCrc(DropAt(q, k))
<1> DEFINE r == DropAt(q, k)
<1>1. Len(q) \in Nat /\ Len(q) >= 1 /\ DOMAIN q = 1..Len(q)
  OBVIOUS
<1>2. /\ Len(r) = Len(q) - 1 /\ DOMAIN r = 1..(Len(q) - 1)
      /\ \A j \in 1..(Len(q) - 1) : r[j] = IF j < k THEN q[j] ELSE q[j + 1]
  <2> DEFINE a == SubSeq(q, 1, k - 1)
             b == SubSeq(q, k + 1, Len(q))
  <2>1. a \in Seq(Unit) /\ Len(a) = k - 1 /\ \A j \in 1..(k - 1) : a[j] = q[j]
    BY <1>1
  <2>2. b \in Seq(Unit) /\ Len(b) = Len(q) - k /\ \A j \in 1..(Len(q) - k) : b[j] = q[k + j]
    <3>1. CASE k = Len(q)
      <4>1. b = <<>> /\ Len(q) - k = 0
        BY <1>1, <3>1
      <4> HIDE DEF b
      <4>2. QED
        BY <4>1
    <3>2. CASE k # Len(q)
      <4> HIDE DEF b
      <4> DEFINE len == Len(q)
      <4>a. len \in Nat /\ k \in 1..len /\ k # len
        BY <1>1, <3>2
      <4> HIDE DEF len
      <4>1. k + 1 \in 1..len /\ len \in (k + 1)..len /\ len - (k + 1) + 1 = len - k
        BY <4>a
      <4> USE DEF b, len
      <4>2. b \in Seq(Unit) /\ Len(b) = Len(q) - (k + 1) + 1
            /\ \A j \in 1..Len(b) : b[j] = q[(k + 1) + j - 1]
        BY <4>1, SubSeqProperties
      <4> HIDE DEF b
      <4>3. \A j \in 1..(Len(q) - k) : (k + 1) + j - 1 = k + j
        BY <1>1
      <4>4. QED
        BY <4>1, <4>2, <4>3
    <3>3. QED
      BY <3>1, <3>2
  <2>3. r = a \o b
    BY DEF DropAt
  <2> HIDE DEF a, b, r
  <2>4. r \in Seq(Unit) /\ Len(r) = Len(q) - 1
    <3>a. a \in Seq(Unit) /\ b \in Seq(Unit)
      BY <2>1, <2>2
    <3>1. r \in Seq(Unit) /\ Len(r) = Len(a) + Len(b)
      BY <3>a, <2>3, ConcatProperties
    <3>2. QED
      BY <1>1, <2>1, <2>2, <3>1
  <2>5. ASSUME NEW j \in 1..(Len(q) - 1) PROVE r[j] = IF j < k THEN q[j] ELSE q[j + 1]
    <3>1. r[j] = IF j <= k - 1 THEN a[j] ELSE b[j - (k - 1)]
      BY <1>1, <2>1, <2>2, <2>3
    <3>2. CASE j < k
      BY <2>1, <3>1, <3>2
    <3>3. CASE ~(j < k)
      <4>1. j - (k - 1) \in 1..(Len(q) - k) /\ k + (j - (k - 1)) = j + 1
        BY <1>1, <3>3
      <4>2. QED
        BY <2>2, <3>1, <3>3, <4>1
    <3>4. QED
      BY <3>2, <3>3
  <2>6. QED
    BY <1>1, <2>4, <2>5
<1> HIDE DEF r
<1>3. \A j \in DOMAIN r : r[j] = q[j] \/ r[j] = q[j + 1]
  BY <1>2
<1>4. \A j \in DOMAIN r : j \in DOMAIN q /\ j + 1 \in DOMAIN q /\ j # Len(q)
  BY <1>1, <1>2
<1>5. NoCrc(q) => NoCrc(r)
  BY <1>3, <1>4 DEF NoCrc
<1>6. ASSUME Final(q, n) PROVE Final(r, n)
  <2> SUFFICES ASSUME NEW j \in DOMAIN r, r[j].i = PktLen
               PROVE  j = Len(r) /\ r[j].f.id = n /\ r[j].f.op \in Op
    BY DEF Final
  <2>1. r[j] = q[j + 1]
    BY <1>3, <1>4, <1>6 DEF Final
  <2>2. j + 1 = Len(q) /\ r[j].f.id = n /\ r[j].f.op \in Op
    BY <1>4, <1>6, <2>1 DEF Final
  <2>3. QED
    BY <1>1, <1>2, <2>2
<1>7. QED
  BY <1>5, <1>6 DEF r

\* A unit is damaged.
LEMMA JunkFinal ==
  ASSUME NEW q \in Seq(Unit), NEW k \in 1..Len(q), NEW n
  PROVE  /\ Final(q, n) => Final([q EXCEPT ![k] = Junk], n)
         /\ NoCrc(q) => NoCrc([q EXCEPT ![k] = Junk])
<1> DEFINE r == [q EXCEPT ![k] = Junk]
<1>1. DOMAIN r = DOMAIN q /\ Len(r) = Len(q) /\ \A j \in DOMAIN r : r[j] = Junk \/ r[j] = q[j]
  BY JunkType
<1>2. Junk.i # PktLen
  BY DEF Junk
<1>3. QED
  BY <1>1, <1>2 DEF Final, NoCrc

\* A frame as it is sent.
LEMMA UnitsFinal ==
  ASSUME NEW f \in Frame, f.op \in Op
  PROVE  Final(Units(f), f.id) /\ Units(f) # <<>>
BY UnitsType DEF Units, Final

\* A frame is complete when its CRC, the last unit on the line, has been read.
LEMMA CompleteFinal ==
  ASSUME NEW l \in Seq(Unit), NEW m \in 1..Len(l), NEW old \in Seq(Unit), NEW n, Final(l, n),
         NEW buf \in Seq(Unit), buf = old \o SubSeq(l, 1, m), Intact(buf)
  PROVE  ~NoCrc(l) /\ Whole(buf, n) /\ SubSeq(l, m + 1, Len(l)) = <<>>
<1>1. Len(l) \in Nat /\ DOMAIN l = 1..Len(l) /\ Len(old) \in Nat
  OBVIOUS
<1>2. SubSeq(l, 1, m) \in Seq(Unit) /\ Len(SubSeq(l, 1, m)) = m /\ SubSeq(l, 1, m)[m] = l[m]
  BY <1>1
<1>3. Len(buf) = Len(old) + m /\ buf[Len(old) + m] = l[m]
  BY <1>1, <1>2
<1>4. Len(buf) = PktLen /\ buf[PktLen] = [f |-> buf[2].f, i |-> PktLen]
  BY DEF Intact
<1>5. buf[PktLen].i = PktLen /\ buf[PktLen].f = buf[2].f /\ l[m] = buf[PktLen]
  BY <1>3, <1>4
<1>6. m = Len(l) /\ buf[2].f.id = n /\ buf[2].f.op \in Op /\ ~NoCrc(l)
  <2>1. m \in DOMAIN l /\ l[m].i = PktLen /\ l[m].f = buf[2].f
    BY <1>1, <1>5
  <2>2. m = Len(l) /\ l[m].f.id = n /\ l[m].f.op \in Op
    BY <2>1 DEF Final
  <2>3. ~NoCrc(l)
    BY <2>1 DEF NoCrc
  <2>4. QED
    BY <2>1, <2>2, <2>3
<1>7. SubSeq(l, m + 1, Len(l)) = <<>>
  BY <1>1, <1>6
<1>8. QED
  BY <1>6, <1>7 DEF Whole

-----------------------------------------------------------------------------
(* What is known before a step *)

LEMMA CallFacts ==
  ASSUME NEW h, Calls(h)
  PROVE  /\ h \in Chip /\ Peer[h] \in Chip /\ Peer[h] # h /\ Peer[Peer[h]] = h
         /\ IInv /\ TypeOK /\ Serves(Peer[h])
         /\ ctx[h] \in Context /\ Consistent(ctx[h]) /\ wk[h] \in {"none", "rsp"} /\ ~ctx[h].wkReq
         /\ ctx[Peer[h]] \in Context /\ Consistent(ctx[Peer[h]])
         /\ ~Late /\ ~Yields /\ \A t, u \in Thread : t = u
<1>1. h \in Chip
  BY DEF Calls
<1>2. Peer[h] \in Chip /\ Peer[h] # h /\ Peer[Peer[h]] = h
  BY <1>1
<1>3. IInv /\ TypeOK /\ Serves(Peer[h])
  BY <1>2 DEF Calls, SInv, IInv
<1>4. ctx[h] \in Context /\ ctx[Peer[h]] \in Context /\ Consistent(ctx[h])
      /\ Consistent(ctx[Peer[h]]) /\ wk[h] \in {"none", "req", "respond", "rsp"}
  BY <1>1, <1>2, <1>3 DEF IInv, TypeOK, ModeMatchesState
<1>5. ~ctx[h].wkReq /\ wk[h] \notin {"req", "respond"}
  BY <1>2, <1>3 DEF Serves, PeerOnlyAsks
<1>6. QED
  BY <1>1, <1>2, <1>3, <1>4, <1>5 DEF Calls, OneHost

LEMMA CallUnseen ==
  ASSUME NEW h, Calls(h), UNCHANGED CallView(h)
  PROVE  CallInv(h)' /\ RpcStep(h)
<1>1. Executed(h)' = Executed(h) /\ Concluded(h)' = Concluded(h)
  BY DEF CallView, Executed, Concluded
<1>2. HostTask(h)'
  BY DEF CallView, Calls, CallInv, HostTask
<1>3. Outward(h)'
  BY <1>1 DEF CallView, Calls, CallInv, Outward, Silent, Free, NoneComing
<1>4. Homeward(h)'
  BY <1>1 DEF CallView, Calls, CallInv, Homeward
<1>5. Turns(h)'
  BY <1>1 DEF CallView, Calls, CallInv, Turns, Silent, Free, NoneComing
<1>6. RpcStep(h)
  BY DEF CallView, RpcStep
<1>7. QED
  BY <1>2, <1>3, <1>4, <1>5, <1>6 DEF CallInv

\* A step after which the same calls have been made, executed and concluded.
LEMMA SameCalls ==
  ASSUME NEW h, UNCHANGED <<sent[h], served[Peer[h]], replies[h]>>
  PROVE  Executed(h)' = Executed(h) /\ Concluded(h)' = Concluded(h) /\ RpcStep(h)
BY DEF Executed, Concluded, RpcStep

LEMMA ReplyIds ==
  ASSUME NEW s \in Seq(Conclusion), NEW k \in DOMAIN s
  PROVE  s[k].id \in Nat
<1>1. s[k] \in Conclusion
  OBVIOUS
<1>2. QED
  BY <1>1 DEF Conclusion

\* One more conclusion, of the last request.
LEMMA RepliesBelow ==
  ASSUME NEW s \in Seq(Conclusion), NEW r, NEW n \in Nat, r.id = n,
         \A k \in DOMAIN s : s[k].id <= n
  PROVE  \A k \in DOMAIN Append(s, r) : Append(s, r)[k].id <= n
<1> SUFFICES ASSUME NEW k \in DOMAIN Append(s, r) PROVE Append(s, r)[k].id <= n
  OBVIOUS
<1>1. (k \in DOMAIN s /\ Append(s, r)[k] = s[k]) \/ Append(s, r)[k] = r
  OBVIOUS
<1>2. QED
  BY <1>1

\* What is read from a frame that is whole.
LEMMA ReadWhole ==
  ASSUME NEW buf \in Seq(Unit), NEW n, Whole(buf, n), NEW f \in buff_to_cmd(buf)
  PROVE  f \in Frame /\ f.kind = buf[1].f.kind /\ f.op \in Op /\ f.id = n
<1>1. Intact(buf) /\ f = FrameIn(buf)
  BY DEF Whole, buff_to_cmd
<1>2. buf[1] \in Unit /\ buf[2] \in Unit
  BY <1>1 DEF Intact
<1>3. f.kind = buf[1].f.kind /\ f.op = buf[2].f.op /\ f.id = buf[2].f.id
  BY <1>1, <1>2 DEF FrameIn, Unit, Frame
<1>4. QED
  BY <1>3, ReadType DEF Whole

-----------------------------------------------------------------------------
(* Steps of the host *)

\* app_cmd_request is called.
LEMMA CallReqCheck ==
  ASSUME NEW h, Calls(h), NEW t \in Thread, ReqCheck(h, t)
  PROVE  CallInv(h)' /\ RpcStep(h)
<1>1. /\ h \in Chip /\ TypeOK /\ wk[h] = "none" /\ ctx[h].state = "idle"
      /\ \A u \in Thread : u = t
  BY CallFacts DEF ReqCheck, CanRun, Consistent
<1>2. /\ pc' = [pc EXCEPT ![h][t] = "checked"]
      /\ UNCHANGED <<ctx, wk, txBuf, txq, line, rx, sent, served, replies>>
  BY DEF ReqCheck, link, history
<1>3. Executed(h)' = Executed(h) /\ Concluded(h)' = Concluded(h) /\ RpcStep(h)
  BY <1>2, SameCalls
<1>4. pc'[h][t] = "checked"
  BY <1>1, <1>2 DEF TypeOK
<1>5. HostTask(h)'
  BY <1>1, <1>2, <1>4 DEF Calls, CallInv, HostTask
<1>6. Outward(h)' /\ Homeward(h)' /\ Turns(h)'
  BY <1>2, <1>3 DEF Calls, CallInv, Outward, Homeward, Turns, Silent, Free, NoneComing
<1>7. QED
  BY <1>3, <1>5, <1>6 DEF CallInv

\* It goes to host mode.
LEMMA CallReqStart ==
  ASSUME NEW h, Calls(h), NEW t \in Thread, ReqStart(h, t)
  PROVE  CallInv(h)' /\ RpcStep(h)
<1> DEFINE y == on_cmd_send_start([ctx[h] EXCEPT !.mode = "host"])
<1>1. /\ h \in Chip /\ Peer[h] # h /\ TypeOK /\ wk[h] = "none" /\ ctx[h] \in Context
      /\ \A u \in Thread : u = t
  BY CallFacts DEF ReqStart, CanRun
<1>2. /\ ctx[h].state = "idle" /\ ~ctx[h].timer /\ ~ctx[h].wkRsp /\ txq[h] = <<>>
      /\ Silent(h) /\ Free(h) /\ NoneComing(h)
  BY DEF ReqStart, Calls, CallInv, HostTask, Turns, Waiting
<1>3. y = [ctx[h] EXCEPT !.mode = "host", !.state = "req_sending"]
  BY <1>1, <1>2 DEF on_cmd_send_start, state_set, state_handler, Context
<1>4. y.state = "req_sending" /\ y.mode = "host" /\ ~y.timer /\ ~y.wkRsp
  BY <1>1, <1>2, <1>3 DEF Context
<1>5. /\ pc' = [pc EXCEPT ![h][t] = "started"] /\ ctx' = [ctx EXCEPT ![h] = y]
      /\ UNCHANGED <<wk, txBuf, txq, line, rx, sent, served, replies>>
  BY DEF ReqStart, link, history
<1> HIDE DEF y
<1>6. pc'[h][t] = "started" /\ ctx'[h] = y /\ \A d \in Chip : d # h => ctx'[d] = ctx[d]
  BY <1>1, <1>5 DEF TypeOK
<1>7. Executed(h)' = Executed(h) /\ Concluded(h)' = Concluded(h) /\ RpcStep(h)
  BY <1>5, SameCalls
<1>8. HostTask(h)'
  BY <1>1, <1>2, <1>4, <1>5, <1>6 DEF HostTask
<1>9. ctx'[Peer[h]] = ctx[Peer[h]]
  BY <1>1, <1>6
<1>10. Outward(h)' /\ Homeward(h)'
  BY <1>1, <1>4, <1>5, <1>6, <1>7, <1>9
     DEF Calls, CallInv, Outward, Homeward, Silent, Free, NoneComing
<1>11. Turns(h)'
  BY <1>1, <1>2, <1>4, <1>5, <1>6, <1>7, <1>9
     DEF Calls, CallInv, Turns, Waiting, Silent, Free, NoneComing
<1>12. QED
  BY <1>7, <1>8, <1>10, <1>11 DEF CallInv

\* The request is handed to the UART.
LEMMA CallReqSend ==
  ASSUME NEW h, Calls(h), NEW t \in Thread, ReqSend(h, t)
  PROVE  CallInv(h)' /\ RpcStep(h)
<1> DEFINE p == Peer[h]
           n == sent[h] + 1
<1>1. /\ h \in Chip /\ p \in Chip /\ p # h /\ TypeOK /\ wk[h] = "none"
      /\ \A u \in Thread : u = t
  BY CallFacts DEF ReqSend, CanRun
<1>2. sent[h] \in Nat /\ served[p] \in Seq(Nat) /\ replies[h] \in Seq(Conclusion)
  BY <1>1 DEF TypeOK
<1> HIDE DEF p
<1>3. /\ ctx[h].state = "req_sending" /\ txq[h] = <<>> /\ ctx[h].mode # "slave"
      /\ ~ctx[h].timer /\ ~ctx[h].wkRsp /\ Silent(h) /\ Free(h) /\ NoneComing(h)
  BY DEF ReqSend, Calls, CallInv, HostTask, Turns, Waiting
<1>4. PICK o \in Op : Transmit(h, [kind |-> "req", op |-> o, id |-> n])
  BY DEF ReqSend
<1> DEFINE f == [kind |-> "req", op |-> o, id |-> n]
<1>5. f \in Frame /\ f.id = n /\ f.op \in Op
  BY <1>2 DEF Frame
<1> HIDE DEF f
<1>6. /\ txBuf' = [txBuf EXCEPT ![h] = f] /\ txq' = [txq EXCEPT ![h] = Units(f)]
      /\ pc' = [pc EXCEPT ![h][t] = "idle"] /\ sent' = [sent EXCEPT ![h] = @ + 1]
      /\ UNCHANGED <<ctx, wk, line, rx, served, replies>>
  BY <1>3, <1>4 DEF Transmit, uart_send, ReqSend, f
<1>7. /\ txBuf'[h] = f /\ txq'[h] = Units(f) /\ txq'[p] = txq[p] /\ sent'[h] = n
      /\ pc'[h][t] = "idle"
  BY <1>1, <1>6 DEF TypeOK
<1>8. Final(txq'[h], n)
  BY <1>5, <1>7, UnitsFinal
<1>9. ~Executed(h)' /\ ~Concluded(h)'
  <2>1. \A k \in DOMAIN served[p] : served[p][k] \in Nat /\ served[p][k] <= sent[h]
    BY <1>2 DEF Calls, CallInv, Turns, p
  <2>2. \A k \in DOMAIN replies[h] : replies[h][k].id \in Nat /\ replies[h][k].id <= sent[h]
    BY <1>2, ReplyIds DEF Calls, CallInv, Turns
  <2>3. QED
    BY <1>2, <1>6, <1>7, <2>1, <2>2 DEF Executed, Concluded, p
<1>10. HostTask(h)'
  BY <1>1, <1>3, <1>6, <1>7 DEF HostTask
<1>11. Outward(h)'
  <2>1. Final(line[p], n)
    BY <1>3, NoneFinal DEF NoneComing, p
  <2>2. QED
    BY <1>3, <1>6, <1>7, <1>8, <1>9, <2>1 DEF Outward, Free, NoneComing, Silent, p
<1>12. Homeward(h)'
  BY <1>1, <1>3, <1>6, <1>7, EmptyFinal DEF Homeward, Silent, p
<1>13. Turns(h)'
  <2>1. \A k \in DOMAIN served[p] : served[p][k] <= n
    BY <1>2 DEF Calls, CallInv, Turns, p
  <2>2. \A k \in DOMAIN replies[h] : replies[h][k].id <= n
    <3>1. \A k \in DOMAIN replies[h] : replies[h][k].id \in Nat /\ replies[h][k].id <= sent[h]
      BY <1>2, ReplyIds DEF Calls, CallInv, Turns
    <3>2. QED
      BY <1>2, <3>1
  <2>3. n > 0
    BY <1>2
  <2> HIDE DEF n
  <2>4. QED
    BY <1>1, <1>3, <1>5, <1>6, <1>7, <1>9, <2>1, <2>2, <2>3
       DEF Turns, Waiting, Silent, Free, NoneComing, p
<1>14. RpcStep(h)
  BY <1>6, <1>7 DEF RpcStep
<1>15. QED
  BY <1>10, <1>11, <1>12, <1>13, <1>14 DEF CallInv

\* A unit of the request leaves the host; then the timer is started.
LEMMA CallHostShifts ==
  ASSUME NEW h, Calls(h), TxShift(h)
  PROVE  CallInv(h)' /\ RpcStep(h)
<1> DEFINE p == Peer[h]
           n == sent[h]
           q == txq[h]
<1>1. /\ h \in Chip /\ p \in Chip /\ p # h /\ TypeOK /\ q \in Seq(Unit) /\ line[p] \in Seq(Unit)
      /\ ctx[h] \in Context /\ Consistent(ctx[h]) /\ wk[h] \in {"none", "rsp"}
  BY CallFacts, OfChip
<1> HIDE DEF p
<1>2. /\ q # <<>> /\ ctx[h].state = "req_sending" /\ ctx[h].mode = "host"
      /\ ~ctx[h].timer /\ ~ctx[h].wkRsp /\ wk[h] = "none" /\ \A t \in Thread : pc[h][t] = "idle"
      /\ Silent(h) /\ Free(h) /\ NoCrc(line[p]) /\ ~Executed(h) /\ sent[h] > 0 /\ ~Concluded(h)
      /\ Final(q, n)
  BY <1>1 DEF TxShift, Calls, CallInv, HostTask, Outward, Turns, Waiting, NoneComing, p,
              Consistent, Context, State
<1>3. /\ txq'[h] = Tail(q) /\ txq'[p] = txq[p]
      /\ line'[p] = Append(line[p], Head(q)) /\ line'[h] = line[h]
      /\ UNCHANGED <<pc, wk, txBuf, rx, sent, served, replies>>
  BY <1>1 DEF TxShift, TypeOK, history, p
<1>4. /\ Final(line'[p], n) /\ Final(Tail(q), n)
      /\ NoCrc(line'[p]) \/ Tail(q) = <<>>
  BY <1>1, <1>2, <1>3, ShiftFinal
<1> DEFINE y == IF Len(q) = 1 THEN on_cmd_send_complete(ctx[h]) ELSE ctx[h]
<1>5. /\ Len(q) = 1 => Tail(q) = <<>> /\ y.state = "req_sent"
      /\ Len(q) # 1 => Tail(q) # <<>> /\ y = ctx[h]
      /\ y.mode = "host" /\ ~y.wkRsp /\ (y.timer => y.state = "req_sent")
  <2>1. Len(q) \in Nat /\ Len(q) # 0 /\ Tail(q) \in Seq(Unit) /\ Len(Tail(q)) = Len(q) - 1
    BY <1>1, <1>2, EmptySeq, HeadTailProperties
  <2>2. (Len(q) = 1 => Tail(q) = <<>>) /\ (Len(q) # 1 => Tail(q) # <<>>)
    <3>1. \A s \in Seq(Unit) : s = <<>> <=> Len(s) = 0
      BY EmptySeq
    <3>2. Tail(q) = <<>> <=> Len(q) - 1 = 0
      BY <2>1, <3>1
    <3>3. QED
      BY <2>1, <3>2
  <2>3. on_cmd_send_complete(ctx[h]) = [ctx[h] EXCEPT !.state = "req_sent", !.timer = TRUE]
    BY <1>1, <1>2 DEF on_cmd_send_complete, state_set, state_handler, StartTimer, Context
  <2>4. QED
    BY <1>1, <1>2, <2>2, <2>3 DEF Context
<1>6. ctx'[h] = y /\ ctx'[p] = ctx[p]
  BY <1>1 DEF TxShift, TypeOK
<1> HIDE DEF y, q, n
<1>7. Executed(h)' = Executed(h) /\ Concluded(h)' = Concluded(h) /\ RpcStep(h)
  BY <1>3, SameCalls DEF p
<1>8. Silent(h)' /\ Free(h)' /\ sent'[h] = n
  BY <1>2, <1>3, <1>6 DEF Silent, Free, p, n
<1>9. HostTask(h)'
  BY <1>2, <1>3, <1>5, <1>6 DEF HostTask, Waiting
<1>10. Outward(h)'
  BY <1>2, <1>3, <1>4, <1>7, <1>8 DEF Outward, Free, NoneComing, p
<1>11. Homeward(h)'
  BY <1>2, <1>3, <1>5, <1>6, <1>7, <1>8, EmptyFinal DEF Homeward, Silent, p
<1>12. Turns(h)'
  <2>1. ctx'[h].state \notin Waiting => NoneComing(h)'
    BY <1>4, <1>5, <1>6 DEF Waiting, NoneComing, p
  <2>2. QED
    BY <1>2, <1>3, <1>7, <1>8, <2>1 DEF Calls, CallInv, Turns, n
<1>13. QED
  BY <1>7, <1>9, <1>10, <1>11, <1>12 DEF CallInv

\* The transmission of the request is aborted, of which nobody is told.
LEMMA CallHostAborts ==
  ASSUME NEW h, Calls(h), TxAbort(h)
  PROVE  CallInv(h)' /\ RpcStep(h)
<1> DEFINE p == Peer[h]
           y == on_cmd_send_error(ctx[h])
<1>1. /\ h \in Chip /\ p \in Chip /\ p # h /\ TypeOK
      /\ ctx[h] \in Context /\ wk[h] \in {"none", "rsp"}
  BY CallFacts
<1> HIDE DEF p
<1>2. /\ ctx[h].state = "req_sending" /\ ~ctx[h].timer /\ ~ctx[h].wkRsp /\ wk[h] = "none"
      /\ \A t \in Thread : pc[h][t] = "idle"
      /\ Silent(h) /\ Free(h) /\ NoneComing(h)
  BY <1>1 DEF TxAbort, Calls, CallInv, HostTask, Turns, Waiting
<1>3. y = [ctx[h] EXCEPT !.state = "idle", !.mode = "idle"]
  BY <1>1, <1>2 DEF on_cmd_send_error, state_set, state_handler, Idle, Context
<1>4. y.state = "idle" /\ y.mode = "idle" /\ ~y.timer /\ ~y.wkRsp
  BY <1>1, <1>2, <1>3 DEF Context
<1>5. ctx' = [ctx EXCEPT ![h] = y]
  BY DEF TxAbort
<1> HIDE DEF y
<1>6. /\ txq'[h] = <<>> /\ txq'[p] = txq[p] /\ ctx'[h] = y /\ ctx'[p] = ctx[p]
      /\ UNCHANGED <<pc, wk, txBuf, line, rx, sent, served, replies>>
  BY <1>1, <1>5 DEF TxAbort, TypeOK, history
<1>7. Executed(h)' = Executed(h) /\ Concluded(h)' = Concluded(h) /\ RpcStep(h)
  BY <1>6, SameCalls
<1>8. Silent(h)' /\ Free(h)' /\ NoneComing(h)'
  BY <1>2, <1>6 DEF Silent, Free, NoneComing, p
<1>9. HostTask(h)'
  BY <1>2, <1>4, <1>6 DEF HostTask
<1>10. Outward(h)' /\ Homeward(h)'
  BY <1>2, <1>4, <1>6, <1>7, <1>8, EmptyFinal
     DEF Calls, CallInv, Outward, Homeward, Silent, Free, NoneComing, p
<1>11. Turns(h)'
  BY <1>2, <1>4, <1>6, <1>7, <1>8 DEF Calls, CallInv, Turns, Waiting
<1>12. QED
  BY <1>7, <1>9, <1>10, <1>11 DEF CallInv

\* A host that waits: it goes on waiting, or a whole frame has come.
LEMMA HostReceives ==
  ASSUME NEW x \in Context, x.mode = "host", x.state \in Waiting
  PROVE  /\ \A y \in {on_cmd_receive_start(x), on_cmd_receive_error(x)} :
              /\ y \in Context /\ y.mode = "host" /\ y.state \in Waiting
              /\ y.wkRsp = x.wkRsp /\ y.wkReq = x.wkReq
         /\ LET y == on_cmd_receive_complete(x) IN
            y.mode = "host" /\ y.state = "rsp_received" /\ ~y.timer /\ y.wkReq = x.wkReq
<1> DEFINE a == [x EXCEPT !.state = "rsp_receiving"]
           b == [x EXCEPT !.state = "err_receive"]
           c == [x EXCEPT !.state = "rsp_received", !.timer = FALSE, !.wkRsp = TRUE]
<1>1. on_cmd_receive_start(x) \in {x, a}
  BY DEF on_cmd_receive_start, state_set, state_handler, Context
<1>2. on_cmd_receive_error(x) \in {x, b}
  BY DEF on_cmd_receive_error, state_set, state_handler, Context
<1>3. on_cmd_receive_complete(x) = c
  BY DEF on_cmd_receive_complete, state_set, state_handler, Context, Waiting, StopTimer
<1>4. \A y \in {x, a, b} : /\ y \in Context /\ y.mode = "host" /\ y.state \in Waiting
                           /\ y.wkRsp = x.wkRsp /\ y.wkReq = x.wkReq
  BY DEF Context, State, Waiting
<1>5. c.mode = "host" /\ c.state = "rsp_received" /\ ~c.timer /\ c.wkReq = x.wkReq
  BY DEF Context
<1> HIDE DEF a, b, c
<1>6. QED
  BY <1>1, <1>2, <1>3, <1>4, <1>5

\* Units reach the host, which waits; the last one makes the response whole.
LEMMA CallHostRx ==
  ASSUME NEW h, Calls(h), NEW m \in 1..Len(line[h]), RxReady(h, m)
  PROVE  CallInv(h)' /\ RpcStep(h)
<1> DEFINE p == Peer[h]
           n == sent[h]
           l == line[h]
           chunk == SubSeq(l, 1, m)
           rest == SubSeq(l, m + 1, Len(l))
           old == IF rx[h].started THEN rx[h].buf ELSE <<>>
           stored == IF rx[h].started THEN rx[h].buf \o chunk ELSE chunk
           x == ctx[h]
           y == IF rx[h].started THEN x ELSE on_cmd_receive_start(x)
<1>1. /\ h \in Chip /\ p \in Chip /\ p # h /\ TypeOK /\ l \in Seq(Unit) /\ Len(l) \in Nat
      /\ rx[h].buf \in Seq(Unit) /\ x \in Context /\ Consistent(x) /\ wk[h] \in {"none", "rsp"}
  BY CallFacts, OfChip
<1> HIDE DEF p
<1>2. l # <<>>
  BY <1>1
<1>3. /\ x.state \in Waiting /\ x.mode = "host" /\ ~x.wkRsp /\ wk[h] = "none" /\ txq[h] = <<>>
      /\ \A t \in Thread : pc[h][t] \notin {"checked", "started"}
      /\ NoneComing(h) /\ Free(h) /\ sent[h] > 0 /\ ~Concluded(h) /\ Final(l, n)
      /\ ~NoCrc(l) => txq[p] = <<>> /\ Executed(h)
  <2>1. ~Silent(h) /\ CallInv(h)
    BY <1>2 DEF Silent, Calls
  <2>2. x.state \in Waiting
    BY <2>1 DEF CallInv, Turns
  <2>3. x.mode = "host"
    BY <1>1, <2>2 DEF Consistent, Waiting, Context
  <2>4. /\ ~x.wkRsp /\ wk[h] = "none" /\ txq[h] = <<>>
        /\ \A t \in Thread : pc[h][t] \notin {"checked", "started"}
    BY <1>1, <2>1, <2>2 DEF CallInv, HostTask, Waiting
  <2>5. NoneComing(h) /\ Free(h)
    <3>1. wk[p] = "none" /\ ~ctx[p].wkReq /\ NoneComing(h)
      BY <2>1 DEF CallInv, Outward, p
    <3>2. QED
      BY <3>1 DEF Free, p
  <2>6. sent[h] > 0 /\ ~Concluded(h)
    BY <2>1, <2>2 DEF CallInv, Turns
  <2>7. Final(l, n) /\ (~NoCrc(l) => txq[p] = <<>> /\ Executed(h))
    BY <2>1 DEF CallInv, Homeward, p
  <2> HIDE DEF l, n, x
  <2>8. QED
    BY <2>2, <2>3, <2>4, <2>5, <2>6, <2>7
<1>4. Final(rest, n) /\ (NoCrc(l) => NoCrc(rest))
  <2>1. m + 1 \in 1..(Len(l) + 1) /\ l \in Seq(Unit)
    BY <1>1
  <2> HIDE DEF l, n
  <2>2. QED
    BY <1>3, <2>1, RestFinal
<1>5. /\ line'[h] = rest /\ line'[p] = line[p]
      /\ UNCHANGED <<pc, wk, txBuf, txq, sent, served, replies>>
  BY <1>1 DEF RxReady, TypeOK, link, history
<1>6. Executed(h)' = Executed(h) /\ Concluded(h)' = Concluded(h) /\ RpcStep(h)
  BY <1>5, SameCalls DEF p
<1>7. ctx'[p] = ctx[p] /\ rx'[p] = rx[p]
  <2>1. CASE ~Accepts(x)
    BY <2>1 DEF RxReady
  <2>2. CASE Accepts(x)
    BY <1>1, <2>2 DEF RxReady, Collect, TypeOK
  <2>3. QED
    BY <2>1, <2>2
<1>8. \/ ctx'[h].mode = "host" /\ ctx'[h].state \in Waiting /\ ~ctx'[h].wkRsp
      \/ /\ ctx'[h].mode = "host" /\ ctx'[h].state = "rsp_received" /\ ~ctx'[h].timer
         /\ rx'[h].buf = stored /\ Intact(stored) /\ stored[1].f.kind = "rsp"
  <2>1. CASE ~Accepts(x)
    BY <1>3, <2>1 DEF RxReady
  <2>2. CASE Accepts(x)
    <3>1. y \in Context /\ y.mode = "host" /\ y.state \in Waiting /\ ~y.wkRsp
      BY <1>1, <1>3, HostReceives
    <3> HIDE DEF stored, chunk, x, y
    <3>2. PICK len : Collect(h, y, stored, len)
      BY <2>2 DEF RxReady, stored, chunk, x, y, l
    <3> DEFINE z == IF rx[h].need = 0 /\ len > MaxLen THEN on_cmd_receive_error(y) ELSE y
               complete == len # 0 /\ Len(stored) >= len
               w == IF ~complete THEN z
                    ELSE IF format_check(h, stored, z.mode)
                         THEN on_cmd_receive_complete(z)
                         ELSE on_cmd_receive_error(z)
    <3>3. z \in Context /\ z.mode = "host" /\ z.state \in Waiting /\ ~z.wkRsp
      BY <3>1, HostReceives
    <3> HIDE DEF z, complete
    <3>4. /\ ctx' = [ctx EXCEPT ![h] = w]
          /\ rx' = [rx EXCEPT ![h] = [buf |-> stored, started |-> ~complete,
                                      need |-> IF complete THEN 0 ELSE len]]
      BY <3>2 DEF Collect, z, complete
    <3>5. \/ w.mode = "host" /\ w.state \in Waiting /\ ~w.wkRsp
          \/ /\ w.mode = "host" /\ w.state = "rsp_received" /\ ~w.timer
             /\ Intact(stored) /\ stored[1].f.kind = "rsp"
      <4>1. CASE complete /\ format_check(h, stored, z.mode)
        <5>1. w = on_cmd_receive_complete(z)
          BY <4>1
        <5> HIDE DEF w
        <5>2. w.mode = "host" /\ w.state = "rsp_received" /\ ~w.timer
          BY <3>3, <5>1, HostReceives
        <5>3. Intact(stored) /\ FrameIn(stored).kind = "rsp"
          BY <3>3, <4>1 DEF format_check
        <5>4. stored[1].f.kind = "rsp"
          <6>1. stored \in Seq(Unit)
            BY <1>1, SubSeqProperties, ConcatProperties DEF stored, chunk
          <6>2. stored[2] \in Unit
            BY <5>3, <6>1 DEF Intact
          <6>3. QED
            BY <5>3, <6>2 DEF FrameIn, Unit, Frame
        <5>5. QED
          BY <5>2, <5>3, <5>4
      <4>2. CASE ~complete \/ ~format_check(h, stored, z.mode)
        <5>1. w \in {z, on_cmd_receive_error(z)}
          BY <4>2
        <5> HIDE DEF w
        <5>2. QED
          BY <3>3, <5>1, HostReceives
      <4>3. QED
        BY <4>1, <4>2
    <3> HIDE DEF w
    <3>6. ctx'[h] = w /\ rx'[h].buf = stored
      BY <1>1, <3>4 DEF TypeOK
    <3>7. QED
      BY <3>5, <3>6
  <2>3. QED
    BY <2>1, <2>2
<1>9. CASE ctx'[h].mode = "host" /\ ctx'[h].state \in Waiting /\ ~ctx'[h].wkRsp
  <2>1. HostTask(h)'
    BY <1>3, <1>5, <1>9 DEF HostTask, Waiting
  <2>2. Outward(h)'
    BY <1>3, <1>5, <1>6, <1>7 DEF Calls, CallInv, Outward, Free, NoneComing, p
  <2>3. Homeward(h)'
    BY <1>3, <1>4, <1>5, <1>6, <1>9 DEF Calls, CallInv, Homeward, Waiting, p
  <2>4. Turns(h)'
    BY <1>3, <1>5, <1>6, <1>9 DEF Calls, CallInv, Turns, p
  <2>5. QED
    BY <1>6, <2>1, <2>2, <2>3, <2>4 DEF CallInv
<1>10. CASE /\ ctx'[h].mode = "host" /\ ctx'[h].state = "rsp_received" /\ ~ctx'[h].timer
            /\ rx'[h].buf = stored /\ Intact(stored) /\ stored[1].f.kind = "rsp"
  <2>1. ~NoCrc(l) /\ Whole(stored, n) /\ rest = <<>>
    <3>1. old \in Seq(Unit) /\ chunk \in Seq(Unit)
      BY <1>1, SubSeqProperties
    <3> HIDE DEF chunk
    <3>2. <<>> \o chunk = chunk
      BY <3>1
    <3>3. stored = old \o chunk
      BY <3>2
    <3>4. stored \in Seq(Unit)
      BY <3>1, <3>3, ConcatProperties
    <3> HIDE DEF old, stored
    <3>5. stored = old \o SubSeq(l, 1, m)
      BY <3>3 DEF chunk
    <3> HIDE DEF l, n, rest
    <3>6. ~NoCrc(l) /\ Whole(stored, n) /\ SubSeq(l, m + 1, Len(l)) = <<>>
      <4>1. l \in Seq(Unit) /\ m \in 1..Len(l)
        BY <1>1 DEF l
      <4>2. Intact(stored) /\ Final(l, n)
        BY <1>3, <1>10
      <4>3. QED
        BY <3>1, <3>4, <3>5, <4>1, <4>2, CompleteFinal
    <3>7. QED
      BY <3>6 DEF rest
  <2> HIDE DEF stored, rest
  <2>2. Silent(h)' /\ Free(h)' /\ NoneComing(h)' /\ Executed(h)
    BY <1>3, <1>5, <1>7, <2>1 DEF Silent, Free, NoneComing, p
  <2>3. HostTask(h)'
    BY <1>3, <1>5, <1>10 DEF HostTask
  <2>4. Outward(h)'
    BY <1>3, <1>5, <1>6, <1>7, <2>2 DEF Calls, CallInv, Outward, Free, p
  <2>5. Homeward(h)'
    BY <1>3, <1>4, <1>5, <1>6, <1>10, <2>1, <2>2, EmptyFinal DEF Calls, CallInv, Homeward, p
  <2>6. Turns(h)'
    BY <1>3, <1>5, <1>6, <2>2 DEF Calls, CallInv, Turns, p
  <2>7. QED
    BY <1>6, <2>3, <2>4, <2>5, <2>6 DEF CallInv
<1>11. QED
  BY <1>8, <1>9, <1>10

\* No answer can come any more, and the application is told.
LEMMA CallTimesOut ==
  ASSUME NEW h, Calls(h), Timeout(h)
  PROVE  CallInv(h)' /\ RpcStep(h)
<1> DEFINE p == Peer[h]
           f == txBuf[h]
           x == [ctx[h] EXCEPT !.timer = FALSE]
           y == state_set(x, "idle")
<1>1. /\ h \in Chip /\ p \in Chip /\ p # h /\ TypeOK /\ ctx[h] \in Context /\ f \in Frame
      /\ sent[h] \in Nat /\ replies[h] \in Seq(Conclusion)
  BY CallFacts DEF TypeOK
<1> HIDE DEF p
<1>2. /\ ctx[h].state \in Waiting /\ ~ctx[h].wkRsp /\ wk[h] # "rsp"
      /\ \A t \in Thread : pc[h][t] \notin {"checked", "started"}
      /\ sent[h] > 0 /\ ~Concluded(h) /\ f.id = sent[h] /\ f.op \in Op
  BY DEF Timeout, Calls, CallInv, HostTask, Turns, Waiting
<1>3. /\ txq[h] = <<>> /\ line[h] = <<>> /\ txq[p] = <<>> /\ line[p] = <<>>
      /\ ~ctx[p].wkReq /\ wk[p] = "none"
  BY <1>1, CallFacts DEF Timeout, Quiet, p
<1>4. x \in Context /\ x.state # "idle" /\ ~x.timer /\ ~x.wkRsp
  BY <1>1, <1>2 DEF Context, Waiting
<1>5. ctx' = [ctx EXCEPT ![h] = y]
  BY DEF Timeout
<1> HIDE DEF x
<1>6. y.state = "idle" /\ y.mode = "idle" /\ ~y.timer /\ ~y.wkRsp
  BY <1>4 DEF state_set, state_handler, Idle, Context
<1> HIDE DEF y
<1> DEFINE r == Reply("timeout", f)
<1>7. replies' = [replies EXCEPT ![h] = Append(@, r)]
  BY <1>2 DEF Timeout, cmd_cb_get
<1>8. r \in Conclusion /\ r.id = sent[h] /\ r.how = "timeout"
  BY <1>1, <1>2 DEF Reply, Conclusion, Frame
<1> HIDE DEF r, f
<1>9. /\ ctx'[h] = y /\ ctx'[p] = ctx[p] /\ replies'[h] = Append(replies[h], r)
      /\ UNCHANGED <<pc, wk, txBuf, txq, line, rx, sent, served>>
  BY <1>1, <1>5, <1>7 DEF Timeout, TypeOK, link
<1>10. Executed(h)' = Executed(h)
  BY <1>9 DEF Executed
<1>11. Silent(h)' /\ Free(h)' /\ NoneComing(h)'
  BY <1>3, <1>9, EmptyFinal DEF Silent, Free, NoneComing, p
<1>12. HostTask(h)'
  BY <1>2, <1>3, <1>6, <1>9 DEF HostTask
<1>13. Outward(h)'
  BY <1>3, <1>9, <1>10, <1>11, EmptyFinal DEF Outward, Free, p
<1>14. Homeward(h)'
  BY <1>2, <1>3, <1>6, <1>9, <1>10, EmptyFinal DEF Calls, CallInv, Homeward, p
<1>15. Turns(h)'
  <2>1. \A k \in DOMAIN replies'[h] : replies'[h][k].id <= sent[h]
    BY <1>1, <1>8, <1>9, RepliesBelow DEF Calls, CallInv, Turns
  <2>2. QED
    BY <1>2, <1>3, <1>6, <1>9, <1>11, <2>1 DEF Calls, CallInv, Turns, Waiting
<1>16. RpcStep(h)
  BY <1>2, <1>8, <1>9 DEF RpcStep
<1>17. QED
  BY <1>12, <1>13, <1>14, <1>15, <1>16 DEF CallInv

\* wk_proc_rsp_handler returns the host to idle; m_rx_buff still holds the response.
LEMMA CallRspRun ==
  ASSUME NEW h, Calls(h), WkRspRun(h)
  PROVE  CallInv(h)' /\ RpcStep(h)
<1> DEFINE p == Peer[h]
           x == [ctx[h] EXCEPT !.wkRsp = FALSE]
           y == state_set(x, "idle")
<1>1. /\ h \in Chip /\ p \in Chip /\ p # h /\ TypeOK /\ ctx[h] \in Context
      /\ \A t \in Thread : pc[h][t] \in {"idle", "checked", "started"}
  BY CallFacts DEF TypeOK
<1> HIDE DEF p
<1>2. /\ ctx[h].state = "rsp_received" /\ ~ctx[h].timer /\ txq[h] = <<>>
      /\ \A t \in Thread : pc[h][t] = "idle"
      /\ Silent(h) /\ Free(h) /\ NoneComing(h) /\ sent[h] > 0 /\ ~Concluded(h)
      /\ Whole(rx[h].buf, sent[h]) /\ rx[h].buf[1].f.kind = "rsp" /\ Executed(h)
  BY <1>1 DEF WkRspRun, Calls, CallInv, HostTask, Homeward, Turns, Waiting
<1>3. x \in Context /\ x.state # "idle" /\ ~x.timer /\ ~x.wkRsp
  BY <1>1, <1>2 DEF Context
<1>4. ctx' = [ctx EXCEPT ![h] = y] /\ wk' = [wk EXCEPT ![h] = "rsp"]
  BY DEF WkRspRun
<1> HIDE DEF x
<1>5. y.state = "idle" /\ y.mode = "idle" /\ ~y.timer /\ ~y.wkRsp
  BY <1>3 DEF state_set, state_handler, Idle, Context
<1> HIDE DEF y
<1>6. /\ ctx'[h] = y /\ ctx'[p] = ctx[p] /\ wk'[h] = "rsp" /\ wk'[p] = wk[p]
      /\ UNCHANGED <<pc, txBuf, txq, line, rx, sent, served, replies>>
  BY <1>1, <1>4 DEF WkRspRun, TypeOK, link, history
<1>7. Executed(h)' = Executed(h) /\ Concluded(h)' = Concluded(h) /\ RpcStep(h)
  BY <1>6, SameCalls
<1>8. Silent(h)' /\ Free(h)' /\ NoneComing(h)'
  BY <1>2, <1>6 DEF Silent, Free, NoneComing, p
<1>9. HostTask(h)'
  BY <1>2, <1>5, <1>6 DEF HostTask
<1>10. Outward(h)' /\ Homeward(h)'
  BY <1>2, <1>5, <1>6, <1>7, <1>8
     DEF Calls, CallInv, Outward, Homeward, Free, NoneComing, p
<1>11. Turns(h)'
  BY <1>2, <1>5, <1>6, <1>7, <1>8 DEF Calls, CallInv, Turns
<1>12. QED
  BY <1>7, <1>9, <1>10, <1>11 DEF CallInv

\* It gives the response to the callback.
LEMMA CallRspRead ==
  ASSUME NEW h, Calls(h), WkRspRead(h)
  PROVE  CallInv(h)' /\ RpcStep(h)
<1> DEFINE p == Peer[h]
           buf == rx[h].buf
<1>1. /\ h \in Chip /\ p \in Chip /\ p # h /\ TypeOK /\ buf \in Seq(Unit)
      /\ sent[h] \in Nat /\ replies[h] \in Seq(Conclusion)
  BY CallFacts DEF TypeOK, Receiver
<1> HIDE DEF p
<1>2. /\ ctx[h].state = "idle" /\ txq[h] = <<>>
      /\ \A t \in Thread : pc[h][t] = "idle"
      /\ Silent(h) /\ Free(h) /\ NoneComing(h) /\ sent[h] > 0 /\ ~Concluded(h)
      /\ Whole(buf, sent[h]) /\ buf[1].f.kind = "rsp" /\ Executed(h)
  BY DEF WkRspRead, Calls, CallInv, HostTask, Homeward, Turns, Waiting
<1>3. PICK f \in buff_to_cmd(buf) :
        replies' = IF cmd_cb_get(f.op)
                   THEN [replies EXCEPT ![h] = Append(@, Reply("rsp", f))] ELSE replies
  BY DEF WkRspRead
<1>4. f \in Frame /\ f.kind = "rsp" /\ f.op \in Op /\ f.id = sent[h]
  BY <1>1, <1>2, <1>3, ReadWhole
<1> DEFINE r == Reply("rsp", f)
<1>5. r \in Conclusion /\ r.id = sent[h] /\ r.how = "rsp" /\ r.kind = "rsp"
  BY <1>4 DEF Reply, Conclusion, Frame
<1>6. replies' = [replies EXCEPT ![h] = Append(@, r)] /\ wk' = [wk EXCEPT ![h] = "none"]
  BY <1>3, <1>4 DEF cmd_cb_get, WkRspRead
<1> HIDE DEF r, buf
<1>7. /\ wk'[h] = "none" /\ wk'[p] = wk[p] /\ replies'[h] = Append(replies[h], r)
      /\ UNCHANGED <<ctx, pc, txBuf, txq, line, rx, sent, served>>
  BY <1>1, <1>6 DEF WkRspRead, TypeOK, link
<1>8. Executed(h)' = Executed(h)
  BY <1>7 DEF Executed
<1>9. Silent(h)' /\ Free(h)' /\ NoneComing(h)'
  BY <1>2, <1>7 DEF Silent, Free, NoneComing, p
<1>10. HostTask(h)'
  BY <1>2, <1>7 DEF Calls, CallInv, HostTask
<1>11. Outward(h)' /\ Homeward(h)'
  BY <1>2, <1>7, <1>8, <1>9 DEF Calls, CallInv, Outward, Homeward, Free, NoneComing, p
<1>12. Turns(h)'
  <2>1. \A k \in DOMAIN replies'[h] : replies'[h][k].id <= sent[h]
    BY <1>1, <1>5, <1>7, RepliesBelow DEF Calls, CallInv, Turns
  <2>2. QED
    BY <1>2, <1>7, <1>9, <2>1 DEF Calls, CallInv, Turns, Waiting
<1>13. RpcStep(h)
  BY <1>2, <1>5, <1>7 DEF RpcStep
<1>14. QED
  BY <1>10, <1>11, <1>12, <1>13 DEF CallInv

\* A unit for the host is lost or damaged.
LEMMA CallHostWire ==
  ASSUME NEW h, Calls(h), NEW k \in 1..Len(line[h]), Lose(h, k) \/ Corrupt(h, k)
  PROVE  CallInv(h)' /\ RpcStep(h)
<1> DEFINE p == Peer[h]
           n == sent[h]
<1>1. h \in Chip /\ p \in Chip /\ p # h /\ TypeOK /\ line[h] \in Seq(Unit)
  BY CallFacts, OfChip
<1> HIDE DEF p
<1>2. line[h] # <<>>
  BY <1>1
<1>3. /\ UNCHANGED <<ctx, pc, wk, txBuf, txq, rx, sent, served, replies>>
      /\ line'[p] = line[p] /\ line'[h] \in {DropAt(line[h], k), [line[h] EXCEPT ![k] = Junk]}
  BY <1>1 DEF Lose, Corrupt, TypeOK, link, history
<1>4. Final(line'[h], n) /\ (NoCrc(line[h]) => NoCrc(line'[h]))
  <2>1. Final(line[h], n)
    BY DEF Calls, CallInv, Homeward
  <2> HIDE DEF n
  <2>2. CASE line'[h] = DropAt(line[h], k)
    <3>1. /\ Final(line[h], n) => Final(DropAt(line[h], k), n)
          /\ NoCrc(line[h]) => NoCrc(DropAt(line[h], k))
      BY <1>1, DropFinal
    <3>2. QED
      BY <2>1, <2>2, <3>1
  <2>3. CASE line'[h] = [line[h] EXCEPT ![k] = Junk]
    <3>1. /\ Final(line[h], n) => Final([line[h] EXCEPT ![k] = Junk], n)
          /\ NoCrc(line[h]) => NoCrc([line[h] EXCEPT ![k] = Junk])
      BY <1>1, JunkFinal
    <3>2. QED
      BY <2>1, <2>3, <3>1
  <2>4. QED
    BY <1>3, <2>2, <2>3
<1>5. Executed(h)' = Executed(h) /\ Concluded(h)' = Concluded(h) /\ RpcStep(h)
  BY <1>3, SameCalls
<1>6. ~Silent(h) /\ Free(h)' = Free(h) /\ NoneComing(h)' = NoneComing(h)
  BY <1>2, <1>3 DEF Silent, Free, NoneComing, p
<1>7. HostTask(h)'
  BY <1>3 DEF Calls, CallInv, HostTask
<1>8. Outward(h)'
  BY <1>3, <1>5, <1>6 DEF Calls, CallInv, Outward, p
<1>9. Homeward(h)'
  BY <1>3, <1>4, <1>5 DEF Calls, CallInv, Homeward, p
<1>10. Turns(h)'
  BY <1>3, <1>5, <1>6 DEF Calls, CallInv, Turns, p
<1>11. QED
  BY <1>5, <1>7, <1>8, <1>9, <1>10 DEF CallInv

-----------------------------------------------------------------------------
(* Steps of the server *)

\* A unit of the response leaves the server.
LEMMA CallServerShifts ==
  ASSUME NEW h, Calls(h), TxShift(Peer[h])
  PROVE  CallInv(h)' /\ RpcStep(h)
<1> DEFINE p == Peer[h]
           n == sent[h]
           q == txq[p]
           l == line[h]
<1>1. /\ h \in Chip /\ p \in Chip /\ p # h /\ Peer[p] = h /\ TypeOK
      /\ q \in Seq(Unit) /\ l \in Seq(Unit) /\ ctx[p] \in Context
  BY CallFacts, OfChip
<1> HIDE DEF p
<1>2. /\ q # <<>> /\ Final(q, n) /\ NoCrc(l) /\ ~Silent(h)
      /\ ~NoCrc(q) => Executed(h)
  BY DEF TxShift, Calls, CallInv, Homeward, Silent, p
<1>3. ctx[h].state \in Waiting /\ wk[h] # "rsp" /\ NoneComing(h) /\ Free(h)
  <2>1. ctx[h].state \in Waiting
    BY <1>2 DEF Calls, CallInv, Turns
  <2>2. wk[h] # "rsp"
    BY <2>1 DEF Calls, CallInv, HostTask, Waiting
  <2>3. NoneComing(h) /\ Free(h)
    BY <1>2 DEF Calls, CallInv, Outward, Free
  <2>4. QED
    BY <2>1, <2>2, <2>3
<1>4. /\ txq'[p] = Tail(q) /\ txq'[h] = txq[h]
      /\ line'[h] = Append(l, Head(q)) /\ line'[p] = line[p]
      /\ ctx'[h] = ctx[h] /\ ctx'[p] \in {ctx[p], on_cmd_send_complete(ctx[p])}
      /\ UNCHANGED <<pc, wk, txBuf, rx, sent, served, replies>>
  <2>1. /\ line' = [line EXCEPT ![h] = Append(@, Head(txq[p]))]
        /\ txq' = [txq EXCEPT ![p] = Tail(@)]
        /\ ctx' = [ctx EXCEPT ![p] = on_cmd_send_complete(@)] \/ ctx' = ctx
        /\ UNCHANGED <<pc, wk, txBuf, rx, sent, served, replies>>
    <3>1. TxShift(p)
      BY DEF p
    <3>2. QED
      BY <1>1, <3>1 DEF TxShift, history
  <2>2. DOMAIN line = Chip /\ DOMAIN txq = Chip /\ DOMAIN ctx = Chip
    BY <1>1 DEF TypeOK
  <2>3. QED
    BY <1>1, <2>1, <2>2
<1>5. ctx'[p].wkReq = ctx[p].wkReq
  BY <1>1, <1>4, RequestPending
<1>6. /\ Final(line'[h], n) /\ Final(txq'[p], n)
      /\ txq'[p] # <<>> => NoCrc(line'[h])
      /\ ~NoCrc(line'[h]) \/ ~NoCrc(txq'[p]) => Executed(h)
  <2>1. /\ Final(Append(l, Head(q)), n) /\ Final(Tail(q), n)
        /\ NoCrc(Append(l, Head(q))) \/ (Tail(q) = <<>> /\ ~NoCrc(q))
        /\ NoCrc(q) => NoCrc(Tail(q))
    BY <1>1, <1>2, ShiftFinal
  <2> HIDE DEF q, l, n
  <2>2. QED
    BY <1>2, <1>4, <2>1
<1> HIDE DEF q, l
<1>7. Executed(h)' = Executed(h) /\ Concluded(h)' = Concluded(h) /\ RpcStep(h)
  BY <1>4, SameCalls
<1>8. Free(h)' /\ NoneComing(h)'
  BY <1>3, <1>4, <1>5 DEF Free, NoneComing, p
<1>9. HostTask(h)'
  BY <1>4 DEF Calls, CallInv, HostTask
<1>10. Outward(h)'
  BY <1>4, <1>7, <1>8 DEF Calls, CallInv, Outward, Free, p
<1>11. Homeward(h)'
  BY <1>3, <1>4, <1>6, <1>7 DEF Homeward, Waiting, p
<1>12. Turns(h)'
  BY <1>3, <1>4, <1>7 DEF Calls, CallInv, Turns, p
<1>13. QED
  BY <1>7, <1>9, <1>10, <1>11, <1>12 DEF CallInv

\* The transmission of the response is aborted.
LEMMA CallServerAborts ==
  ASSUME NEW h, Calls(h), TxAbort(Peer[h])
  PROVE  CallInv(h)' /\ RpcStep(h)
<1> DEFINE p == Peer[h]
<1>1. h \in Chip /\ p \in Chip /\ p # h /\ TypeOK /\ ctx[p] \in Context
  BY CallFacts
<1> HIDE DEF p
<1>2. TxAbort(p)
  BY DEF p
<1>3. /\ txq'[p] = <<>> /\ txq'[h] = txq[h]
      /\ ctx'[h] = ctx[h] /\ ctx'[p] = on_cmd_send_error(ctx[p])
      /\ UNCHANGED <<pc, wk, txBuf, line, rx, sent, served, replies>>
  BY <1>1, <1>2 DEF TxAbort, TypeOK, history
<1>4. ctx'[p].wkReq = ctx[p].wkReq
  BY <1>1, <1>3, RequestPending
<1>5. Executed(h)' = Executed(h) /\ Concluded(h)' = Concluded(h) /\ RpcStep(h)
  BY <1>3, SameCalls
<1>6. (Silent(h) => Silent(h)') /\ Free(h)' = Free(h) /\ NoneComing(h)' = NoneComing(h)
  BY <1>3, <1>4 DEF Silent, Free, NoneComing, p
<1>7. HostTask(h)'
  BY <1>3 DEF Calls, CallInv, HostTask
<1>8. Outward(h)'
  BY <1>3, <1>4, <1>5, <1>6 DEF Calls, CallInv, Outward, p
<1>9. Homeward(h)'
  BY <1>3, <1>5, EmptyFinal DEF Calls, CallInv, Homeward, p
<1>10. Turns(h)'
  BY <1>3, <1>5, <1>6 DEF Calls, CallInv, Turns, p
<1>11. QED
  BY <1>5, <1>7, <1>8, <1>9, <1>10 DEF CallInv

\* Units reach the server; the last one makes the request whole.
LEMMA CallServerRx ==
  ASSUME NEW h, Calls(h), Serves(Peer[h])', NEW m \in 1..Len(line[Peer[h]]), RxReady(Peer[h], m)
  PROVE  CallInv(h)' /\ RpcStep(h)
<1> DEFINE p == Peer[h]
           n == sent[h]
           l == line[p]
           chunk == SubSeq(l, 1, m)
           rest == SubSeq(l, m + 1, Len(l))
           old == IF rx[p].started THEN rx[p].buf ELSE <<>>
           stored == IF rx[p].started THEN rx[p].buf \o chunk ELSE chunk
           x == ctx[p]
           y == IF rx[p].started THEN x ELSE on_cmd_receive_start(x)
<1>1. /\ h \in Chip /\ p \in Chip /\ p # h /\ Peer[p] = h /\ TypeOK /\ l \in Seq(Unit)
      /\ Len(l) \in Nat /\ rx[p].buf \in Seq(Unit) /\ Serves(p)
      /\ x \in Context /\ Consistent(x) /\ wk[p] \in {"none", "req", "respond", "rsp"}
  BY CallFacts, OfChip
<1>2. m \in 1..Len(l) /\ RxReady(p, m) /\ Serves(p)'
  OBVIOUS
<1> HIDE DEF p
<1>3. Final(l, n)
  BY DEF Calls, CallInv, Outward, p
<1>4. Final(rest, n) /\ (NoCrc(l) => NoCrc(rest))
  <2>1. m + 1 \in 1..(Len(l) + 1) /\ l \in Seq(Unit)
    BY <1>1, <1>2
  <2> HIDE DEF l, n
  <2>2. QED
    BY <1>3, <2>1, RestFinal
<1>5. /\ line'[p] = rest /\ line'[h] = line[h]
      /\ UNCHANGED <<pc, wk, txBuf, txq, sent, served, replies>>
  <2>1. /\ line' = [line EXCEPT ![p] = SubSeq(@, m + 1, Len(@))]
        /\ UNCHANGED <<pc, wk, txBuf, txq, sent, served, replies>>
    BY <1>2 DEF RxReady, link, history
  <2>2. line \in [Chip -> Seq(Unit)]
    BY <1>1 DEF TypeOK
  <2>3. QED
    BY <1>1, <2>1, <2>2
<1>6. Executed(h)' = Executed(h) /\ Concluded(h)' = Concluded(h) /\ RpcStep(h)
  BY <1>5, SameCalls
<1>7. ctx'[h] = ctx[h] /\ rx'[h] = rx[h]
  <2>1. CASE ~Accepts(x)
    BY <1>2, <2>1 DEF RxReady
  <2>2. CASE Accepts(x)
    BY <1>1, <1>2, <2>2 DEF RxReady, Collect, TypeOK
  <2>3. QED
    BY <2>1, <2>2
<1>8. \/ ctx'[p].wkReq = x.wkReq /\ rx'[p] = rx[p]
      \/ wk[p] = "none" /\ ~x.wkReq /\ rx'[p].buf = stored
  <2>1. CASE ~Accepts(x)
    BY <1>2, <2>1 DEF RxReady
  <2>2. CASE Accepts(x)
    <3>1. wk[p] = "none" /\ ~x.wkReq
      BY <1>1, <2>2 DEF Accepts, Consistent, Serves, OneTask
    <3> HIDE DEF stored, chunk, x, y, l
    <3>2. PICK len : Collect(p, y, stored, len)
      BY <1>2, <2>2 DEF RxReady, stored, chunk, x, y, l
    <3>3. rx'[p].buf = stored
      BY <1>1, <3>2 DEF Collect, TypeOK
    <3>4. QED
      BY <3>1, <3>3
  <2>3. QED
    BY <2>1, <2>2
<1>9. Silent(h)' = Silent(h)
  BY <1>5 DEF Silent
<1>10. HostTask(h)' /\ Homeward(h)'
  BY <1>5, <1>6, <1>7 DEF Calls, CallInv, HostTask, Homeward, p
<1>11. CASE ctx'[p].wkReq = x.wkReq /\ rx'[p] = rx[p]
  <2>1. Free(h)' = Free(h) /\ (NoneComing(h) => NoneComing(h)')
    BY <1>4, <1>5, <1>11 DEF Free, NoneComing, p
  <2>2. Outward(h)'
    BY <1>4, <1>5, <1>6, <1>9, <1>11, <2>1 DEF Calls, CallInv, Outward, p
  <2>3. Turns(h)'
    BY <1>5, <1>6, <1>7, <1>9, <2>1 DEF Calls, CallInv, Turns, p
  <2>4. QED
    BY <1>6, <1>10, <2>2, <2>3 DEF CallInv
<1>12. CASE wk[p] = "none" /\ ~x.wkReq /\ rx'[p].buf = stored
  <2>1. CASE ~ctx'[p].wkReq
    <3>1. Free(h)' = Free(h) /\ (NoneComing(h) => NoneComing(h)')
      BY <1>4, <1>5, <1>12, <2>1 DEF Free, NoneComing, p
    <3>2. Outward(h)'
      BY <1>4, <1>5, <1>6, <1>9, <1>12, <2>1, <3>1 DEF Calls, CallInv, Outward, p
    <3>3. Turns(h)'
      BY <1>5, <1>6, <1>7, <1>9, <3>1 DEF Calls, CallInv, Turns, p
    <3>4. QED
      BY <1>6, <1>10, <3>2, <3>3 DEF CallInv
  <2>2. CASE ctx'[p].wkReq
    <3>1. Intact(stored)
      BY <1>2, <1>12, <2>2 DEF Serves, InOrderOnce
    <3>2. ~NoCrc(l) /\ Whole(stored, n) /\ rest = <<>>
      <4>1. old \in Seq(Unit) /\ chunk \in Seq(Unit)
        BY <1>1, <1>2, SubSeqProperties
      <4> HIDE DEF chunk
      <4>2. <<>> \o chunk = chunk
        BY <4>1
      <4>3. stored = old \o chunk
        BY <4>2
      <4>4. stored \in Seq(Unit)
        BY <4>1, <4>3, ConcatProperties
      <4> HIDE DEF old, stored
      <4>5. stored = old \o SubSeq(l, 1, m)
        BY <4>3 DEF chunk
      <4> HIDE DEF l, n, rest
      <4>6. ~NoCrc(l) /\ Whole(stored, n) /\ SubSeq(l, m + 1, Len(l)) = <<>>
        <5>1. l \in Seq(Unit) /\ m \in 1..Len(l)
          BY <1>1, <1>2 DEF l
        <5>2. QED
          BY <1>3, <3>1, <4>1, <4>4, <4>5, <5>1, CompleteFinal
      <4>7. QED
        BY <4>6 DEF rest
    <3>3. ~NoneComing(h) /\ Silent(h) /\ ~Executed(h)
      BY <3>2 DEF NoneComing, Calls, CallInv, Outward, p
    <3>4. ctx[h].state \in Waiting /\ NoneComing(h)'
      <4>1. NoCrc(rest)
        BY <3>2, EmptyFinal
      <4>2. QED
        BY <1>5, <3>3, <4>1 DEF Calls, CallInv, Turns, NoneComing, p
    <3> HIDE DEF stored, rest
    <3>5. Outward(h)'
      BY <1>4, <1>5, <1>6, <1>9, <1>12, <3>2, <3>3, <3>4 DEF Calls, CallInv, Outward, p
    <3>6. Turns(h)'
      BY <1>5, <1>6, <1>7, <3>4 DEF Calls, CallInv, Turns, p
    <3>7. QED
      BY <1>6, <1>10, <3>5, <3>6 DEF CallInv
  <2>3. QED
    BY <2>1, <2>2
<1>13. QED
  BY <1>8, <1>11, <1>12

\* wk_proc_req_handler executes the request, which is the last one.
LEMMA CallExecutes ==
  ASSUME NEW h, Calls(h), WkReqRun(Peer[h])
  PROVE  CallInv(h)' /\ RpcStep(h)
<1> DEFINE p == Peer[h]
           n == sent[h]
           buf == rx[p].buf
<1>1. /\ h \in Chip /\ p \in Chip /\ p # h /\ TypeOK /\ ctx[p] \in Context
      /\ buf \in Seq(Unit) /\ n \in Nat /\ served[p] \in Seq(Nat)
  BY CallFacts, OfChip
<1> HIDE DEF p
<1>2. WkReqRun(p)
  BY DEF p
<1>3. /\ ctx[p].wkReq /\ Silent(h) /\ ~Executed(h) /\ Whole(buf, n) /\ NoneComing(h)
      /\ ctx[h].state \in Waiting /\ txq[h] = <<>> /\ sent[h] > 0 /\ ~Concluded(h)
  BY <1>2 DEF WkReqRun, Calls, CallInv, HostTask, Outward, Turns, Free, Waiting, p
<1>4. PICK f \in buff_to_cmd(buf) :
        served' = IF cmd_cb_get(f.op) THEN [served EXCEPT ![p] = Append(@, f.id)] ELSE served
  BY <1>2 DEF WkReqRun
<1>5. f.op \in Op /\ f.id = n
  BY <1>1, <1>3, <1>4, ReadWhole
<1>6. /\ served'[p] = Append(served[p], n)
      /\ ctx'[p] = [ctx[p] EXCEPT !.wkReq = FALSE] /\ ctx'[h] = ctx[h]
      /\ wk'[p] = "req" /\ wk'[h] = wk[h]
      /\ UNCHANGED <<pc, txBuf, txq, line, rx, sent, replies>>
  <2>1. served' = [served EXCEPT ![p] = Append(@, n)]
    BY <1>4, <1>5 DEF cmd_cb_get
  <2>2. served'[p] = Append(served[p], n)
    BY <1>1, <2>1 DEF TypeOK
  <2>3. /\ ctx'[p] = [ctx[p] EXCEPT !.wkReq = FALSE] /\ ctx'[h] = ctx[h]
        /\ wk'[p] = "req" /\ wk'[h] = wk[h]
    <3>1. ctx' = [ctx EXCEPT ![p].wkReq = FALSE] /\ wk' = [wk EXCEPT ![p] = "req"]
      BY <1>2 DEF WkReqRun
    <3>2. QED
      BY <1>1, <3>1 DEF TypeOK
  <2>4. UNCHANGED <<pc, txBuf, txq, line, rx, sent, replies>>
    BY <1>2 DEF WkReqRun, link
  <2>5. QED
    BY <2>2, <2>3, <2>4
<1>7. ~ctx'[p].wkReq
  BY <1>1, <1>6 DEF Context
<1>8. /\ Executed(h)'
      /\ \A k \in DOMAIN served'[p] : served'[p][k] <= n
  <2>1. \A k \in DOMAIN served[p] : served[p][k] <= n
    BY DEF Calls, CallInv, Turns, p
  <2>2. Len(served[p]) + 1 \in DOMAIN Append(served[p], n)
        /\ Append(served[p], n)[Len(served[p]) + 1] = n
    BY <1>1
  <2>3. \A k \in DOMAIN Append(served[p], n) :
          (k \in DOMAIN served[p] /\ Append(served[p], n)[k] = served[p][k])
          \/ Append(served[p], n)[k] = n
    BY <1>1
  <2>4. Executed(h)'
    BY <1>6, <2>2 DEF Executed, p
  <2>5. QED
    BY <1>1, <1>6, <2>1, <2>3, <2>4
<1> HIDE DEF n, buf
<1>9. Concluded(h)' = Concluded(h) /\ Silent(h)' /\ NoneComing(h)'
  BY <1>3, <1>6 DEF Concluded, Silent, NoneComing, p
<1>10. HostTask(h)'
  BY <1>6 DEF Calls, CallInv, HostTask
<1>11. Outward(h)'
  BY <1>3, <1>6, <1>7, <1>8, <1>9 DEF Calls, CallInv, Outward, p, n, buf
<1>12. Homeward(h)'
  BY <1>6, <1>8 DEF Calls, CallInv, Homeward, p
<1>13. Turns(h)'
  BY <1>3, <1>6, <1>8, <1>9 DEF Calls, CallInv, Turns, p, n
<1>14. RpcStep(h)
  BY <1>3, <1>6 DEF RpcStep, p, n
<1>15. QED
  BY <1>10, <1>11, <1>12, <1>13, <1>14 DEF CallInv

\* The callback answers.
LEMMA CallResponds ==
  ASSUME NEW h, Calls(h), RespondStart(Peer[h])
  PROVE  CallInv(h)' /\ RpcStep(h)
<1> DEFINE p == Peer[h]
           n == sent[h]
           y == [ctx[p] EXCEPT !.state = "rsp_sending"]
<1>1. /\ h \in Chip /\ p \in Chip /\ p # h /\ TypeOK /\ ctx[p] \in Context /\ Serves(p)
  BY CallFacts
<1> HIDE DEF p
<1>2. RespondStart(p)
  BY DEF p
<1>3. wk[p] = "req" /\ ctx[p].state = "req_received" /\ ~ctx[p].wkReq
      /\ ctx[p].mode = "slave"
  <2>1. wk[p] = "req" /\ ctx[p].state = "req_received" /\ ~ctx[p].wkReq
    BY <1>1, <1>2 DEF RespondStart, Serves, OneTask
  <2>2. Consistent(ctx[p])
    BY CallFacts DEF p
  <2>3. QED
    BY <2>1, <2>2 DEF Consistent
<1>4. on_cmd_send_start(ctx[p]) = y
  BY <1>1, <1>3 DEF on_cmd_send_start, state_set, state_handler, Context
<1>5. ctx' = [ctx EXCEPT ![p] = y] /\ wk' = [wk EXCEPT ![p] = "respond"]
  BY <1>2, <1>3, <1>4 DEF RespondStart
<1>6. ~y.wkReq
  BY <1>1, <1>3 DEF Context
<1> HIDE DEF y
<1>7. /\ ctx'[p] = y /\ ctx'[h] = ctx[h] /\ wk'[p] = "respond" /\ wk'[h] = wk[h]
      /\ UNCHANGED <<pc, txBuf, txq, line, rx, sent, served, replies>>
  BY <1>1, <1>2, <1>5 DEF RespondStart, TypeOK, link, history
<1>8. Executed(h)' = Executed(h) /\ Concluded(h)' = Concluded(h) /\ RpcStep(h)
  BY <1>7, SameCalls
<1>9. /\ Silent(h) /\ Whole(rx[p].buf, n) /\ Executed(h) /\ NoneComing(h)
      /\ ctx[h].state \in Waiting
  BY <1>3 DEF Calls, CallInv, Outward, Turns, Free, p
<1>10. Silent(h)' /\ NoneComing(h)'
  BY <1>7, <1>9 DEF Silent, NoneComing
<1>11. HostTask(h)' /\ Homeward(h)'
  BY <1>7, <1>8 DEF Calls, CallInv, HostTask, Homeward
<1>12. Outward(h)'
  BY <1>6, <1>7, <1>8, <1>9, <1>10 DEF Calls, CallInv, Outward, p
<1>13. Turns(h)'
  BY <1>7, <1>8, <1>9 DEF Calls, CallInv, Turns, p
<1>14. QED
  BY <1>8, <1>11, <1>12, <1>13 DEF CallInv

\* The response is handed to the UART.
LEMMA CallAnswers ==
  ASSUME NEW h, Calls(h), RespondSend(Peer[h])
  PROVE  CallInv(h)' /\ RpcStep(h)
<1> DEFINE p == Peer[h]
           n == sent[h]
           buf == rx[p].buf
<1>1. /\ h \in Chip /\ p \in Chip /\ p # h /\ TypeOK /\ Serves(p) /\ buf \in Seq(Unit)
  BY CallFacts, OfChip
<1> HIDE DEF p
<1>2. RespondSend(p)
  BY DEF p
<1>3. wk[p] = "respond" /\ txq[p] = <<>> /\ ~ctx[p].wkReq
  BY <1>1, <1>2 DEF RespondSend, Serves, OneTask
<1>4. /\ Silent(h) /\ Whole(buf, n) /\ Executed(h) /\ NoneComing(h)
      /\ ctx[h].state \in Waiting /\ wk[h] # "rsp"
  BY <1>3 DEF Calls, CallInv, HostTask, Outward, Turns, Free, Waiting, p
<1>5. PICK f \in buff_to_cmd(buf) : Transmit(p, [kind |-> "rsp", op |-> f.op, id |-> f.id])
  BY <1>2 DEF RespondSend
<1>6. f \in Frame /\ f.op \in Op /\ f.id = n
  BY <1>1, <1>4, <1>5, ReadWhole
<1> DEFINE g == [kind |-> "rsp", op |-> f.op, id |-> f.id]
<1>7. g \in Frame /\ g.op \in Op /\ g.id = n /\ Transmit(p, g)
  BY <1>5, <1>6 DEF Frame
<1> HIDE DEF g, n, buf
<1>8. txBuf' = [txBuf EXCEPT ![p] = g] /\ txq' = [txq EXCEPT ![p] = Units(g)]
  BY <1>3, <1>7 DEF Transmit, uart_send
<1>9. /\ txBuf'[h] = txBuf[h] /\ txq'[p] = Units(g) /\ txq'[h] = txq[h]
      /\ wk'[p] = "none" /\ wk'[h] = wk[h]
      /\ UNCHANGED <<ctx, pc, line, rx, sent, served, replies>>
  BY <1>1, <1>2, <1>8 DEF RespondSend, TypeOK, history
<1>10. Final(txq'[p], n)
  BY <1>7, <1>9, UnitsFinal
<1>11. Executed(h)' = Executed(h) /\ Concluded(h)' = Concluded(h) /\ RpcStep(h)
  BY <1>9, SameCalls
<1>12. NoneComing(h)' /\ Free(h)' /\ NoCrc(line[h]) /\ Final(line[h], n)
  BY <1>3, <1>4, <1>9, EmptyFinal DEF Silent, NoneComing, Free, p
<1>13. HostTask(h)'
  BY <1>9 DEF Calls, CallInv, HostTask
<1>14. Outward(h)'
  BY <1>9, <1>11, <1>12 DEF Calls, CallInv, Outward, Free, p
<1>15. Homeward(h)'
  BY <1>4, <1>9, <1>10, <1>11, <1>12 DEF Homeward, Waiting, p, n
<1>16. Turns(h)'
  BY <1>4, <1>9, <1>11 DEF Calls, CallInv, Turns, p
<1>17. QED
  BY <1>11, <1>13, <1>14, <1>15, <1>16 DEF CallInv

\* A unit for the server is lost or damaged.
LEMMA CallServerWire ==
  ASSUME NEW h, Calls(h), NEW k \in 1..Len(line[Peer[h]]),
         Lose(Peer[h], k) \/ Corrupt(Peer[h], k)
  PROVE  CallInv(h)' /\ RpcStep(h)
<1> DEFINE p == Peer[h]
           n == sent[h]
<1>1. h \in Chip /\ p \in Chip /\ p # h /\ TypeOK /\ line[p] \in Seq(Unit)
  BY CallFacts, OfChip
<1>2. k \in 1..Len(line[p]) /\ (Lose(p, k) \/ Corrupt(p, k))
  OBVIOUS
<1> HIDE DEF p
<1>3. /\ UNCHANGED <<ctx, pc, wk, txBuf, txq, rx, sent, served, replies>>
      /\ line'[h] = line[h] /\ line'[p] \in {DropAt(line[p], k), [line[p] EXCEPT ![k] = Junk]}
  BY <1>1, <1>2 DEF Lose, Corrupt, TypeOK, link, history
<1>4. Final(line'[p], n) /\ (NoCrc(line[p]) => NoCrc(line'[p]))
  <2>1. Final(line[p], n)
    BY DEF Calls, CallInv, Outward, p
  <2> HIDE DEF n
  <2>2. CASE line'[p] = DropAt(line[p], k)
    <3>1. /\ Final(line[p], n) => Final(DropAt(line[p], k), n)
          /\ NoCrc(line[p]) => NoCrc(DropAt(line[p], k))
      BY <1>1, <1>2, DropFinal
    <3>2. QED
      BY <2>1, <2>2, <3>1
  <2>3. CASE line'[p] = [line[p] EXCEPT ![k] = Junk]
    <3>1. /\ Final(line[p], n) => Final([line[p] EXCEPT ![k] = Junk], n)
          /\ NoCrc(line[p]) => NoCrc([line[p] EXCEPT ![k] = Junk])
      BY <1>1, <1>2, JunkFinal
    <3>2. QED
      BY <2>1, <2>3, <3>1
  <2>4. QED
    BY <1>3, <2>2, <2>3
<1>5. Executed(h)' = Executed(h) /\ Concluded(h)' = Concluded(h) /\ RpcStep(h)
  BY <1>3, SameCalls
<1>6. Silent(h)' = Silent(h) /\ Free(h)' = Free(h) /\ (NoneComing(h) => NoneComing(h)')
  BY <1>3, <1>4 DEF Silent, Free, NoneComing, p
<1>7. HostTask(h)' /\ Homeward(h)'
  BY <1>3, <1>5 DEF Calls, CallInv, HostTask, Homeward, p
<1>8. Outward(h)'
  BY <1>3, <1>4, <1>5, <1>6 DEF Calls, CallInv, Outward, p
<1>9. Turns(h)'
  BY <1>3, <1>5, <1>6 DEF Calls, CallInv, Turns, p
<1>10. QED
  BY <1>5, <1>7, <1>8, <1>9 DEF CallInv

-----------------------------------------------------------------------------
(* Every step, and the refinement *)

\* A step of the host.
LEMMA HostSteps ==
  ASSUME NEW h, Calls(h),
         \/ Request(h) \/ Transmission(h) \/ Reception(h)
         \/ Timeout(h) \/ WorkQueue(h) \/ Wire(h)
  PROVE  CallInv(h)' /\ RpcStep(h)
<1>1. CASE Request(h)
  BY <1>1, CallReqCheck, CallReqStart, CallReqSend DEF Request
<1>2. CASE Transmission(h)
  BY <1>2, CallHostShifts, CallHostAborts DEF Transmission
<1>3. CASE Reception(h)
  BY <1>3, CallHostRx DEF Reception
<1>4. CASE Timeout(h)
  BY <1>4, CallTimesOut
<1>5. CASE WorkQueue(h)
  <2>1. ~WkReqRun(h) /\ ~RespondStart(h) /\ ~RespondSend(h)
    BY CallFacts DEF WkReqRun, RespondStart, RespondSend
  <2>2. QED
    BY <1>5, <2>1, CallRspRun, CallRspRead DEF WorkQueue
<1>6. CASE Wire(h)
  BY <1>6, CallHostWire DEF Wire
<1>7. QED
  BY <1>1, <1>2, <1>3, <1>4, <1>5, <1>6

\* A step of the server, which makes no request.
LEMMA ServerSteps ==
  ASSUME NEW h, Calls(h), Serves(Peer[h])',
         \/ Request(Peer[h]) \/ Transmission(Peer[h]) \/ Reception(Peer[h])
         \/ Timeout(Peer[h]) \/ WorkQueue(Peer[h]) \/ Wire(Peer[h])
  PROVE  CallInv(h)' /\ RpcStep(h)
<1> DEFINE p == Peer[h]
<1>1. p # h /\ Serves(p) /\ OnlyServes(p) /\ Host = {h}
  BY CallFacts DEF Calls
<1>2. ~Request(p)
  BY <1>1 DEF Request, ReqCheck, ReqStart, ReqSend, OnlyServes
<1>3. CASE Transmission(p)
  BY <1>3, CallServerShifts, CallServerAborts DEF Transmission
<1>4. CASE Reception(p)
  BY <1>4, CallServerRx DEF Reception
<1>5. ~Timeout(p) /\ ~WkRspRun(p) /\ ~WkRspRead(p)
  BY <1>1 DEF Timeout, WkRspRun, WkRspRead, Serves, OneTask
<1>6. CASE WorkQueue(p)
  BY <1>5, <1>6, CallExecutes, CallResponds, CallAnswers DEF WorkQueue
<1>7. CASE Wire(p)
  BY <1>7, CallServerWire DEF Wire
<1>8. QED
  BY <1>2, <1>3, <1>4, <1>5, <1>6, <1>7

\* The server never becomes a host.
LEMMA ServerStays ==
  ASSUME NEW h, Calls(h), [Next]_vars
  PROVE  OnlyServes(Peer[h])'
<1> DEFINE p == Peer[h]
<1>1. /\ h \in Chip /\ p \in Chip /\ p # h /\ Peer[p] = h /\ TypeOK /\ OnlyServes(p) /\ Host = {h}
  BY CallFacts DEF Calls
<1> HIDE DEF p
<1>2. CASE UNCHANGED vars
  BY <1>1, <1>2 DEF vars, history, OnlyServes
<1>3. ASSUME NEW d \in Chip, Request(d) PROVE OnlyServes(p)'
  <2>1. PICK t \in Thread : ReqCheck(d, t) \/ ReqStart(d, t) \/ ReqSend(d, t)
    BY <1>3 DEF Request
  <2>2. d # p
    BY <1>1, <2>1 DEF ReqCheck, ReqStart, ReqSend, OnlyServes
  <2>3. pc'[p] = pc[p] /\ sent'[p] = sent[p]
    <3>1. CASE ReqCheck(d, t)
      BY <1>1, <2>2, <3>1 DEF ReqCheck, TypeOK, history
    <3>2. CASE ReqStart(d, t)
      BY <1>1, <2>2, <3>2 DEF ReqStart, TypeOK, history
    <3>3. CASE ReqSend(d, t)
      BY <1>1, <2>2, <3>3 DEF ReqSend, TypeOK
    <3>4. QED
      BY <2>1, <3>1, <3>2, <3>3
  <2>4. QED
    BY <1>1, <2>3 DEF OnlyServes
<1>4. ASSUME NEW d \in Chip,
             Transmission(d) \/ Reception(d) \/ Timeout(d) \/ WorkQueue(d) \/ Wire(d)
      PROVE  UNCHANGED <<pc, sent>>
  BY <1>4 DEF Transmission, TxShift, TxAbort, Reception, RxReady, Timeout, WorkQueue,
     WkReqRun, RespondStart, RespondSend, WkRspRun, WkRspRead, Wire, Lose, Corrupt, history
<1>5. QED
  <2>1. UNCHANGED <<pc, sent>> => OnlyServes(p)'
    BY <1>1 DEF OnlyServes
  <2>2. QED
    BY <1>2, <1>3, <1>4, <2>1 DEF Next, p

LEMMA CallsGoOn ==
  ASSUME NEW h, Calls(h), [Next]_vars
  PROVE  Calls(h)' /\ RpcStep(h)
<1> DEFINE p == Peer[h]
<1>1. /\ h \in Chip /\ p \in Chip /\ p # h /\ Peer[p] = h /\ TypeOK
  BY CallFacts
<1>2. SInv' /\ OnlyServes(p)' /\ Serves(p)'
  <2>1. SInv' /\ OnlyServes(p)'
    BY ServesOn, ServerStays DEF Calls
  <2>2. QED
    BY <1>1, <2>1 DEF SInv
<1>3. CallInv(h)' /\ RpcStep(h)
  <2>1. CASE UNCHANGED vars
    <3>1. UNCHANGED CallView(h)
      BY <2>1 DEF vars, link, history, CallView
    <3>2. QED
      BY <3>1, CallUnseen
  <2>2. ASSUME NEW d \in Chip,
               \/ Request(d) \/ Transmission(d) \/ Reception(d)
               \/ Timeout(d) \/ WorkQueue(d) \/ Wire(d)
        PROVE  CallInv(h)' /\ RpcStep(h)
    <3>1. CASE d = h
      BY <2>2, <3>1, HostSteps
    <3>2. CASE d = p
      BY <1>2, <2>2, <3>2, ServerSteps
    <3>3. CASE d # h /\ d # p
      <4>1. Peer[d] # h /\ Peer[d] # p
        BY <1>1, <2>2, <3>3
      <4>2. UNCHANGED CallView(h)
        BY <1>1, <2>2, <3>3, <4>1, OthersStay DEF CallView
      <4>3. QED
        BY <4>2, CallUnseen
    <3>4. QED
      BY <3>1, <3>2, <3>3
  <2>3. QED
    BY <2>1, <2>2 DEF Next
<1>4. QED
  BY <1>2, <1>3 DEF Calls, OneHost

\* The conclusions as Rpc.tla has them.
RpcResult(r) == [id |-> r.id, how |-> IF r.how = "rsp" THEN r.kind ELSE r.how]
RpcResults(s) == [k \in DOMAIN s |-> RpcResult(s[k])]

LEMMA ResultsGrow ==
  ASSUME NEW s \in Seq(Conclusion), NEW r \in Conclusion
  PROVE  RpcResults(Append(s, r)) = Append(RpcResults(s), RpcResult(r))
<1> DEFINE R == {RpcResult(c) : c \in Conclusion}
           a == RpcResults(Append(s, r))
           b == Append(RpcResults(s), RpcResult(r))
<1>1. /\ Len(s) \in Nat /\ DOMAIN s = 1..Len(s) /\ DOMAIN Append(s, r) = 1..(Len(s) + 1)
      /\ \A k \in 1..Len(s) : Append(s, r)[k] = s[k] /\ s[k] \in Conclusion
      /\ Append(s, r)[Len(s) + 1] = r
  OBVIOUS
<1>2. RpcResult(r) \in R /\ \A k \in 1..Len(s) : RpcResult(s[k]) \in R
  BY <1>1
<1> HIDE DEF R
<1>3. /\ RpcResults(s) \in Seq(R) /\ Len(RpcResults(s)) = Len(s)
      /\ \A k \in 1..Len(s) : RpcResults(s)[k] = RpcResult(s[k])
  BY <1>1, <1>2 DEF RpcResults
<1>4. /\ b \in Seq(R) /\ Len(b) = Len(s) + 1 /\ b[Len(s) + 1] = RpcResult(r)
      /\ \A k \in 1..Len(s) : b[k] = RpcResult(s[k])
  BY <1>1, <1>2, <1>3, AppendProperties
<1>5. /\ DOMAIN a = 1..(Len(s) + 1) /\ a[Len(s) + 1] = RpcResult(r)
      /\ \A k \in 1..Len(s) : a[k] = RpcResult(s[k])
  BY <1>1 DEF RpcResults
<1>6. a = [k \in 1..(Len(s) + 1) |-> RpcResult(Append(s, r)[k])]
  BY <1>1 DEF RpcResults
<1>7. \A k \in 1..(Len(s) + 1) : RpcResult(Append(s, r)[k]) \in R
  <2>1. \A k \in 1..(Len(s) + 1) : k \in 1..Len(s) \/ k = Len(s) + 1
    BY <1>1
  <2>2. QED
    BY <1>1, <1>2, <2>1
<1>8. a \in Seq(R) /\ Len(a) = Len(s) + 1
  BY <1>1, <1>6, <1>7
<1> HIDE DEF a, b
<1>9. \A k \in 1..(Len(s) + 1) : a[k] = b[k]
  BY <1>1, <1>4, <1>5
<1>10. a = b
  BY <1>4, <1>8, <1>9, SeqEqual
<1>11. QED
  BY <1>10 DEF a, b

\* The numbers of the conclusions.
LEMMA ResultIds ==
  ASSUME NEW s \in Seq(Conclusion)
  PROVE  /\ Len(RpcResults(s)) = Len(s) /\ DOMAIN s = 1..Len(s)
         /\ \A k \in 1..Len(s) : RpcResults(s)[k].id = s[k].id
<1>1. Len(s) \in Nat /\ DOMAIN s = 1..Len(s)
  OBVIOUS
<1>2. RpcResults(s) = [k \in 1..Len(s) |-> RpcResult(s[k])]
  BY <1>1 DEF RpcResults
<1>3. Len(RpcResults(s)) = Len(s)
  BY <1>1, <1>2
<1>4. \A k \in 1..Len(s) : RpcResults(s)[k] = RpcResult(s[k])
  BY <1>2
<1>5. \A k \in 1..Len(s) : RpcResult(s[k]).id = s[k].id
  BY DEF RpcResult
<1>6. QED
  BY <1>1, <1>3, <1>4, <1>5

\* The steps of the protocol are those of a remote procedure call, or none.
LEMMA StepsAsRpc ==
  ASSUME NEW h, Calls(h), h = TheHost, RpcStep(h)
  PROVE  [AsRpc!Next]_(AsRpc!vars)
<1> DEFINE p == Peer[h]
           n == sent[h]
<1>1. /\ h \in Chip /\ p \in Chip /\ n \in Nat /\ served[p] \in Seq(Nat)
      /\ replies[h] \in Seq(Conclusion)
  BY CallFacts DEF TypeOK
<1> HIDE DEF p
<1>2. /\ AsRpc!IsExecuted(n) <=> Executed(h)
      /\ AsRpc!IsConcluded(n) <=> Concluded(h)
  <2>1. AsRpc!IsExecuted(n) <=> Executed(h)
    <3>1. DOMAIN served[p] = 1..Len(served[p])
      BY <1>1
    <3>2. AsRpc!IsExecuted(n) <=> \E k \in 1..Len(served[p]) : served[p][k] = n
      BY DEF AsRpc!IsExecuted, p
    <3>3. Executed(h) <=> \E k \in DOMAIN served[p] : served[p][k] = n
      BY DEF Executed, p
    <3> HIDE DEF n
    <3>4. QED
      BY <3>1, <3>2, <3>3
  <2>2. AsRpc!IsConcluded(n) <=> \E k \in 1..Len(RpcResults(replies[h])) :
                                   RpcResults(replies[h])[k].id = n
    BY DEF AsRpc!IsConcluded, RpcResults, RpcResult
  <2>3. QED
    BY <1>1, <2>1, <2>2, ResultIds DEF Concluded
<1>3. CASE UNCHANGED <<sent[h], served[p], replies[h]>>
  BY <1>3 DEF AsRpc!vars, p
<1>4. CASE sent'[h] = n + 1 /\ UNCHANGED <<served[p], replies[h]>>
  <2>1. AsRpc!Call
    BY <1>4 DEF AsRpc!Call, p
  <2>2. QED
    BY <2>1 DEF AsRpc!Next
<1>5. CASE /\ n > 0 /\ ~Executed(h) /\ ~Concluded(h)
           /\ served'[p] = Append(served[p], n) /\ UNCHANGED <<sent[h], replies[h]>>
  <2>1. AsRpc!Execute
    BY <1>2, <1>5 DEF AsRpc!Execute, p
  <2>2. QED
    BY <2>1 DEF AsRpc!Next
<1>6. ASSUME n > 0, ~Concluded(h), UNCHANGED <<sent[h], served[p]>>,
             NEW r \in Conclusion, r.id = n,
             r.how = "timeout" \/ (r.how = "rsp" /\ r.kind = "rsp" /\ Executed(h)),
             replies'[h] = Append(replies[h], r)
      PROVE  [AsRpc!Next]_(AsRpc!vars)
  <2>1. RpcResults(replies'[h]) = Append(RpcResults(replies[h]), RpcResult(r))
    BY <1>1, <1>6, ResultsGrow
  <2>2. CASE r.how = "timeout"
    <3>1. RpcResult(r) = [id |-> n, how |-> "timeout"]
      BY <1>6, <2>2 DEF RpcResult
    <3>2. AsRpc!Conclude("timeout")
      BY <1>2, <1>6, <2>1, <3>1 DEF AsRpc!Conclude, RpcResults, RpcResult, p
    <3>3. QED
      BY <3>2 DEF AsRpc!Next, AsRpc!GiveUp
  <2>3. CASE r.how = "rsp" /\ r.kind = "rsp" /\ Executed(h)
    <3>1. RpcResult(r) = [id |-> n, how |-> "rsp"]
      BY <1>6, <2>3 DEF RpcResult
    <3>2. AsRpc!Conclude("rsp")
      BY <1>2, <1>6, <2>1, <3>1 DEF AsRpc!Conclude, RpcResults, RpcResult, p
    <3>3. QED
      BY <1>2, <2>3, <3>2 DEF AsRpc!Next, AsRpc!Answer
  <2>4. QED
    BY <1>6, <2>2, <2>3
<1>7. QED
  BY <1>3, <1>4, <1>5, <1>6 DEF RpcStep, p

LEMMA CallsAtFirst ==
  ASSUME OneHost, Init
  PROVE  Calls(TheHost) /\ AsRpc!Init
<1> DEFINE h == TheHost
           p == Peer[h]
<1>1. Host = {h} /\ h \in Chip /\ p \in Chip /\ p # h
  BY DEF OneHost, TheHost
<1> HIDE DEF h, p
<1>2. SInv
  BY ServesAtFirst
<1>3. OnlyServes(p)
  BY <1>1 DEF Init, OnlyServes
<1>4. /\ ctx[h].state = "idle" /\ ctx[h].mode = "idle" /\ ~ctx[h].timer /\ ~ctx[h].wkRsp
      /\ wk[h] = "none" /\ txq[h] = <<>> /\ line[h] = <<>> /\ sent[h] = 0
      /\ \A t \in Thread : pc[h][t] = "idle"
      /\ replies[h] = <<>> /\ txBuf[h].id = 0
      /\ ~ctx[p].wkReq /\ wk[p] = "none" /\ txq[p] = <<>> /\ line[p] = <<>> /\ served[p] = <<>>
  BY <1>1 DEF Init, Junk
<1>5. HostTask(h)
  BY <1>4 DEF HostTask
<1>6. Outward(h) /\ Homeward(h)
  BY <1>4, EmptyFinal DEF Outward, Homeward, NoneComing, p
<1>7. Turns(h)
  BY <1>4, EmptyFinal DEF Turns, Waiting, Silent, Free, NoneComing, p
<1>8. Calls(h)
  BY <1>1, <1>2, <1>3, <1>5, <1>6, <1>7 DEF Calls, CallInv, p
<1>9. AsRpc!Init
  BY <1>4 DEF AsRpc!Init, h, p
<1>10. QED
  BY <1>8, <1>9 DEF h

\* With one host that asks from one thread, whose timeout is longer than any answer
\* takes, app_cmd_request is a remote procedure call: the peer executes a command at
\* most once, only the last one and before it is concluded, and every call of the
\* response callback answers the command issued last, executed by then, or is its
\* timeout, and is the only one.  Units may be lost and damaged and transmissions
\* aborted in any number.
THEOREM RpcImplemented == OneHost => (Spec => ImplementsRpc)
<1>1. OneHost /\ Init => Calls(TheHost) /\ AsRpc!Init
  BY CallsAtFirst
<1>2. Calls(TheHost) /\ [Next]_vars => Calls(TheHost)' /\ [AsRpc!Next]_(AsRpc!vars)
  BY CallsGoOn, StepsAsRpc
<1>3. QED
  BY <1>1, <1>2, PTL DEF Spec, ImplementsRpc, AsRpc!Spec
=============================================================================
