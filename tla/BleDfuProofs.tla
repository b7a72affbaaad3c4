---------------------------- MODULE BleDfuProofs ----------------------------
(***************************************************************************)
(* Proofs about BleDfu.tla, for all sizes of packets, blocks, images and   *)
(* slots, any number of starts of BDUNK and of faults, as long as nothing  *)
(* of an earlier transfer is left over when another begins (Timely).       *)
(*                                                                         *)
(* No two sides agree about anything explicitly: each answers what it has  *)
(* just got.  The proof follows the turn, which only one of them has, and  *)
(* what its holder may rely on.                                            *)
(***************************************************************************)
EXTENDS BleDfu, SequenceTheorems, TLAPS

-----------------------------------------------------------------------------
(* The inductive invariant *)

\* No connection and no request of the ichip while something of an earlier
\* transfer is left over, and no empty packet is taken for another.
Timely == ~Untimely /\ "stale" \notin Fault

BdunkFields ==
  {"status", "id", "what", "size52", "size91", "loads", "file", "op", "idx", "rec",
   "updating", "auto"}

IsBdunk(d) ==
  DOMAIN d = BdunkFields /\ d.what \in What /\ d.file \in Chip \cup {"none"} /\ d.idx \in Nat

ChipFields ==
  {"bufLen", "off", "size", "type", "at", "len", "buf", "avail52", "avail91"}

RequestOp == {"devinf", "erase", "write", "done"}

CallTyped ==
  call # None => DOMAIN call = {"op", "at", "bytes", "answer"} /\ call.op \in RequestOp

Queue(q) == q \in Seq(ToSet(q))

\* The types of what decides how a transfer goes on; the bytes do not.
Typed ==
  /\ IsBdunk(c)
  /\ DOMAIN b = ChipFields
  /\ b.bufLen \in Nat /\ b.off \in Nat /\ b.size \in Nat
  /\ Queue(toC) /\ Queue(toB)
  /\ Queue(wq) /\ IsInjective(wq)
  /\ CallTyped

\* Only a running BDUNK has a link, and a link that is down carries nothing.
Linked ==
  /\ conn \in BOOLEAN
  /\ conn => c.status = "on"
  /\ ~conn => toC = <<>> /\ toB = <<>>

\* What BDUNK knows between two notifications.
HasSizes(d) ==
  d.status # "off" =>
    /\ d.what \in {"52", "both"} \/ d.file = "52" => d.size52 \in Sizes
    /\ d.what \in {"91", "both"} \/ d.file = "91" => d.size91 \in Sizes

Expects(d) ==
  d.status = "on" =>
    /\ d.op \in {"start", "info", "self"} \cup (ToCentral \ {"selfstart"})
    /\ d.op = "get" => d.idx > 0
    /\ d.op \in {"info", "self"} => d.file # "none"
    /\ d.op = "success" => ~d.auto

Knows == HasSizes(c) /\ Expects(c) /\ NoTrap

Has(work) == work \in ToSet(wq)

\* A response that is to be processed belongs to a request.
Pending == Has("rsp") => call # None /\ call.answer # "none"

\* What has been collected is made of whole packets.
WholePackets == b.bufLen % Packet = 0 /\ b.bufLen < Block

\* At most one message of a queue is more than noise.
Lone(q, noise) == \A i, j \in DOMAIN q : q[i].op # noise /\ q[j].op # noise => i = j

\* Whose turn it is: BDUNK's, that of the Bluetooth thread, of the work queue (in
\* three ways) or of the ichip.
MacsTurn == \E p \in ToSet(toC) : p.op # "cut"
PacketsTurn == \E p \in ToSet(toB) : p.op # "empty"
Asking == phase = "asking"
Calling == call # None /\ call.op # "done"

Only(place) ==
  /\ MacsTurn => place = "mac"
  /\ PacketsTurn => place = "packet"
  /\ Asking => place = "asking"
  /\ Has("info") => place = "info"
  /\ Has("update") => place = "update"
  /\ Calling => place = "call"

Place == {"mac", "packet", "asking", "info", "update", "call"}

OneTurn ==
  /\ Lone(toC, "cut") /\ Lone(toB, "empty")
  /\ \E place \in Place : Only(place)

\* BDUNK and the bchip agree about the next byte, whoever's turn it is.
Pos == b.off + b.bufLen
Matched == c.file # "none" /\ b.size = FileSize(c)
AtStart == c.idx = 0 /\ b.off = 0 /\ b.bufLen = 0
Abreast == Matched /\ c.idx = Pos /\ Pos < b.size
BlockHanded ==
  /\ Matched /\ b.bufLen = 0 /\ b.off > 0 /\ b.off <= b.size
  /\ b.off < b.size => c.idx = b.off

NoticeOk(p) ==
  /\ p.op \in ToCentral
  /\ p.op = "get" => Abreast
  /\ p.op = "success" => b.off = 0 /\ b.bufLen = 0
  /\ p.op = "selfstart" => AtStart /\ c.file # "none"
  /\ p.op = "devinf" => AtStart

PacketOk(p) ==
  /\ p.op = "data" =>
       /\ Matched /\ Pos < b.size /\ c.idx = Pos + Packet
       /\ Len(p.bytes) = Smaller(Packet, b.size - Pos)
  /\ p.op = "info" => AtStart /\ c.file # "none" /\ p.size = FileSize(c)
  /\ p.op \in {"start", "done"} => AtStart
  /\ p.op = "self" => AtStart /\ c.file # "none"

WorkOk ==
  conn =>
    /\ Asking => Abreast
    /\ Has("info") => Matched /\ AtStart
    /\ Has("update") => BlockHanded
    /\ Calling =>
         /\ call.op = "devinf" => AtStart
         /\ call.op = "erase" => Matched /\ AtStart
         /\ call.op = "write" => BlockHanded

InStep ==
  /\ \A p \in ToSet(toC) : NoticeOk(p)
  /\ \A p \in ToSet(toB) : PacketOk(p)
  /\ WorkOk

Turn == OneTurn /\ InStep

Inv == Typed /\ Linked /\ Knows /\ Pending /\ WholePackets /\ Turn

-----------------------------------------------------------------------------
(* Queues *)

\* An element is appended.
LEMMA Added ==
  ASSUME NEW s, Queue(s), NEW x
  PROVE  /\ Queue(Append(s, x))
         /\ ToSet(Append(s, x)) = ToSet(s) \cup {x}
         /\ IsInjective(s) /\ x \notin ToSet(s) => IsInjective(Append(s, x))
         /\ \A noise : /\ Lone(s, noise)
                       /\ x.op = noise \/ \A p \in ToSet(s) : p.op = noise
                       => Lone(Append(s, x), noise)
<1> DEFINE T == ToSet(s) \cup {x}
           a == Append(s, x)
<1>1. s \in Seq(T)
  BY DEF Queue
<1>2. x \in T
  OBVIOUS
<1> HIDE DEF T
<1>3. /\ a \in Seq(T)
      /\ DOMAIN s = 1..Len(s) /\ DOMAIN a = 1..(Len(s) + 1)
      /\ \A i \in 1..Len(s) : a[i] = s[i]
      /\ a[Len(s) + 1] = x
      /\ Len(s) \in Nat
  BY <1>1, <1>2
<1> HIDE DEF a
<1>4. ToSet(a) = ToSet(s) \cup {x}
  BY <1>3 DEF ToSet
<1>5. Queue(a)
  BY <1>3, <1>4 DEF Queue, T
<1>6. IsInjective(s) /\ x \notin ToSet(s) => IsInjective(a)
  BY <1>3 DEF ToSet, IsInjective
<1>7. ASSUME NEW noise, Lone(s, noise), x.op = noise \/ \A p \in ToSet(s) : p.op = noise
      PROVE  Lone(a, noise)
  <2>1. \A i \in DOMAIN s : s[i] \in ToSet(s)
    BY DEF ToSet
  <2> SUFFICES ASSUME NEW i \in DOMAIN a, NEW j \in DOMAIN a, a[i].op # noise, a[j].op # noise
               PROVE  i = j
    BY DEF Lone
  <2>2. CASE i \in DOMAIN s /\ j \in DOMAIN s
    BY <1>3, <1>7, <2>2 DEF Lone
  <2>3. CASE i = Len(s) + 1 \/ j = Len(s) + 1
    BY <1>3, <1>7, <2>1, <2>3
  <2>4. QED
    BY <1>3, <2>2, <2>3
<1>8. QED
  BY <1>4, <1>5, <1>6, <1>7 DEF a

\* A sequence is one of its own elements.
LEMMA SeqOfItsOwn ==
  ASSUME NEW T, NEW s \in Seq(T)
  PROVE  s \in Seq(ToSet(s))
<1>1. Len(s) \in Nat /\ DOMAIN s = 1..Len(s) /\ s = [i \in 1..Len(s) |-> s[i]]
  OBVIOUS
<1>2. \A i \in 1..Len(s) : s[i] \in ToSet(s)
  BY <1>1 DEF ToSet
<1>3. s \in [1..Len(s) -> ToSet(s)]
  BY <1>1, <1>2
<1>4. Seq(ToSet(s)) = UNION {[1..n -> ToSet(s)] : n \in Nat}
  BY SeqDef
<1>5. QED
  BY <1>1, <1>3, <1>4

\* The first element is taken off.
LEMMA TakenOff ==
  ASSUME NEW s, Queue(s), s # <<>>
  PROVE  /\ Queue(Tail(s))
         /\ ToSet(Tail(s)) \subseteq ToSet(s) /\ Head(s) \in ToSet(s)
         /\ IsInjective(s) => /\ IsInjective(Tail(s))
                              /\ ToSet(Tail(s)) = ToSet(s) \ {Head(s)}
         /\ \A noise : Lone(s, noise) =>
              /\ Lone(Tail(s), noise)
              /\ Head(s).op # noise => \A p \in ToSet(Tail(s)) : p.op = noise
<1> DEFINE t == Tail(s)
           h == Head(s)
<1>1. /\ t \in Seq(ToSet(s))
      /\ Len(s) \in Nat \ {0}
      /\ DOMAIN s = 1..Len(s) /\ DOMAIN t = 1..(Len(s) - 1)
      /\ \A i \in 1..(Len(s) - 1) : t[i] = s[i + 1]
      /\ h = s[1]
  BY DEF Queue
<1>2. Len(t) = Len(s) - 1 /\ \A i \in 1..Len(t) : t[i] \in ToSet(t)
  BY <1>1 DEF ToSet
<1> HIDE DEF t, h
<1>3. h \in ToSet(s)
  BY <1>1 DEF ToSet
<1>4. ToSet(t) \subseteq ToSet(s)
  BY <1>1 DEF ToSet
<1>5. Queue(t)
  BY <1>1, <1>2, SeqOfItsOwn DEF Queue
<1>6. ASSUME IsInjective(s)
      PROVE  IsInjective(t) /\ ToSet(t) = ToSet(s) \ {h}
  <2>1. IsInjective(t)
    <3>1. \A i \in DOMAIN t : i + 1 \in DOMAIN s /\ t[i] = s[i + 1] /\ i \in Nat
      BY <1>1
    <3>2. QED
      BY <1>6, <3>1 DEF IsInjective
  <2>2. \A y \in ToSet(t) : y # h
    <3> SUFFICES ASSUME NEW i \in 1..(Len(s) - 1) PROVE t[i] # h
      BY <1>1 DEF ToSet
    <3>1. i + 1 \in DOMAIN s /\ 1 \in DOMAIN s /\ i + 1 # 1
      BY <1>1
    <3>2. QED
      BY <1>1, <1>6, <3>1 DEF IsInjective
  <2>3. \A y \in ToSet(s) : y # h => y \in ToSet(t)
    <3> SUFFICES ASSUME NEW i \in 1..Len(s), s[i] # h PROVE s[i] \in ToSet(t)
      BY <1>1 DEF ToSet
    <3>1. i # 1
      BY <1>1
    <3>2. i - 1 \in DOMAIN t /\ t[i - 1] = s[i]
      BY <1>1, <3>1
    <3>3. QED
      BY <3>2 DEF ToSet
  <2>4. QED
    BY <1>4, <2>1, <2>2, <2>3
<1>7. ASSUME NEW noise, Lone(s, noise)
      PROVE  /\ Lone(t, noise)
             /\ h.op # noise => \A p \in ToSet(t) : p.op = noise
  <2>1. \A i \in DOMAIN t : i + 1 \in DOMAIN s /\ t[i] = s[i + 1] /\ i + 1 # 1 /\ i \in Nat
    BY <1>1
  <2>2. Lone(t, noise)
    BY <1>7, <2>1 DEF Lone
  <2>3. ASSUME h.op # noise, NEW i \in DOMAIN t PROVE t[i].op = noise
    BY <1>1, <1>7, <2>1, <2>3 DEF Lone
  <2>4. QED
    BY <2>2, <2>3 DEF ToSet
<1>8. QED
  BY <1>3, <1>4, <1>5, <1>6, <1>7 DEF t, h

\* Nothing is in an empty queue.
LEMMA NothingIn ==
  ASSUME NEW q, q = <<>>
  PROVE  /\ Queue(q) /\ ToSet(q) = {} /\ IsInjective(q)
         /\ \A noise : Lone(q, noise)
<1>1. ToSet(q) = {} /\ IsInjective(q) /\ \A noise : Lone(q, noise)
  BY DEF ToSet, IsInjective, Lone
<1>2. <<>> \in Seq(ToSet(q))
  OBVIOUS
<1>3. QED
  BY <1>1, <1>2 DEF Queue

\* A notification is sent, or lost.
LEMMA Noticed ==
  ASSUME Typed, Linked, OneTurn, NEW p, toC' = Sent(p) \/ toC' = toC
  PROVE  /\ Queue(toC')
         /\ \A q \in ToSet(toC') : q \in ToSet(toC) \/ q = p
         /\ p.op = "cut" \/ ~MacsTurn => Lone(toC', "cut")
         /\ ~conn => toC' = <<>>
<1>1. CASE conn /\ toC' = Append(toC, p)
  <2>1. Queue(toC) /\ Lone(toC, "cut")
    BY DEF Typed, OneTurn
  <2>2. /\ Queue(toC') /\ ToSet(toC') = ToSet(toC) \cup {p}
        /\ p.op = "cut" \/ (\A q \in ToSet(toC) : q.op = "cut") => Lone(toC', "cut")
    BY <1>1, <2>1, Added
  <2>3. QED
    BY <1>1, <2>2 DEF MacsTurn
<1>2. CASE toC' = toC
  BY <1>2 DEF Typed, OneTurn, Linked
<1>3. QED
  BY <1>1, <1>2 DEF Sent

\* A work item is submitted.
LEMMA Submitted ==
  ASSUME Typed, NEW work, Submit(work)
  PROVE  Queue(wq') /\ IsInjective(wq') /\ ToSet(wq') = ToSet(wq) \cup {work}
<1>1. CASE work \in ToSet(wq)
  BY <1>1 DEF Submit, Typed
<1>2. CASE work \notin ToSet(wq)
  BY <1>2, Added DEF Submit, Typed
<1>3. QED
  BY <1>1, <1>2

\* A work item is taken from the queue.
LEMMA Ran ==
  ASSUME Typed, NEW work, Wk(work)
  PROVE  /\ Has(work) /\ ~Asking
         /\ wq' = Tail(wq) =>
              Queue(wq') /\ IsInjective(wq') /\ ToSet(wq') = ToSet(wq) \ {work}
         /\ \A next : SubmitNext(next) =>
              /\ Queue(wq') /\ IsInjective(wq')
              /\ ToSet(wq') = (ToSet(wq) \ {work}) \cup {next}
<1> DEFINE t == Tail(wq)
<1>1. Has(work) /\ ~Asking
  BY TakenOff DEF Typed, Wk, Has, Asking
<1>2. Queue(t) /\ IsInjective(t) /\ ToSet(t) = ToSet(wq) \ {work}
  BY TakenOff DEF Typed, Wk
<1>3. ASSUME NEW next, SubmitNext(next)
      PROVE  /\ Queue(wq') /\ IsInjective(wq')
             /\ ToSet(wq') = (ToSet(wq) \ {work}) \cup {next}
  <2>1. wq' = IF next \in ToSet(t) THEN t ELSE Append(t, next)
    BY <1>3 DEF SubmitNext
  <2> HIDE DEF t
  <2>2. QED
    BY <1>2, <2>1, Added
<1>4. QED
  BY <1>1, <1>2, <1>3

\* The Bluetooth thread takes a packet.
LEMMA Received ==
  ASSUME Typed, Linked, OneTurn, toB # <<>>, toB' = Tail(toB), conn' = conn
  PROVE  /\ conn /\ c.status = "on"
         /\ Queue(toB') /\ Lone(toB', "empty")
         /\ Head(toB) \in ToSet(toB) /\ ToSet(toB') \subseteq ToSet(toB)
         /\ ~conn' => toB' = <<>>
         /\ Head(toB).op # "empty" =>
              /\ \A p \in ToSet(toB') : p.op = "empty"
              /\ PacketsTurn
<1>1. conn /\ c.status = "on"
  BY DEF Linked
<1>2. QED
  BY <1>1, TakenOff DEF Typed, OneTurn, PacketsTurn

-----------------------------------------------------------------------------
(* The turn *)

\* Whoever has the turn, nobody else has it.
LEMMA TurnOf ==
  ASSUME OneTurn
  PROVE  /\ MacsTurn => Only("mac")
         /\ PacketsTurn => Only("packet")
         /\ Asking => Only("asking")
         /\ Has("info") => Only("info")
         /\ Has("update") => Only("update")
         /\ Calling => Only("call")
BY DEF OneTurn, Only, Place

\* The side that has the turn hands it on, and keeps what the next relies on.
LEMMA HandedOn ==
  ASSUME NEW place \in Place, Only(place)',
         Lone(toC', "cut"), Lone(toB', "empty"),
         \A p \in ToSet(toC') : p.op = "cut" \/ NoticeOk(p)',
         \A p \in ToSet(toB') : p.op = "empty" \/ PacketOk(p)',
         WorkOk'
  PROVE  Turn'
<1>1. \A p \in ToSet(toC') : NoticeOk(p)'
  BY DEF NoticeOk, ToCentral
<1>2. \A p \in ToSet(toB') : PacketOk(p)'
  BY DEF PacketOk
<1>3. QED
  BY <1>1, <1>2 DEF Turn, OneTurn, InStep

SamePlace ==
  /\ c'.file = c.file /\ c'.idx = c.idx /\ FileSize(c') = FileSize(c)
  /\ b'.off = b.off /\ b'.bufLen = b.bufLen /\ b'.size = b.size

\* A step that moves neither side on and adds only noise keeps the turn.
LEMMA Unmoved ==
  ASSUME Turn, SamePlace, conn' => conn,
         Lone(toC', "cut"), Lone(toB', "empty"),
         \A p \in ToSet(toC') : p \in ToSet(toC) \/ p.op = "cut",
         \A p \in ToSet(toB') : p \in ToSet(toB) \/ p.op = "empty",
         Asking' => Asking, Has("info")' => Has("info"), Has("update")' => Has("update"),
         Calling' => Calling /\ call'.op = call.op
  PROVE  Turn'
<1>1. PICK place \in Place : Only(place)
  BY DEF Turn, OneTurn
<1>2. Only(place)'
  BY <1>1 DEF Only, MacsTurn, PacketsTurn
<1>3. /\ Abreast' = Abreast /\ AtStart' = AtStart /\ Matched' = Matched
      /\ BlockHanded' = BlockHanded /\ Pos' = Pos
  BY DEF SamePlace, Abreast, AtStart, Matched, BlockHanded, Pos
<1>4. \A p \in ToSet(toC') : p.op = "cut" \/ NoticeOk(p)'
  BY <1>3 DEF Turn, InStep, NoticeOk, SamePlace
<1>5. \A p \in ToSet(toB') : p.op = "empty" \/ PacketOk(p)'
  BY <1>3 DEF Turn, InStep, PacketOk, SamePlace
<1>6. WorkOk'
  BY <1>3 DEF Turn, InStep, WorkOk
<1>7. QED
  BY <1>2, <1>4, <1>5, <1>6, HandedOn

-----------------------------------------------------------------------------
(* The Bluetooth thread *)

\* A request of the bchip is made, unless one is under way.
LEMMA Requested ==
  ASSUME Typed, Pending, NEW op \in RequestOp, NEW at, NEW bytes, app_cmd_request(Ask(op, at, bytes))
  PROVE  /\ CallTyped'
         /\ call' # call => call'.op = op /\ ~Has("rsp")
<1>1. CASE call' = call
  BY <1>1 DEF Typed, CallTyped
<1>2. CASE call' = Ask(op, at, bytes) /\ call = None
  BY <1>2 DEF Ask, Pending, CallTyped
<1>3. QED
  BY <1>1, <1>2 DEF app_cmd_request, Idle

\* A packet gives the turn to the Bluetooth thread, and only to it.
LEMMA PacketTaken ==
  ASSUME Inv, NEW op, op # "empty", Rx(op)
  PROVE  /\ c' = c /\ conn' = conn /\ phase' = phase
         /\ Linked' /\ Knows' /\ conn /\ c.status = "on"
         /\ Queue(toB') /\ Lone(toB', "empty") /\ \A p \in ToSet(toB') : p.op = "empty"
         /\ Head(toB) \in ToSet(toB) /\ PacketOk(Head(toB))
         /\ \A p \in ToSet(toC) : p.op = "cut"
         /\ ~MacsTurn /\ ~PacketsTurn' /\ ~Asking' /\ ~Has("info") /\ ~Has("update") /\ ~Calling
<1>1. c' = c /\ conn' = conn /\ phase' = phase /\ toB # <<>> /\ toB' = Tail(toB) /\ Head(toB).op = op
  BY DEF Rx
<1>2. /\ conn /\ c.status = "on" /\ Queue(toB') /\ Lone(toB', "empty")
      /\ \A p \in ToSet(toB') : p.op = "empty"
      /\ PacketsTurn /\ Head(toB) \in ToSet(toB)
  BY <1>1, Received DEF Inv, Turn
<1>3. Only("packet")
  BY <1>2, TurnOf DEF Inv, Turn
<1>4. /\ \A p \in ToSet(toC) : p.op = "cut"
      /\ ~MacsTurn /\ ~Asking' /\ ~Has("info") /\ ~Has("update") /\ ~Calling
  BY <1>1, <1>3 DEF Only, MacsTurn, Asking
<1>5. ~PacketsTurn'
  BY <1>2 DEF PacketsTurn
<1>6. Linked'
  BY <1>1, <1>2 DEF Linked
<1>7. Knows'
  BY <1>1 DEF Inv, Knows, NoTrap
<1>8. PacketOk(Head(toB))
  BY <1>2 DEF Inv, Turn, InStep
<1>9. QED
  BY <1>1, <1>2, <1>4, <1>5, <1>6, <1>7, <1>8

\* BDUNK wants to begin.
LEMMA RxStartKeeps ==
  ASSUME Inv, RxStart
  PROVE  Inv'
<1> USE DEF RxStart
<1>1. /\ c' = c /\ conn' = conn /\ Linked' /\ Knows' /\ conn
      /\ Queue(toB') /\ Lone(toB', "empty") /\ \A p \in ToSet(toB') : p.op = "empty"
      /\ PacketOk(Head(toB)) /\ \A p \in ToSet(toC) : p.op = "cut"
      /\ ~MacsTurn /\ ~PacketsTurn' /\ ~Asking' /\ ~Has("info") /\ ~Has("update") /\ ~Calling
  BY PacketTaken
<1>2. wq' = wq /\ Head(toB).op = "start"
  BY DEF Rx
<1>3. /\ DOMAIN b' = ChipFields
      /\ b'.bufLen = b.bufLen /\ b'.off = b.off /\ b'.size = b.size
  BY DEF retrieve_dev_info, Inv, Typed, CallTyped, ChipFields
<1>4. AtStart /\ AtStart'
  BY <1>1, <1>2, <1>3 DEF PacketOk, AtStart
<1>5. WholePackets'
  BY <1>3 DEF Inv, WholePackets
<1>6. Has("info")' = Has("info") /\ Has("update")' = Has("update") /\ Has("rsp")' = Has("rsp")
  BY <1>2 DEF Has
<1>7. CASE app_cmd_request(Ask("devinf", 0, <<>>)) /\ UNCHANGED toC
  <2>1. /\ CallTyped'
        /\ call' # call => call'.op = "devinf" /\ ~Has("rsp")
    BY <1>7, Requested DEF Inv, RequestOp
  <2>2. Typed'
    BY <1>1, <1>2, <1>3, <1>7, <2>1 DEF Inv, Typed, CallTyped
  <2>3. Pending'
    BY <1>6, <2>1 DEF Inv, Pending
  <2>4. Only("call")'
    BY <1>1, <1>6, <1>7 DEF Only, MacsTurn
  <2>5. WorkOk'
    BY <1>1, <1>4, <1>6, <2>1 DEF WorkOk, Calling
  <2>6. Turn'
    BY <1>1, <1>7, <2>4, <2>5, HandedOn DEF Place, Inv, Turn, OneTurn
  <2>7. QED
    BY <1>1, <1>5, <2>2, <2>3, <2>6 DEF Inv
<1>8. CASE Notify(DevInf(b.avail91, app_flash_get_DevInf)) /\ UNCHANGED call
  <2> DEFINE p == DevInf(b.avail91, app_flash_get_DevInf)
  <2>1. toC' = Sent(p) \/ toC' = toC
    BY <1>8 DEF Notify
  <2>2. p.op = "devinf"
    BY DEF DevInf
  <2> HIDE DEF p
  <2>3. /\ Queue(toC') /\ Lone(toC', "cut")
        /\ \A q \in ToSet(toC') : q \in ToSet(toC) \/ q = p
    BY <1>1, <2>1, Noticed DEF Inv, Turn
  <2>4. Typed' /\ Pending'
    BY <1>1, <1>2, <1>3, <1>6, <1>8, <2>3 DEF Inv, Typed, CallTyped, Pending
  <2>5. Only("mac")' /\ WorkOk'
    BY <1>1, <1>6, <1>8 DEF Only, WorkOk, Calling
  <2>6. \A q \in ToSet(toC') : q.op = "cut" \/ NoticeOk(q)'
    BY <1>1, <1>4, <2>2, <2>3 DEF NoticeOk, ToCentral
  <2>7. Turn'
    BY <1>1, <2>3, <2>5, <2>6, HandedOn DEF Place
  <2>8. QED
    BY <1>1, <1>5, <2>4, <2>7 DEF Inv
<1>9. QED
  BY <1>7, <1>8 DEF retrieve_dev_info

\* The size and the kind of the image: both sides are at its start.
LEMMA RxInfoKeeps ==
  ASSUME Inv, RxInfo
  PROVE  Inv'
<1> USE DEF RxInfo
<1>1. /\ c' = c /\ conn' = conn /\ Linked' /\ Knows' /\ conn /\ c.status = "on"
      /\ Queue(toB') /\ Lone(toB', "empty") /\ \A p \in ToSet(toB') : p.op = "empty"
      /\ PacketOk(Head(toB)) /\ \A p \in ToSet(toC) : p.op = "cut"
      /\ ~MacsTurn /\ ~PacketsTurn' /\ ~Asking' /\ ~Has("info") /\ ~Has("update") /\ ~Calling
  BY PacketTaken
<1>2. Head(toB).op = "info" /\ toC' = toC
  BY DEF Rx
<1>3. AtStart /\ c.file # "none" /\ Head(toB).size = FileSize(c)
  BY <1>1, <1>2 DEF PacketOk
<1>4. FileSize(c) \in Nat
  BY <1>1, <1>3, ImageAssumption DEF Inv, Typed, CallTyped, IsBdunk, Knows, HasSizes, FileSize, Chip
<1>5. /\ DOMAIN b' = ChipFields
      /\ b'.bufLen = b.bufLen /\ b'.off = b.off /\ b'.size = FileSize(c)
  BY <1>3 DEF Expecting, Inv, Typed, CallTyped, ChipFields
<1>6. AtStart' /\ Matched'
  BY <1>1, <1>3, <1>5 DEF AtStart, Matched
<1>7. WholePackets'
  BY <1>5 DEF Inv, WholePackets
<1>8. Lone(toC', "cut") /\ ~MacsTurn'
  BY <1>1, <1>2 DEF Inv, Turn, OneTurn, MacsTurn
<1>9. CASE Submit("info") /\ UNCHANGED call
  <2>1. Queue(wq') /\ IsInjective(wq') /\ ToSet(wq') = ToSet(wq) \cup {"info"}
    BY <1>9, Submitted DEF Inv
  <2>2. Typed' /\ Pending'
    BY <1>1, <1>2, <1>4, <1>5, <1>9, <2>1 DEF Inv, Typed, CallTyped, Pending, Has
  <2>3. Only("info")' /\ WorkOk'
    BY <1>1, <1>6, <1>8, <1>9, <2>1 DEF Only, WorkOk, Calling, Has
  <2>4. Turn'
    BY <1>1, <1>2, <1>8, <2>3, HandedOn DEF Place
  <2>5. QED
    BY <1>1, <1>7, <2>2, <2>4 DEF Inv
<1>10. CASE app_cmd_request(Ask("erase", CeilDiv(Head(toB).size, Page), <<>>)) /\ UNCHANGED wq
  <2>1. /\ CallTyped'
        /\ call' # call => call'.op = "erase" /\ ~Has("rsp")
    BY <1>10, Requested DEF Inv, RequestOp
  <2>2. Typed' /\ Pending'
    BY <1>1, <1>2, <1>4, <1>5, <1>10, <2>1 DEF Inv, Typed, CallTyped, Pending, Has
  <2>3. Only("call")' /\ WorkOk'
    BY <1>1, <1>6, <1>8, <1>10, <2>1 DEF Only, WorkOk, Calling, Has
  <2>4. Turn'
    BY <1>1, <1>2, <1>8, <2>3, HandedOn DEF Place
  <2>5. QED
    BY <1>1, <1>7, <2>2, <2>4 DEF Inv
<1>11. QED
  BY <1>9, <1>10 DEF cmd_request_flash_erase

\* What both chips run is asked for.
LEMMA RxSelfKeeps ==
  ASSUME Inv, RxSelf
  PROVE  Inv'
<1> USE DEF RxSelf
<1>1. /\ c' = c /\ conn' = conn /\ Linked' /\ Knows' /\ conn
      /\ Queue(toB') /\ Lone(toB', "empty") /\ \A p \in ToSet(toB') : p.op = "empty"
      /\ PacketOk(Head(toB)) /\ \A p \in ToSet(toC) : p.op = "cut"
      /\ ~MacsTurn /\ ~PacketsTurn' /\ ~Asking' /\ ~Has("info") /\ ~Has("update") /\ ~Calling
  BY PacketTaken
<1>2. wq' = wq /\ call' = call /\ Head(toB).op = "self"
  BY DEF Rx, simp
<1>3. DOMAIN b' = ChipFields /\ b'.bufLen = 0 /\ b'.off = 0 /\ b'.size = 0
  BY DEF Cleared, Inv, Typed, CallTyped, ChipFields
<1>4. AtStart' /\ c'.file # "none"
  BY <1>1, <1>2, <1>3 DEF PacketOk, AtStart
<1>5. WholePackets'
  BY <1>3, PacketAssumption, BlockAssumption DEF WholePackets
<1> DEFINE p == Plain("selfstart")
<1>6. p.op = "selfstart" /\ (toC' = Sent(p) \/ toC' = toC)
  BY DEF Plain, Notify
<1> HIDE DEF p
<1>7. /\ Queue(toC') /\ Lone(toC', "cut")
      /\ \A q \in ToSet(toC') : q \in ToSet(toC) \/ q = p
  BY <1>1, <1>6, Noticed DEF Inv, Turn
<1>8. Typed' /\ Pending'
  BY <1>1, <1>2, <1>3, <1>7 DEF Inv, Typed, CallTyped, Pending, Has
<1>9. Only("mac")' /\ WorkOk'
  BY <1>1, <1>2 DEF Only, WorkOk, Calling, Has
<1>10. \A q \in ToSet(toC') : q.op = "cut" \/ NoticeOk(q)'
  BY <1>1, <1>4, <1>6, <1>7 DEF NoticeOk, ToCentral
<1>11. Turn'
  BY <1>1, <1>7, <1>9, <1>10, HandedOn DEF Place
<1>12. QED
  BY <1>1, <1>5, <1>8, <1>11 DEF Inv

\* BDUNK has heard that its image arrived.
LEMMA RxDoneKeeps ==
  ASSUME Inv, RxDone
  PROVE  Inv'
<1> USE DEF RxDone
<1>1. /\ c' = c /\ conn' = conn /\ Linked' /\ Knows' /\ conn
      /\ Queue(toB') /\ Lone(toB', "empty") /\ \A p \in ToSet(toB') : p.op = "empty"
      /\ \A p \in ToSet(toC) : p.op = "cut"
      /\ ~MacsTurn /\ ~PacketsTurn' /\ ~Asking' /\ ~Has("info") /\ ~Has("update") /\ ~Calling
  BY PacketTaken
<1>2. wq' = wq /\ call' = call /\ toC' = toC
  BY DEF simp
<1>3. DOMAIN b' = ChipFields /\ b'.bufLen = 0 /\ b'.off = 0 /\ b'.size = 0
  BY DEF Cleared, Inv, Typed, CallTyped, ChipFields
<1>4. WholePackets'
  BY <1>3, PacketAssumption, BlockAssumption DEF WholePackets
<1>5. Typed' /\ Pending'
  BY <1>1, <1>2, <1>3 DEF Inv, Typed, CallTyped, Pending, Has
<1>6. Only("mac")' /\ WorkOk' /\ Lone(toC', "cut")
  BY <1>1, <1>2 DEF Only, WorkOk, Calling, Has, Inv, Turn, OneTurn
<1>7. Turn'
  BY <1>1, <1>2, <1>6, HandedOn DEF Place
<1>8. QED
  BY <1>1, <1>4, <1>5, <1>7 DEF Inv

\* An empty packet is nobody's turn.
LEMMA RxEmptyKeeps ==
  ASSUME Inv, RxEmpty
  PROVE  Inv'
<1> USE DEF RxEmpty
<1>1. /\ c' = c /\ conn' = conn /\ phase' = phase /\ toC' = toC /\ b' = b /\ wq' = wq
      /\ call' = call /\ toB # <<>> /\ toB' = Tail(toB)
  BY DEF Rx, simp
<1>2. /\ conn /\ Queue(toB') /\ Lone(toB', "empty")
      /\ ToSet(toB') \subseteq ToSet(toB)
  BY <1>1, Received DEF Inv, Turn
<1>3. Typed' /\ Linked' /\ Knows' /\ Pending' /\ WholePackets'
  BY <1>1, <1>2 DEF Inv, Typed, CallTyped, Linked, Knows, NoTrap, Pending, WholePackets, Has
<1>4. Turn'
  <2>1. SamePlace /\ Lone(toC', "cut")
    BY <1>1 DEF SamePlace, Inv, Turn, OneTurn
  <2>2. /\ Asking' => Asking
        /\ Has("info")' => Has("info")
        /\ Has("update")' => Has("update")
        /\ Calling' => Calling /\ call'.op = call.op
    BY <1>1 DEF Asking, Has, Calling
  <2>3. QED
    BY <1>1, <1>2, <2>1, <2>2, Unmoved DEF Inv
<1>5. QED
  BY <1>3, <1>4 DEF Inv

\* What is still missing of the image is a difference of two uint32_t, which does
\* not wrap around, and neither does the offset.
LEMMA NoWrap ==
  ASSUME NEW m \in Nat, NEW n \in Nat, m <= n, n <= SlotLen
  PROVE  /\ n % UInt32 = n
         /\ m < n => (n - m + UInt32) % UInt32 = n - m
<1>1. UInt32 \in Nat /\ SlotLen \in Nat /\ n < UInt32 /\ UInt32 > 0
  BY BlockAssumption, FlashAssumption
<1>2. n % UInt32 = n
  BY <1>1
<1>3. ASSUME m < n PROVE (n - m + UInt32) % UInt32 = n - m
  <2>1. n - m \in 0..(UInt32 - 1)
    BY <1>1
  <2>2. \A k \in 0..(UInt32 - 1) : (k + UInt32) % UInt32 = k
    BY <1>1
  <2>3. QED
    BY <2>1, <2>2
<1>4. QED
  BY <1>2, <1>3

\* A packet more, if the block is not full: blocks are made of whole packets.
LEMMA OnePacketMore ==
  ASSUME NEW n \in Nat, n % Packet = 0, n < Block
  PROVE  n + Packet <= Block /\ (n + Packet) % Packet = 0
<1>1. Packet \in Nat \ {0} /\ Block \in Nat /\ Block % Packet = 0
  BY PacketAssumption, BlockAssumption
<1>2. PICK k \in Nat : n = k * Packet
  BY <1>1
<1>3. PICK m \in Nat : Block = m * Packet
  BY <1>1
<1>4. k < m
  BY <1>1, <1>2, <1>3
<1>5. (k + 1) * Packet <= m * Packet
  BY <1>1, <1>4
<1>6. QED
  BY <1>1, <1>2, <1>3, <1>5

\* A packet fits the block, and completes it if there is no room for another or
\* nothing is missing of the image.
LEMMA PacketFits ==
  ASSUME Inv, conn, NEW p \in ToSet(toB), p.op = "data"
  PROVE  /\ Len(p.bytes) \in Nat \ {0}
         /\ b.off < b.size /\ b.size <= SlotLen
         /\ b.bufLen + Len(p.bytes) <= Block /\ Pos + Len(p.bytes) <= b.size
         /\ Pos + Len(p.bytes) < b.size =>
              /\ c.idx = Pos + Len(p.bytes)
              /\ (b.bufLen + Len(p.bytes)) % Packet = 0
<1> DEFINE k == Len(p.bytes)
<1>1. /\ Matched /\ Pos < b.size /\ c.idx = Pos + Packet
      /\ k = Smaller(Packet, b.size - Pos)
  BY DEF Inv, Turn, InStep, PacketOk
<1> HIDE DEF k
<1>2. /\ b.size \in Nat /\ b.size <= SlotLen /\ b.off \in Nat /\ b.bufLen \in Nat
      /\ SlotLen \in Nat /\ Packet \in Nat \ {0} /\ Block \in Nat
  <2>1. c.file \in Chip /\ b.size = FileSize(c) /\ c.status = "on"
    BY <1>1 DEF Matched, Inv, Typed, CallTyped, IsBdunk, Linked
  <2>2. b.size \in Sizes
    BY <2>1 DEF Inv, Knows, HasSizes, FileSize, Chip
  <2>3. QED
    BY <2>2, PacketAssumption, ImageAssumption, BlockAssumption, FlashAssumption DEF Inv, Typed, CallTyped
<1>3. b.bufLen + Packet <= Block /\ (b.bufLen + Packet) % Packet = 0
  BY <1>2, OnePacketMore DEF Inv, WholePackets
<1>4. k \in Nat \ {0} /\ k <= Packet /\ k <= b.size - Pos /\ (k = Packet \/ k = b.size - Pos)
  BY <1>1, <1>2 DEF Smaller, Pos
<1>5. /\ b.off < b.size /\ b.bufLen + k <= Block /\ Pos + k <= b.size
      /\ Pos + k < b.size => k = Packet
  BY <1>1, <1>2, <1>3, <1>4 DEF Pos
<1>6. QED
  BY <1>1, <1>2, <1>3, <1>4, <1>5 DEF k

\* A packet of the image is added to the block, which is handed on when it is full.
LEMMA RxDataKeeps ==
  ASSUME Inv, RxData
  PROVE  Inv'
<1>1. /\ c' = c /\ conn' = conn /\ Linked' /\ Knows' /\ conn
      /\ Queue(toB') /\ Lone(toB', "empty") /\ \A p \in ToSet(toB') : p.op = "empty"
      /\ Head(toB) \in ToSet(toB) /\ \A p \in ToSet(toC) : p.op = "cut"
      /\ ~MacsTurn /\ ~PacketsTurn' /\ ~Asking' /\ ~Has("info") /\ ~Has("update") /\ ~Calling
  BY PacketTaken DEF RxData
<1> DEFINE bytes == Head(toB).bytes
           k == Len(bytes)
           buf == Collected(bytes)
           n == b.bufLen + k
<1>2. Head(toB).op = "data"
  BY DEF RxData, Rx
<1>3. /\ k \in Nat \ {0} /\ b.off < b.size /\ b.size <= SlotLen
      /\ n <= Block /\ Pos + k <= b.size
      /\ Pos + k < b.size => c.idx = Pos + k /\ n % Packet = 0
  BY <1>1, <1>2, PacketFits
<1>4. Matched
  BY <1>1, <1>2 DEF Inv, Turn, InStep, PacketOk
<1>5. /\ b.bufLen \in Nat /\ b.off \in Nat /\ b.size \in Nat /\ DOMAIN b = ChipFields
      /\ Block \in Nat \ {0} /\ SlotLen \in Nat
  BY BlockAssumption, FlashAssumption DEF Inv, Typed, CallTyped
<1>6. IF n = Block \/ n = (b.size - b.off + UInt32) % UInt32
      THEN b' = BlockDone(buf, n) /\ HandOver(buf, n)
      ELSE /\ b' = [b EXCEPT !.buf = buf, !.bufLen = n]
           /\ Notify(Plain("get"))
           /\ UNCHANGED <<wq, call>>
  BY DEF RxData
<1> HIDE DEF buf, k, bytes
<1>7. (b.size - b.off + UInt32) % UInt32 = b.size - b.off
  BY <1>3, <1>5, NoWrap
<1>8. CASE n = Block \/ n = b.size - b.off
  <2>1. b' = BlockDone(buf, n) /\ HandOver(buf, n)
    BY <1>6, <1>7, <1>8
  <2>2. /\ b.off + n \in Nat /\ b.off + n = Pos + k /\ b.off + n <= b.size
        /\ b.off + n > 0 /\ (b.off + n < b.size => c.idx = b.off + n)
    BY <1>3, <1>5 DEF Pos
  <2>3. (b.off + n) % UInt32 = b.off + n
    BY <1>3, <1>5, <2>2, NoWrap
  <2>4. /\ DOMAIN b' = ChipFields
        /\ b'.bufLen = 0 /\ b'.off = b.off + n /\ b'.size = b.size
    BY <1>5, <2>1, <2>3 DEF BlockDone, ChipFields
  <2> HIDE DEF n
  <2>5. BlockHanded'
    BY <1>1, <1>4, <2>2, <2>4 DEF BlockHanded, Matched
  <2>6. WholePackets'
    BY <2>4, PacketAssumption, BlockAssumption DEF WholePackets
  <2>7. toC' = toC /\ Lone(toC', "cut") /\ ~MacsTurn'
    BY <1>1, <2>1 DEF HandOver, Inv, Turn, OneTurn, MacsTurn
  <2>8. CASE Submit("update") /\ UNCHANGED call
    <3>1. Queue(wq') /\ IsInjective(wq') /\ ToSet(wq') = ToSet(wq) \cup {"update"}
      BY <2>8, Submitted DEF Inv
    <3>2. Typed' /\ Pending'
      BY <1>1, <1>5, <2>2, <2>4, <2>7, <2>8, <3>1 DEF Inv, Typed, CallTyped, Pending, Has
    <3>3. Only("update")' /\ WorkOk'
      BY <1>1, <2>5, <2>7, <2>8, <3>1 DEF Only, WorkOk, Calling, Has
    <3>4. Turn'
      BY <1>1, <2>7, <3>3, HandedOn DEF Place
    <3>5. QED
      BY <1>1, <2>6, <3>2, <3>4 DEF Inv
  <2>9. CASE app_cmd_request(Ask("write", b.off, Bytes(buf, n))) /\ UNCHANGED wq
    <3>1. /\ CallTyped'
          /\ call' # call => call'.op = "write" /\ ~Has("rsp")
      BY <2>9, Requested DEF Inv, RequestOp
    <3>2. Typed' /\ Pending'
      BY <1>1, <1>5, <2>2, <2>4, <2>7, <2>9, <3>1 DEF Inv, Typed, CallTyped, Pending, Has
    <3>3. Only("call")' /\ WorkOk'
      BY <1>1, <2>5, <2>7, <2>9, <3>1 DEF Only, WorkOk, Calling, Has
    <3>4. Turn'
      BY <1>1, <2>7, <3>3, HandedOn DEF Place
    <3>5. QED
      BY <1>1, <2>6, <3>2, <3>4 DEF Inv
  <2>10. QED
    BY <2>1, <2>8, <2>9 DEF HandOver, cmd_request_flash_write
<1>9. CASE ~(n = Block \/ n = b.size - b.off)
  <2>1. b' = [b EXCEPT !.buf = buf, !.bufLen = n] /\ Notify(Plain("get")) /\ UNCHANGED <<wq, call>>
    BY <1>6, <1>7, <1>9
  <2>2. DOMAIN b' = ChipFields /\ b'.bufLen = n /\ b'.off = b.off /\ b'.size = b.size /\ n \in Nat
    BY <1>3, <1>5, <2>1 DEF ChipFields
  <2>3. n < Block /\ Pos + k < b.size /\ Pos + k = b.off + n
    BY <1>3, <1>5, <1>9 DEF Pos
  <2>4. WholePackets' /\ Abreast'
    BY <1>1, <1>3, <1>4, <2>2, <2>3 DEF WholePackets, Abreast, Matched, Pos
  <2> DEFINE p == Plain("get")
  <2>5. p.op = "get" /\ (toC' = Sent(p) \/ toC' = toC)
    BY <2>1 DEF Plain, Notify
  <2> HIDE DEF p, n
  <2>6. /\ Queue(toC') /\ Lone(toC', "cut")
        /\ \A q \in ToSet(toC') : q \in ToSet(toC) \/ q = p
    BY <1>1, <2>5, Noticed DEF Inv, Turn
  <2>7. Typed' /\ Pending'
    BY <1>1, <1>5, <2>1, <2>2, <2>6 DEF Inv, Typed, CallTyped, Pending, Has
  <2>8. Only("mac")' /\ WorkOk'
    BY <1>1, <2>1 DEF Only, WorkOk, Calling, Has
  <2>9. \A q \in ToSet(toC') : q.op = "cut" \/ NoticeOk(q)'
    BY <1>1, <2>4, <2>5, <2>6 DEF NoticeOk, ToCentral
  <2>10. Turn'
    BY <1>1, <2>6, <2>8, <2>9, HandedOn DEF Place
  <2>11. QED
    BY <1>1, <2>4, <2>7, <2>10 DEF Inv
<1>10. QED
  BY <1>8, <1>9

-----------------------------------------------------------------------------
(* SIMP and the ichip *)

\* A step of the work queue or of SIMP that neither moves a side on nor passes the
\* turn.
LEMMA Quietly ==
  ASSUME Inv, UNCHANGED link,
         DOMAIN b' = ChipFields, b'.off = b.off, b'.bufLen = b.bufLen, b'.size = b.size,
         Queue(wq'), IsInjective(wq'),
         CallTyped',
         Pending',
         Asking' => Asking, Has("info")' => Has("info"), Has("update")' => Has("update"),
         Calling' => Calling /\ call'.op = call.op
  PROVE  Inv'
<1>1. c' = c /\ conn' = conn /\ toC' = toC /\ toB' = toB
  BY DEF link
<1>2. Typed' /\ Linked' /\ Knows' /\ WholePackets'
  BY <1>1 DEF Inv, Typed, CallTyped, Linked, Knows, NoTrap, WholePackets
<1>3. SamePlace /\ Lone(toC', "cut") /\ Lone(toB', "empty")
  BY <1>1 DEF SamePlace, Inv, Turn, OneTurn
<1>4. Turn'
  BY <1>1, <1>3, Unmoved DEF Inv
<1>5. QED
  BY <1>2, <1>4 DEF Inv

\* The ichip serves a request: an answer is not yet a turn.
LEMMA IchipKeeps ==
  ASSUME Inv, Ichip
  PROVE  Inv'
<1>1. PICK op \in {"devinf", "erase", "write", "done"}, ok \in BOOLEAN : Answer(op, ok)
  <2>1. CASE req_dev_fwinfo92
    BY <2>1 DEF req_dev_fwinfo92
  <2>2. CASE req_cb_flash_erase
    <3> DEFINE ok == app_flash_erase_page(slot91, 0, call.at).ok
    <3>1. ok \in BOOLEAN
      BY DEF app_flash_erase_page, flash_area_erase
    <3>2. QED
      BY <2>2, <3>1 DEF req_cb_flash_erase
  <2>3. CASE req_cb_flash_write
    <3> DEFINE ok == app_flash_write(slot91, call.at, call.bytes).ok
    <3>1. ok \in BOOLEAN
      BY DEF app_flash_write, flash_area_write
    <3>2. QED
      BY <2>3, <3>1 DEF req_cb_flash_write
  <2>4. CASE req_cb_flash_done
    BY <2>4 DEF req_cb_flash_done
  <2>5. QED
    BY <2>1, <2>2, <2>3, <2>4 DEF Ichip
<1>2. /\ UNCHANGED link /\ b' = b /\ phase' = phase /\ wq' = wq
      /\ call # None /\ call.answer = "none"
      /\ call' = [call EXCEPT !.answer = IF ok THEN "ok" ELSE "empty"]
  BY <1>1 DEF Answer, chip, Unanswered
<1>3. CallTyped' /\ call'.op = call.op
  BY <1>2 DEF Inv, Typed, CallTyped
<1>4. Pending'
  BY <1>2 DEF Inv, Pending, Has
<1>5. /\ Asking' => Asking
      /\ Has("info")' => Has("info")
      /\ Has("update")' => Has("update")
      /\ Calling' => Calling /\ call'.op = call.op
  BY <1>2, <1>3 DEF Asking, Has, Calling
<1>6. QED
  BY <1>2, <1>3, <1>4, <1>5, Quietly DEF Inv, Typed, CallTyped

\* A response is on its way to the work queue.
LEMMA RespondedKeeps ==
  ASSUME Inv, Responded
  PROVE  Inv'
<1>1. /\ UNCHANGED link /\ b' = b /\ phase' = phase /\ call' = call
      /\ call # None /\ call.answer # "none" /\ Submit("rsp")
  BY DEF Responded, simp
<1>2. Queue(wq') /\ IsInjective(wq') /\ ToSet(wq') = ToSet(wq) \cup {"rsp"}
  BY <1>1, Submitted DEF Inv
<1>3. Pending'
  BY <1>1 DEF Pending
<1>4. /\ Asking' => Asking
      /\ Has("info")' => Has("info")
      /\ Has("update")' => Has("update")
      /\ Calling' => Calling /\ call'.op = call.op
  BY <1>1, <1>2 DEF Asking, Has, Calling
<1>5. QED
  BY <1>1, <1>2, <1>3, <1>4, Quietly DEF Inv, Typed, CallTyped

\* A request that never left gives no answer.
LEMMA TxAbortedKeeps ==
  ASSUME Inv, TxAborted
  PROVE  Inv'
<1>1. /\ UNCHANGED link /\ b' = b /\ phase' = phase /\ wq' = wq
      /\ call.answer = "none" /\ call # None /\ call' = None
  BY DEF TxAborted, chip, Unanswered
<1>2. Pending'
  BY <1>1 DEF Inv, Pending, Has
<1>3. /\ Asking' => Asking
      /\ Has("info")' => Has("info")
      /\ Has("update")' => Has("update")
      /\ ~Calling'
  BY <1>1 DEF Asking, Has, Calling
<1>4. QED
  BY <1>1, <1>2, <1>3, Quietly DEF Inv, Typed, CallTyped

\* The ichip requests only when nothing is left over.
LEMMA IchipAsksKeeps ==
  ASSUME Inv, NEW op, IchipAsks(op)
  PROVE  Inv'
<1>1. /\ UNCHANGED link /\ b' = b /\ phase' = phase /\ call' = call
      /\ call = None /\ Submit("req")
  BY DEF IchipAsks, Idle
<1>2. Queue(wq') /\ IsInjective(wq') /\ ToSet(wq') = ToSet(wq) \cup {"req"}
  BY <1>1, Submitted DEF Inv
<1>3. /\ Pending'
      /\ Asking' => Asking
      /\ Has("info")' => Has("info")
      /\ Has("update")' => Has("update")
      /\ Calling' => Calling /\ call'.op = call.op
  BY <1>1, <1>2 DEF Inv, Pending, Asking, Has, Calling
<1>4. QED
  BY <1>1, <1>2, <1>3, Quietly DEF Inv, Typed, CallTyped

\* Its request is processed.
LEMMA WkProcReqKeeps ==
  ASSUME Inv, wk_proc_req_handler
  PROVE  Inv'
<1>1. /\ Wk("req") /\ UNCHANGED link /\ phase' = phase /\ call' = call
      /\ \/ dfu_file_ready(b.off)
         \/ wq' = Tail(wq) /\ b' = b
  BY DEF wk_proc_req_handler, Wk, link
<1>2. /\ DOMAIN b' = ChipFields
      /\ b'.off = b.off /\ b'.bufLen = b.bufLen /\ b'.size = b.size
  BY <1>1 DEF dfu_file_ready, Inv, Typed, CallTyped, ChipFields
<1>3. Queue(wq') /\ IsInjective(wq') /\ ToSet(wq') \subseteq ToSet(wq) \cup {"flag"}
  BY <1>1, Ran DEF Inv, dfu_file_ready
<1>4. /\ Pending'
      /\ Asking' => Asking
      /\ Has("info")' => Has("info")
      /\ Has("update")' => Has("update")
      /\ Calling' => Calling /\ call'.op = call.op
  BY <1>1, <1>3 DEF Inv, Pending, Asking, Has, Calling
<1>5. QED
  BY <1>1, <1>2, <1>3, <1>4, Quietly DEF Inv, Typed, CallTyped

\* A boot leaves no link and nothing to do.
LEMMA BootKeeps ==
  ASSUME Inv, Boot
  PROVE  Inv'
<1>1. UNCHANGED link /\ b' = b /\ wq' = wq /\ call' = call /\ phase' = "ready"
  BY DEF Boot, initalize_dfu_module, simp
<1>2. /\ Pending' /\ ~Asking'
      /\ Has("info")' => Has("info")
      /\ Has("update")' => Has("update")
      /\ Calling' => Calling /\ call'.op = call.op
  BY <1>1 DEF Inv, Pending, Asking, Has, Calling
<1>3. QED
  BY <1>1, <1>2, Quietly DEF Inv, Typed, CallTyped

-----------------------------------------------------------------------------
(* The link and BDUNK *)

\* Without a link nobody relies on anything.
LEMMA WithoutLink ==
  ASSUME Inv, conn' = FALSE, toC' = <<>>, toB' = <<>>,
         IsBdunk(c'), Knows',
         DOMAIN b' = ChipFields, b'.bufLen \in Nat, b'.off \in Nat, b'.size \in Nat,
         WholePackets',
         Queue(wq'), IsInjective(wq'),
         CallTyped',
         Pending',
         Asking' => Asking, Has("info")' => Has("info"), Has("update")' => Has("update"),
         Calling' => Calling
  PROVE  Inv'
<1>1. /\ Queue(toC') /\ ToSet(toC') = {} /\ Lone(toC', "cut")
      /\ Queue(toB') /\ ToSet(toB') = {} /\ Lone(toB', "empty")
  BY NothingIn
<1>2. Typed' /\ Linked'
  BY <1>1 DEF Typed, Linked
<1>3. PICK place \in Place : Only(place)
  BY DEF Inv, Turn, OneTurn
<1>4. Only(place)' /\ WorkOk'
  BY <1>1, <1>3 DEF Only, MacsTurn, PacketsTurn, WorkOk
<1>5. Turn'
  BY <1>1, <1>4, HandedOn
<1>6. QED
  BY <1>2, <1>5 DEF Inv

\* The work queue wakes from cutting the link.
LEMMA CutEndsKeeps ==
  ASSUME Inv, CutEnds
  PROVE  Inv'
<1>1. /\ conn' = FALSE /\ toC' = <<>> /\ toB' = <<>> /\ phase' = "ready"
      /\ c' = c /\ b' = b /\ wq' = wq /\ call' = call
  BY DEF CutEnds, disconnected, simp
<1>2. /\ Knows' /\ WholePackets' /\ Pending' /\ ~Asking'
      /\ Has("info")' => Has("info")
      /\ Has("update")' => Has("update")
      /\ Calling' => Calling
  BY <1>1 DEF Inv, Knows, NoTrap, WholePackets, Pending, Asking, Has, Calling
<1>3. QED
  BY <1>1, <1>2, WithoutLink DEF Inv, Typed, CallTyped

\* A link that drops takes the messages with it.
LEMMA LinkDropsKeeps ==
  ASSUME Inv, LinkDrops
  PROVE  Inv'
<1>1. /\ conn' = FALSE /\ toC' = <<>> /\ toB' = <<>>
      /\ c' \in {c, [c EXCEPT !.updating = FALSE]}
      /\ phase' = phase /\ b' = b /\ wq' = wq /\ call' = call
  BY DEF LinkDrops, disconnected, centralManagerDidUpdateState, chip, simp
<1>2. /\ IsBdunk(c') /\ c'.what = c.what /\ c'.file = c.file /\ c'.idx = c.idx
      /\ c'.status = c.status /\ c'.size52 = c.size52 /\ c'.size91 = c.size91
      /\ c'.op = c.op /\ c'.auto = c.auto /\ c'.loads = c.loads
  BY <1>1 DEF Inv, Typed, CallTyped, IsBdunk, BdunkFields
<1>3. Knows'
  BY <1>2 DEF Inv, Knows, HasSizes, Expects, NoTrap
<1>4. /\ WholePackets' /\ Pending'
      /\ Asking' => Asking
      /\ Has("info")' => Has("info")
      /\ Has("update")' => Has("update")
      /\ Calling' => Calling
  BY <1>1 DEF Inv, WholePackets, Pending, Asking, Has, Calling
<1>5. QED
  BY <1>1, <1>2, <1>3, <1>4, WithoutLink DEF Inv, Typed, CallTyped

\* BDUNK when it is off, or has just been started.
LEMMA JustLaunched ==
  ASSUME NEW id, NEW what \in What, NEW n52, NEW n91, NEW loads,
         NEW r, r = Launched(id, what, n52, n91, loads)
  PROVE  /\ DOMAIN r = BdunkFields /\ r.what = what /\ r.file = "none" /\ r.idx = 0
         /\ r.status = "on" /\ r.op = "start" /\ r.size52 = n52 /\ r.size91 = n91
BY DEF Launched, BdunkFields

\* A BDUNK that is off has no turn and no expectation.
LEMMA TurnedOff ==
  /\ DOMAIN Off = BdunkFields /\ Off.what \in What /\ Off.file = "none" /\ Off.idx = 0
  /\ Off.status = "off"
<1> DEFINE r == Launched(0, "52", 0, 0, FALSE)
<1>1. DOMAIN r = BdunkFields /\ r.what = "52" /\ r.file = "none" /\ r.idx = 0
  BY DEF Launched, BdunkFields
<1> HIDE DEF r
<1>2. [r EXCEPT !.status = "off"].status = "off"
  BY <1>1 DEF BdunkFields
<1>3. /\ DOMAIN [r EXCEPT !.status = "off"] = BdunkFields
      /\ [r EXCEPT !.status = "off"].what = "52"
      /\ [r EXCEPT !.status = "off"].file = "none"
      /\ [r EXCEPT !.status = "off"].idx = 0
  BY <1>1 DEF BdunkFields
<1>4. QED
  BY <1>2, <1>3 DEF Off, What, r

\* BDUNK ends.
LEMMA QuitKeeps ==
  ASSUME Inv, Quit
  PROVE  Inv'
<1>1. /\ conn' = FALSE /\ toC' = <<>> /\ toB' = <<>> /\ c' = Off
      /\ phase' = phase /\ b' = b /\ wq' = wq /\ call' = call
  BY DEF Quit, disconnected, chip, simp
<1>2. Knows'
  BY <1>1, TurnedOff DEF Knows, HasSizes, Expects, NoTrap
<1>3. /\ WholePackets' /\ Pending'
      /\ Asking' => Asking
      /\ Has("info")' => Has("info")
      /\ Has("update")' => Has("update")
      /\ Calling' => Calling
  BY <1>1 DEF Inv, WholePackets, Pending, Asking, Has, Calling
<1>4. IsBdunk(c')
  BY <1>1, TurnedOff DEF IsBdunk
<1>5. /\ DOMAIN b' = ChipFields /\ b'.bufLen \in Nat /\ b'.off \in Nat /\ b'.size \in Nat
      /\ Queue(wq') /\ IsInjective(wq')
      /\ CallTyped'
  BY <1>1 DEF Inv, Typed, CallTyped
<1>6. QED
  BY <1>1, <1>2, <1>3, <1>4, <1>5, WithoutLink

\* BDUNK starts with another choice of images.
LEMMA LaunchKeeps ==
  ASSUME Inv, NEW what \in What, NEW n52 \in Sizes \cup {0}, NEW n91 \in Sizes \cup {0},
         NEW loads \in BOOLEAN, Launch(what, n52, n91, loads)
  PROVE  Inv'
<1>1. /\ c' = Launched(starts + 1, what, n52, n91, loads)
      /\ conn' = conn /\ toC' = toC /\ toB' = toB
      /\ phase' = phase /\ b' = b /\ wq' = wq /\ call' = call
  BY DEF Launch, chip, simp
<1>2. conn' = FALSE /\ toC' = <<>> /\ toB' = <<>>
  BY <1>1 DEF Launch, Inv, Linked
<1>3. /\ DOMAIN c' = BdunkFields /\ c'.what = what /\ c'.file = "none" /\ c'.idx = 0
      /\ c'.status = "on" /\ c'.op = "start" /\ c'.size52 = n52 /\ c'.size91 = n91
  BY <1>1, JustLaunched
<1>4. /\ what \in {"52", "both"} => n52 \in Sizes
      /\ what \in {"91", "both"} => n91 \in Sizes
  BY DEF Launch
<1>5. Knows'
  BY <1>3, <1>4 DEF Knows, HasSizes, Expects, NoTrap
<1>6. /\ WholePackets' /\ Pending'
      /\ Asking' => Asking
      /\ Has("info")' => Has("info")
      /\ Has("update")' => Has("update")
      /\ Calling' => Calling
  BY <1>1 DEF Inv, WholePackets, Pending, Asking, Has, Calling
<1>7. /\ DOMAIN b' = ChipFields /\ b'.bufLen \in Nat /\ b'.off \in Nat /\ b'.size \in Nat
      /\ Queue(wq') /\ IsInjective(wq')
      /\ CallTyped'
  BY <1>1 DEF Inv, Typed, CallTyped
<1>8. IsBdunk(c')
  BY <1>3 DEF IsBdunk
<1>9. QED
  BY <1>2, <1>3, <1>5, <1>6, <1>7, <1>8, WithoutLink

\* The statics after a reset.
LEMMA InitialStatics ==
  ASSUME b' = Statics
  PROVE  /\ DOMAIN b' = ChipFields /\ b'.bufLen = 0 /\ b'.off = 0 /\ b'.size = 0
         /\ WholePackets'
<1>1. DOMAIN b' = ChipFields /\ b'.bufLen = 0 /\ b'.off = 0 /\ b'.size = 0
  BY DEF Statics, ChipFields
<1>2. QED
  BY <1>1, PacketAssumption, BlockAssumption DEF WholePackets

\* The bchip restarts and forgets its statics.
LEMMA RebootKeeps ==
  ASSUME Inv, Reboot
  PROVE  Inv'
<1>1. /\ conn' = FALSE /\ toC' = <<>> /\ toB' = <<>> /\ c' = c
      /\ b' = Statics /\ phase' = "boot" /\ wq' = <<>> /\ call' = None
  BY DEF Reboot, disconnected
<1>2. ToSet(wq') = {} /\ Queue(wq') /\ IsInjective(wq')
  BY <1>1, NothingIn
<1>3. /\ Knows' /\ Pending' /\ ~Asking' /\ ~Has("info")' /\ ~Has("update")' /\ ~Calling'
      /\ CallTyped'
  BY <1>1, <1>2 DEF Inv, Knows, NoTrap, Pending, Asking, Has, Calling, CallTyped
<1>4. IsBdunk(c')
  BY <1>1 DEF Inv, Typed, CallTyped
<1>5. /\ DOMAIN b' = ChipFields /\ b'.bufLen \in Nat /\ b'.off \in Nat /\ b'.size \in Nat
      /\ WholePackets'
  BY <1>1, InitialStatics
<1>6. QED
  BY <1>1, <1>2, <1>3, <1>4, <1>5, WithoutLink

-----------------------------------------------------------------------------
(* What BDUNK answers *)

\* The packet has the bytes that are left, but no more than fit.
LEMMA Extracted ==
  ASSUME NEW d, d.idx \in Nat, FileSize(d) \in Nat, d.idx <= FileSize(d)
  PROVE  Len(extract(d)) = Smaller(Packet, FileSize(d) - d.idx)
<1> DEFINE n == Smaller(Packet, FileSize(d) - d.idx)
           f == [i \in 1..n |-> <<d.id, d.file, d.idx + i - 1>>]
           T == {f[i] : i \in 1..n}
<1>1. n \in Nat
  BY PacketAssumption DEF Smaller
<1>2. extract(d) = f
  BY PacketAssumption DEF extract, Smaller
<1> HIDE DEF n
<1>3. f \in [1..n -> T]
  OBVIOUS
<1>4. f \in Seq(T)
  <2>1. Seq(T) = UNION {[1..m -> T] : m \in Nat}
    BY SeqDef
  <2> HIDE DEF f, T
  <2>2. QED
    BY <1>1, <1>3, <2>1
<1>5. DOMAIN f = 1..n
  OBVIOUS
<1> HIDE DEF f, T
<1>6. DOMAIN f = 1..Len(f) /\ Len(f) \in Nat
  BY <1>4
<1>7. Len(f) = n
  BY <1>1, <1>5, <1>6
<1>8. QED
  BY <1>2, <1>7 DEF n

\* What logic needs, by the op code it answers.
Ready(d) ==
  /\ IsBdunk(d) /\ HasSizes(d) /\ d.status = "on"
  /\ d.op \in {"start", "info", "self"} \cup ToCentral
  /\ d.op = "get" => d.file # "none" /\ b.size = FileSize(d) /\ d.idx = Pos /\ Pos < b.size
  /\ d.op = "success" => b.off = 0 /\ b.bufLen = 0
  /\ d.op \in {"start", "devinf", "info", "selfstart"} =>
       d.idx = 0 /\ b.off = 0 /\ b.bufLen = 0
  /\ d.op \in {"info", "selfstart", "self"} => d.file # "none"

\* What it leaves: nothing, a packet the bchip can take, or the one trap.
Answered(r) ==
  /\ IsBdunk(r.c) /\ HasSizes(r.c)
  /\ \/ /\ r.c.status = "crashed"
        /\ r.c.what = "both" /\ ~r.c.loads /\ r.c.idx = 0
     \/ /\ r.c.status = "on" /\ Expects(r.c)
        /\ \E p : PacketOk(p)' /\ r.out \in {<<>>, <<p>>}

\* A packet that BDUNK writes reaches the queue only over a link.
LEMMA Written ==
  ASSUME NEW d, NEW p, NEW r, r = Write(d, p)
  PROVE  r.c = d /\ r.out \in {<<>>, <<p>>}
BY DEF Write, Result

\* A change of the object that leaves its sizes alone.
LEMMA SendInfoAnswers ==
  ASSUME NEW d, IsBdunk(d), HasSizes(d), d.status = "on", d.op = "info", d.file # "none",
         d.idx = 0, b.off = 0, b.bufLen = 0, b' = b,
         NEW r, r = SendInfo(d), c' = r.c
  PROVE  Answered(r)
<1> DEFINE p == Info(FileSize(d), d.what, d.id)
<1>1. r.c = d /\ r.out \in {<<>>, <<p>>}
  BY Written DEF SendInfo
<1>2. p.op = "info" /\ p.size = FileSize(d)
  BY DEF Info
<1> HIDE DEF p
<1>3. PacketOk(p)'
  BY <1>1, <1>2 DEF PacketOk, AtStart
<1>4. Expects(d)
  BY DEF Expects
<1>5. QED
  BY <1>1, <1>3, <1>4 DEF Answered

\* pre_logic chooses the image and sends its information, from the start.
LEMMA PreLogicAnswers ==
  ASSUME NEW d, Ready(d), d.op = "devinf", b' = b,
         NEW r, r = pre_logic(d), c' = r.c
  PROVE  Answered(r)
<1> DEFINE loaded == IF d.what \in Chip THEN Loaded(d, d.what)
                     ELSE IF d.loads THEN Loaded(d, "91") ELSE d
           avail == IF d.what = "52" THEN d.rec.avail91 ELSE d.rec.avail52
           e == [loaded EXCEPT !.op = "info"]
<1>1. r = IF loaded.file = "none" THEN Result(Trapped(d), <<>>)
          ELSE IF avail < FileSize(loaded) THEN Result(loaded, <<>>)
          ELSE SendInfo(e)
  BY DEF pre_logic
<1>2. /\ IsBdunk(loaded) /\ HasSizes(loaded)
      /\ loaded.status = "on" /\ loaded.op = "devinf" /\ loaded.idx = 0
      /\ loaded.file = "none" => loaded = d /\ d.what = "both" /\ ~d.loads
  BY DEF Ready, Loaded, IsBdunk, BdunkFields, HasSizes, Chip, What
<1> HIDE DEF loaded, avail
<1>3. CASE loaded.file = "none"
  <2> DEFINE t == [d EXCEPT !.status = "crashed"]
  <2>1. r = Result(t, <<>>)
    BY <1>1, <1>3 DEF Trapped
  <2>2. /\ IsBdunk(t) /\ t.status = "crashed" /\ t.what = "both" /\ ~t.loads /\ t.idx = 0
        /\ HasSizes(t)
    BY <1>2, <1>3 DEF IsBdunk, BdunkFields, HasSizes
  <2> HIDE DEF t
  <2>3. QED
    BY <2>1, <2>2 DEF Result, Answered
<1>4. CASE loaded.file # "none" /\ avail < FileSize(loaded)
  <2>1. r = Result(loaded, <<>>)
    BY <1>1, <1>4
  <2>2. Expects(loaded)
    BY <1>2 DEF Expects, ToCentral
  <2>3. PacketOk(Plain("empty"))'
    BY DEF PacketOk, Plain
  <2>4. QED
    BY <1>2, <2>1, <2>2, <2>3 DEF Result, Answered
<1>5. CASE loaded.file # "none" /\ ~(avail < FileSize(loaded))
  <2>1. r = SendInfo(e)
    BY <1>1, <1>5
  <2>2. /\ IsBdunk(e) /\ HasSizes(e) /\ e.status = "on" /\ e.op = "info" /\ e.file # "none"
        /\ e.idx = 0
    BY <1>2, <1>5 DEF IsBdunk, BdunkFields, HasSizes
  <2>3. b.off = 0 /\ b.bufLen = 0
    BY DEF Ready
  <2> HIDE DEF e
  <2>4. QED
    BY <2>1, <2>2, <2>3, SendInfoAnswers
<1>6. QED
  BY <1>3, <1>4, <1>5

\* The answer to each op code.
LEMMA LogicAnswers ==
  ASSUME NEW d, Ready(d), NEW yes \in BOOLEAN, b' = b,
         NEW r, r = logic(d, yes), c' = r.c,
         Inv
  PROVE  /\ Answered(r)
         /\ d.op \in {"cut", "self"} => r.c = d /\ r.out \in {<<>>, <<Plain("empty")>>}
<1> USE DEF ToCentral
<1>0. b.off \in Nat /\ b.bufLen \in Nat /\ b.size \in Nat
  BY DEF Inv, Typed, CallTyped
<1>1. CASE d.op = "start"
  <2> DEFINE e == [d EXCEPT !.updating = TRUE]
             p == Plain("start")
  <2>1. r = IF yes THEN Write(e, p) ELSE Result(d, <<>>)
    BY <1>1 DEF logic
  <2>2. /\ IsBdunk(e) /\ HasSizes(e) /\ Expects(e) /\ e.status = "on" /\ e.idx = 0
        /\ Expects(d) /\ IsBdunk(d) /\ HasSizes(d) /\ d.status = "on" /\ d.idx = 0
        /\ b.off = 0 /\ b.bufLen = 0
    BY <1>1 DEF Ready, IsBdunk, BdunkFields, HasSizes, Expects
  <2>3. p.op = "start"
    BY DEF Plain
  <2> HIDE DEF e, p
  <2>4. /\ r.c \in {d, e} /\ r.out \in {<<>>, <<p>>}
    BY <2>1, Written DEF Result
  <2>5. PacketOk(p)'
    BY <2>2, <2>3, <2>4 DEF PacketOk, AtStart
  <2>6. QED
    BY <1>1, <2>2, <2>4, <2>5 DEF Answered
<1>2. CASE d.op = "info"
  <2>1. r = SendInfo(d)
    BY <1>2 DEF logic
  <2>2. QED
    BY <1>2, <2>1, SendInfoAnswers DEF Ready
<1>3. CASE d.op = "get"
  <2> DEFINE e == [d EXCEPT !.idx = d.idx + Packet]
             p == Data(extract(d))
  <2>1. d.file # "none" /\ b.size = FileSize(d) /\ d.idx = Pos /\ Pos < b.size /\ IsBdunk(d)
    BY <1>3 DEF Ready
  <2>2. d.idx \in Nat /\ FileSize(d) > 0 /\ d.idx <= FileSize(d) /\ FileSize(d) \in Nat /\ Pos \in Nat
    BY <1>0, <2>1 DEF Pos
  <2>3. r = Write(e, p)
    BY <1>3, <2>2 DEF logic, Extractable
  <2>4. p.op = "data" /\ Len(p.bytes) = Smaller(Packet, b.size - Pos)
    BY <2>1, <2>2, Extracted DEF Data
  <2>5. /\ IsBdunk(e) /\ HasSizes(e) /\ Expects(e) /\ e.status = "on"
        /\ e.idx = Pos + Packet /\ e.file = d.file /\ FileSize(e) = FileSize(d)
    BY <1>3, <2>1, <2>2, PacketAssumption
    DEF Ready, IsBdunk, BdunkFields, HasSizes, Expects, FileSize
  <2> HIDE DEF e, p
  <2>6. r.c = e /\ r.out \in {<<>>, <<p>>}
    BY <2>3, Written
  <2>7. Pos' = Pos
    BY DEF Pos
  <2>8. PacketOk(p)'
    BY <2>1, <2>4, <2>5, <2>6, <2>7 DEF PacketOk, Matched
  <2>9. QED
    BY <1>3, <2>5, <2>6, <2>8 DEF Answered
<1>4. CASE d.op = "success"
  <2> DEFINE e1 == [d EXCEPT !.idx = 0, !.what = "52", !.op = "self", !.file = "52"]
             e2 == [d EXCEPT !.idx = 0, !.auto = FALSE]
             p == IF d.what = "both" THEN Plain("self") ELSE Plain("done")
             e == IF d.what = "both" THEN e1 ELSE e2
  <2>1. r = Write(e, p)
    BY <1>4 DEF logic, on_success, Loaded, Ready
  <2>2. /\ IsBdunk(e) /\ HasSizes(e) /\ Expects(e) /\ e.status = "on" /\ e.idx = 0
        /\ d.what = "both" => e.file = "52"
    <3>1. CASE d.what = "both"
      BY <1>4, <3>1 DEF Ready, IsBdunk, BdunkFields, HasSizes, Expects, What, Chip
    <3>2. CASE d.what # "both"
      BY <1>4, <3>2 DEF Ready, IsBdunk, BdunkFields, HasSizes, Expects, What, Chip
    <3>3. QED
      BY <3>1, <3>2
  <2>3. p.op \in {"self", "done"} /\ (p.op = "self" => d.what = "both")
    BY DEF Plain
  <2> HIDE DEF e, p
  <2>4. r.c = e /\ r.out \in {<<>>, <<p>>}
    BY <2>1, Written
  <2>5. AtStart'
    BY <1>4, <2>2, <2>4 DEF AtStart, Ready
  <2>6. PacketOk(p)'
    BY <2>2, <2>3, <2>4, <2>5 DEF PacketOk
  <2>7. QED
    BY <1>4, <2>2, <2>4, <2>6 DEF Answered
<1>5. CASE d.op = "selfstart"
  <2> DEFINE e == [d EXCEPT !.op = "info"]
  <2>1. r = SendInfo(e)
    BY <1>5 DEF logic
  <2>2. /\ IsBdunk(e) /\ HasSizes(e) /\ e.status = "on" /\ e.op = "info" /\ e.file # "none"
        /\ e.idx = 0 /\ b.off = 0 /\ b.bufLen = 0
    BY <1>5 DEF Ready, IsBdunk, BdunkFields, HasSizes
  <2> HIDE DEF e
  <2>3. QED
    BY <1>5, <2>1, <2>2, SendInfoAnswers
<1>6. CASE d.op = "devinf"
  <2>1. r = pre_logic(d)
    BY <1>6 DEF logic
  <2>2. QED
    BY <1>6, <2>1, PreLogicAnswers
<1>7. CASE d.op \in {"self", "cut"}
  <2> DEFINE p == Plain("empty")
  <2>1. r = Write(d, p)
    BY <1>7 DEF logic
  <2>2. p.op = "empty"
    BY DEF Plain
  <2>3. IsBdunk(d) /\ HasSizes(d) /\ Expects(d) /\ d.status = "on"
    BY <1>7 DEF Ready, Expects
  <2> HIDE DEF p
  <2>4. r.c = d /\ r.out \in {<<>>, <<p>>}
    BY <2>1, Written
  <2>5. PacketOk(p)'
    BY <2>2 DEF PacketOk
  <2>6. QED
    BY <2>3, <2>4, <2>5 DEF Answered, p
<1>8. QED
  BY <1>1, <1>2, <1>3, <1>4, <1>5, <1>6, <1>7 DEF Ready

\* BDUNK writes a packet, or none.
LEMMA PacketSent ==
  ASSUME Queue(toB), Lone(toB, "empty"), NEW p, NEW out \in {<<>>, <<p>>}, toB' = toB \o out,
         p.op = "empty" \/ \A q \in ToSet(toB) : q.op = "empty"
  PROVE  /\ Queue(toB') /\ Lone(toB', "empty")
         /\ \A q \in ToSet(toB') : q \in ToSet(toB) \/ q = p
<1>1. CASE out = <<>>
  <2>1. toB' = toB
    BY <1>1 DEF Queue
  <2>2. QED
    BY <2>1
<1>2. CASE out = <<p>>
  <2>1. toB \in Seq(ToSet(toB) \cup {p}) /\ p \in ToSet(toB) \cup {p}
    BY DEF Queue
  <2>2. toB' = Append(toB, p)
    <3> DEFINE T == ToSet(toB) \cup {p}
    <3> HIDE DEF T
    <3>1. \A s \in Seq(T), x \in T : s \o <<x>> = Append(s, x)
      OBVIOUS
    <3>2. QED
      BY <1>2, <2>1, <3>1 DEF T
  <2>3. QED
    BY <2>2, Added
<1>3. QED
  BY <1>1, <1>2

\* BDUNK has the turn, or there is no transfer, and answers.
LEMMA BdunkAnswers ==
  ASSUME Inv, NEW r, Answered(r), BdunkDoes(r),
         r.c.status # "crashed" =>
           /\ Queue(toC') /\ Lone(toC', "cut")
           /\ \A p \in ToSet(toC') : p.op = "cut"
           /\ \A p \in ToSet(toB) : p.op = "empty",
         ~Asking, ~Has("info"), ~Has("update"), ~Calling
  PROVE  Inv'
<1>1. /\ c' = r.c /\ b' = b /\ phase' = phase /\ wq' = wq /\ call' = call
      /\ IsBdunk(c') /\ HasSizes(c')
  BY DEF BdunkDoes, chip, simp, Answered
<1>2. /\ ~Asking' /\ ~Has("info")' /\ ~Has("update")' /\ ~Calling'
      /\ Pending' /\ WholePackets'
  BY <1>1 DEF Inv, Pending, WholePackets, Asking, Has, Calling
<1>3. /\ DOMAIN b' = ChipFields /\ b'.bufLen \in Nat /\ b'.off \in Nat /\ b'.size \in Nat
      /\ Queue(wq') /\ IsInjective(wq')
      /\ CallTyped'
  BY <1>1 DEF Inv, Typed, CallTyped
<1>4. CASE r.c.status = "crashed"
  <2>1. conn' = FALSE /\ toC' = <<>> /\ toB' = <<>>
    BY <1>4 DEF BdunkDoes, disconnected
  <2>2. Knows'
    BY <1>1, <1>4 DEF Answered, Knows, Expects, NoTrap
  <2>3. QED
    BY <1>1, <1>2, <1>3, <2>1, <2>2, WithoutLink
<1>5. CASE r.c.status # "crashed"
  <2>1. r.c.status = "on" /\ Expects(r.c) /\ conn' = TRUE /\ toB' = toB \o r.out
    BY <1>5 DEF BdunkDoes, connected, Answered
  <2>2. Knows' /\ Linked'
    BY <1>1, <2>1 DEF Knows, NoTrap, Linked
  <2>3. PICK p : PacketOk(p)' /\ r.out \in {<<>>, <<p>>}
    BY <1>5 DEF Answered
  <2>4. /\ Queue(toB') /\ Lone(toB', "empty")
        /\ \A q \in ToSet(toB') : q \in ToSet(toB) \/ q = p
    BY <1>5, <2>1, <2>3, PacketSent DEF Inv, Typed, CallTyped, Turn, OneTurn
  <2>5. Typed'
    BY <1>1, <1>3, <1>5, <2>4 DEF Typed
  <2>6. Only("packet")' /\ WorkOk'
    BY <1>2, <1>5 DEF Only, MacsTurn, WorkOk
  <2>7. \A q \in ToSet(toB') : q.op = "empty" \/ PacketOk(q)'
    BY <1>5, <2>3, <2>4
  <2>8. Turn'
    BY <1>5, <2>4, <2>6, <2>7, HandedOn DEF Place
  <2>9. QED
    BY <1>2, <2>2, <2>5, <2>8 DEF Inv
<1>6. QED
  BY <1>4, <1>5

\* A link is made only if both sides begin anew.
LEMMA ConnectKeeps ==
  ASSUME Inv, Timely, NEW yes \in BOOLEAN, Connect(yes)
  PROVE  Inv'
<1> DEFINE r == logic(c, yes)
<1>1. /\ c.status = "on" /\ c.auto /\ ~conn /\ phase = "ready" /\ Quiet /\ c.idx = 0
      /\ BdunkDoes(r) /\ (r.c.status = "crashed" \/ toC' = <<>>)
  BY DEF Connect, Timely
<1> HIDE DEF r
<1>2. b.off = 0 /\ b.bufLen = 0 /\ wq = <<>> /\ call = None
  BY <1>1 DEF Quiet, Idle
<1>3. toB = <<>>
  BY <1>1 DEF Inv, Linked
<1>4. ~Asking /\ ~Has("info") /\ ~Has("update") /\ ~Calling
  BY <1>1, <1>2, NothingIn DEF Asking, Has, Calling
<1>5. Ready(c)
  BY <1>1, <1>2 DEF Ready, Inv, Typed, CallTyped, Knows, Expects
<1>6. c' = r.c /\ b' = b
  BY <1>1 DEF BdunkDoes, chip
<1>7. Answered(r)
  BY <1>5, <1>6, LogicAnswers DEF r
<1>8. ToSet(toB) = {}
  BY <1>3, NothingIn
<1>9. toC' = <<>> => Queue(toC') /\ Lone(toC', "cut") /\ ToSet(toC') = {}
  BY NothingIn
<1>10. QED
  BY <1>1, <1>4, <1>7, <1>8, <1>9, BdunkAnswers

\* BDUNK answers a notification: the turn goes to the bchip.
LEMMA DidUpdateValueForKeeps ==
  ASSUME Inv, didUpdateValueFor
  PROVE  Inv'
<1> DEFINE p == Head(toC)
           d == [c EXCEPT !.op = p.op, !.rec = IF p.op = "devinf" THEN p ELSE c.rec]
           r == logic(d, TRUE)
<1>1. toC # <<>> /\ BdunkDoes(r) /\ (r.c.status = "crashed" \/ toC' = Tail(toC))
  BY DEF didUpdateValueFor, Notified
<1>2. conn /\ c.status = "on"
  BY <1>1 DEF Inv, Linked
<1>3. /\ p \in ToSet(toC) /\ Queue(Tail(toC)) /\ ToSet(Tail(toC)) \subseteq ToSet(toC)
      /\ Lone(Tail(toC), "cut")
      /\ p.op # "cut" => \A q \in ToSet(Tail(toC)) : q.op = "cut"
  BY <1>1, TakenOff DEF Inv, Typed, CallTyped, Turn, OneTurn
<1>4. NoticeOk(p)
  BY <1>3 DEF Inv, Turn, InStep
<1> HIDE DEF p
<1>5. /\ IsBdunk(d) /\ d.status = "on" /\ d.op = p.op /\ d.idx = c.idx /\ d.file = c.file
      /\ HasSizes(d) /\ FileSize(d) = FileSize(c) /\ d.size52 = c.size52 /\ d.size91 = c.size91
  BY <1>2 DEF Inv, Typed, CallTyped, IsBdunk, BdunkFields, Knows, HasSizes, FileSize
<1> HIDE DEF d
<1>6. Ready(d)
  BY <1>4, <1>5 DEF Ready, NoticeOk, ToCentral, Abreast, Matched, AtStart
<1> HIDE DEF r
<1>7. c' = r.c /\ b' = b /\ phase' = phase /\ wq' = wq /\ call' = call
  BY <1>1 DEF BdunkDoes, chip, simp
<1>8. /\ Answered(r)
      /\ p.op = "cut" => r.c = d /\ r.out \in {<<>>, <<Plain("empty")>>}
  <2>1. r = logic(d, TRUE) /\ TRUE \in BOOLEAN
    BY DEF r
  <2>2. /\ Answered(r)
        /\ d.op \in {"cut", "self"} => r.c = d /\ r.out \in {<<>>, <<Plain("empty")>>}
    BY <1>6, <1>7, <2>1, LogicAnswers
  <2>3. QED
    BY <1>5, <2>2
<1>9. CASE p.op # "cut"
  <2>1. MacsTurn
    BY <1>3, <1>9 DEF MacsTurn
  <2>2. Only("mac")
    BY <2>1, TurnOf DEF Inv, Turn
  <2>3. /\ ~Asking /\ ~Has("info") /\ ~Has("update") /\ ~Calling
        /\ \A q \in ToSet(toB) : q.op = "empty"
    BY <2>2 DEF Only, PacketsTurn
  <2>4. QED
    BY <1>1, <1>3, <1>8, <1>9, <2>3, BdunkAnswers
<1>10. CASE p.op = "cut"
  <2> DEFINE e == Plain("empty")
  <2>1. e.op = "empty"
    BY DEF Plain
  <2> HIDE DEF e
  <2>2. /\ r.c = d /\ r.out \in {<<>>, <<e>>} /\ toC' = Tail(toC)
        /\ conn' = TRUE /\ toB' = toB \o r.out
    BY <1>1, <1>5, <1>8, <1>10 DEF BdunkDoes, connected, e
  <2>3. /\ Queue(toB') /\ Lone(toB', "empty")
        /\ \A q \in ToSet(toB') : q \in ToSet(toB) \/ q = e
    BY <2>1, <2>2, PacketSent DEF Inv, Typed, CallTyped, Turn, OneTurn
  <2>4. Expects(d)
    BY <1>5, <1>10 DEF Expects, ToCentral
  <2>5. Typed' /\ Linked' /\ Knows' /\ Pending' /\ WholePackets'
    BY <1>3, <1>5, <1>7, <2>2, <2>3, <2>4
    DEF Inv, Typed, CallTyped, Linked, Knows, NoTrap, Pending, WholePackets, Has
  <2>6. SamePlace
    BY <1>5, <1>7, <2>2 DEF SamePlace
  <2>7. /\ Asking' => Asking
        /\ Has("info")' => Has("info")
        /\ Has("update")' => Has("update")
        /\ Calling' => Calling /\ call'.op = call.op
    BY <1>7 DEF Asking, Has, Calling
  <2>8. Turn'
    BY <1>2, <1>3, <2>1, <2>2, <2>3, <2>6, <2>7, Unmoved DEF Inv
  <2>9. QED
    BY <2>5, <2>8 DEF Inv
<1>11. QED
  BY <1>9, <1>10

-----------------------------------------------------------------------------
(* The work queue and the timer *)

\* The image that both sides agree about is not empty.
LEMMA NotEmpty ==
  ASSUME Inv, conn, Matched
  PROVE  b.size \in Nat \ {0} /\ b.off \in Nat /\ b.bufLen \in Nat
<1>1. c.file \in Chip /\ c.status = "on" /\ b.size = FileSize(c)
  BY DEF Inv, Typed, IsBdunk, Linked, Matched
<1>2. b.size \in Sizes
  BY <1>1 DEF Inv, Knows, HasSizes, FileSize, Chip
<1>3. QED
  BY <1>2, ImageAssumption DEF Inv, Typed

\* The turn is given to BDUNK by a notification; or it is lost with it.
LEMMA GivenToMac ==
  ASSUME Inv, c' = c, conn' = conn, toB' = toB,
         NEW p, toC' = Sent(p) \/ toC' = toC, conn => NoticeOk(p)',
         DOMAIN b' = ChipFields, b'.bufLen \in Nat, b'.off \in Nat, b'.size \in Nat,
         WholePackets',
         Queue(wq'), IsInjective(wq'), CallTyped', Pending',
         ~MacsTurn, ~PacketsTurn,
         ~Asking', ~Has("info")', ~Has("update")', ~Calling'
  PROVE  Inv'
<1>1. /\ Queue(toC') /\ Lone(toC', "cut")
      /\ \A q \in ToSet(toC') : q \in ToSet(toC) \/ q = p
      /\ ~conn => toC' = <<>>
  BY Noticed DEF Inv, Turn
<1>2. Typed' /\ Linked' /\ Knows'
  BY <1>1 DEF Inv, Typed, Linked, Knows, NoTrap
<1>3. Lone(toB', "empty") /\ \A q \in ToSet(toB') : q.op = "empty"
  BY DEF Inv, Turn, OneTurn, PacketsTurn
<1>4. Only("mac")' /\ WorkOk'
  BY <1>3 DEF Only, PacketsTurn, WorkOk
<1>5. \A q \in ToSet(toC') : q.op = "cut" \/ NoticeOk(q)'
  <2>1. CASE conn
    BY <1>1, <2>1 DEF MacsTurn
  <2>2. CASE ~conn
    BY <1>1, <2>2, NothingIn
  <2>3. QED
    BY <2>1, <2>2
<1>6. Turn'
  BY <1>1, <1>3, <1>4, <1>5, HandedOn DEF Place
<1>7. QED
  BY <1>2, <1>6 DEF Inv

\* The work queue asks for the first packet, or for nothing.
LEMMA AsksFirst ==
  ASSUME Inv, UNCHANGED link, b' = b, Queue(wq'), IsInjective(wq'), CallTyped', Pending',
         ~MacsTurn, ~PacketsTurn, ~Has("info")', ~Has("update")', ~Calling',
         conn => Matched /\ AtStart
  PROVE  Inv'
<1>1. c' = c /\ conn' = conn /\ toC' = toC /\ toB' = toB
  BY DEF link
<1>2. Typed' /\ Linked' /\ Knows' /\ WholePackets'
  BY <1>1 DEF Inv, Typed, Linked, Knows, NoTrap, WholePackets
<1>3. conn => Abreast'
  <2> SUFFICES ASSUME conn PROVE Abreast'
    OBVIOUS
  <2>1. b.size > 0 /\ Matched /\ c.idx = 0 /\ Pos = 0
    BY NotEmpty DEF AtStart, Pos
  <2>2. QED
    BY <1>1, <2>1 DEF Abreast, Matched, Pos
<1>4. Only("asking")' /\ WorkOk'
  BY <1>1, <1>3 DEF Only, WorkOk, MacsTurn, PacketsTurn
<1>5. /\ \A q \in ToSet(toC') : q.op = "cut"
      /\ \A q \in ToSet(toB') : q.op = "empty"
      /\ Lone(toC', "cut") /\ Lone(toB', "empty")
  BY <1>1 DEF Inv, Turn, OneTurn, MacsTurn, PacketsTurn
<1>6. Turn'
  BY <1>4, <1>5, HandedOn DEF Place
<1>7. QED
  BY <1>2, <1>6 DEF Inv

\* The bchip asks for the first packet of its own image.
LEMMA SelfInfoKeeps ==
  ASSUME Inv, wk_self_info_handler
  PROVE  Inv'
<1>1. /\ Wk("info") /\ wq' = Tail(wq) /\ UNCHANGED link /\ b' = b /\ call' = call
  BY DEF wk_self_info_handler, Wk, link, simp
<1>2. Has("info") /\ Queue(wq') /\ IsInjective(wq') /\ ToSet(wq') = ToSet(wq) \ {"info"}
  BY <1>1, Ran DEF Inv
<1>3. /\ ~MacsTurn /\ ~PacketsTurn /\ ~Has("update") /\ ~Calling
  BY <1>2, TurnOf DEF Inv, Turn, Only
<1>4. ~Has("info")' /\ ~Has("update")' /\ ~Calling' /\ Pending' /\ CallTyped'
  BY <1>1, <1>2, <1>3 DEF Has, Calling, Inv, Pending, Typed, CallTyped
<1>5. conn => Matched /\ AtStart
  BY <1>2 DEF Inv, Turn, InStep, WorkOk
<1>6. QED
  BY <1>1, <1>2, <1>3, <1>4, <1>5, AsksFirst

\* It changes the parameters of the link and asks.
LEMMA BluetoothParamsKeep ==
  ASSUME Inv, update_bluetooth_params
  PROVE  Inv'
<1>1. /\ c' = c /\ conn' = conn /\ toB' = toB /\ b' = b /\ wq' = wq /\ call' = call
      /\ phase' = "ready"
  BY DEF update_bluetooth_params, simp
<1>2. ~Asking' /\ Pending' /\ CallTyped' /\ WholePackets'
  BY <1>1 DEF Asking, Inv, Pending, Has, Typed, CallTyped, WholePackets
<1>3. CASE phase = "asking"
  <2>1. ~MacsTurn /\ ~PacketsTurn /\ ~Has("info") /\ ~Has("update") /\ ~Calling
    BY <1>3, TurnOf DEF Inv, Turn, Only, Asking
  <2>2. ~Has("info")' /\ ~Has("update")' /\ ~Calling'
    BY <1>1, <2>1 DEF Has, Calling
  <2> DEFINE p == Plain("get")
  <2>3. p.op = "get" /\ (toC' = Sent(p) \/ toC' = toC)
    BY <1>3 DEF Plain, Notify, update_bluetooth_params
  <2> HIDE DEF p
  <2>4. conn => NoticeOk(p)'
    BY <1>1, <1>3, <2>3
    DEF Inv, Turn, InStep, WorkOk, Asking, NoticeOk, ToCentral, Abreast, Matched, Pos
  <2>5. /\ DOMAIN b' = ChipFields /\ b'.bufLen \in Nat /\ b'.off \in Nat /\ b'.size \in Nat
        /\ Queue(wq') /\ IsInjective(wq')
    BY <1>1 DEF Inv, Typed
  <2>6. QED
    BY <1>1, <1>2, <2>1, <2>2, <2>3, <2>4, <2>5, GivenToMac
<1>4. CASE phase # "asking"
  <2>1. UNCHANGED link
    BY <1>1, <1>4 DEF update_bluetooth_params, link
  <2>2. /\ Has("info")' => Has("info")
        /\ Has("update")' => Has("update")
        /\ Calling' => Calling /\ call'.op = call.op
    BY <1>1 DEF Has, Calling
  <2>3. QED
    BY <1>1, <1>2, <2>1, <2>2, Quietly DEF Inv, Typed
<1>5. QED
  BY <1>3, <1>4

\* It writes a block of its own image and asks for more, or tells the end.
LEMMA SelfUpdateKeeps ==
  ASSUME Inv, wk_self_update_handler
  PROVE  Inv'
<1>1. /\ Wk("update") /\ c' = c /\ conn' = conn /\ toB' = toB /\ phase' = phase /\ call' = call
  BY DEF wk_self_update_handler, Wk, simp
<1>2. /\ Has("update") /\ ~Asking
      /\ wq' = Tail(wq) =>
           Queue(wq') /\ IsInjective(wq') /\ ToSet(wq') = ToSet(wq) \ {"update"}
      /\ SubmitNext("flag") =>
           /\ Queue(wq') /\ IsInjective(wq')
           /\ ToSet(wq') = (ToSet(wq) \ {"update"}) \cup {"flag"}
  BY <1>1, Ran DEF Inv
<1>3. ~MacsTurn /\ ~PacketsTurn /\ ~Has("info") /\ ~Calling
  BY <1>2, TurnOf DEF Inv, Turn, Only
<1>4. conn => BlockHanded
  BY <1>2 DEF Inv, Turn, InStep, WorkOk
<1>5. ~Asking' /\ ~Calling' /\ CallTyped'
  BY <1>1, <1>2, <1>3 DEF Asking, Calling, Inv, Typed, CallTyped
<1>6. CASE b.off = b.size /\ Notify(Plain("success")) /\ dfu_file_ready(0)
  <2> DEFINE p == Plain("success")
  <2>1. p.op = "success" /\ (toC' = Sent(p) \/ toC' = toC)
    BY <1>6 DEF Plain, Notify
  <2> HIDE DEF p
  <2>2. /\ Queue(wq') /\ IsInjective(wq')
        /\ ToSet(wq') = (ToSet(wq) \ {"update"}) \cup {"flag"}
    BY <1>2, <1>6 DEF dfu_file_ready
  <2>3. DOMAIN b' = ChipFields /\ b'.bufLen = b.bufLen /\ b'.off = 0 /\ b'.size = b.size
    BY <1>6 DEF dfu_file_ready, Inv, Typed, ChipFields
  <2>4. conn => NoticeOk(p)'
    BY <1>4, <2>1, <2>3 DEF BlockHanded, NoticeOk, ToCentral
  <2>5. ~Has("info")' /\ ~Has("update")' /\ Pending' /\ WholePackets'
    BY <1>1, <1>3, <2>2, <2>3 DEF Has, Inv, Pending, WholePackets
  <2>6. b'.bufLen \in Nat /\ b'.off \in Nat /\ b'.size \in Nat
    BY <2>3 DEF Inv, Typed
  <2>7. QED
    BY <1>1, <1>3, <1>5, <2>1, <2>2, <2>3, <2>4, <2>5, <2>6, GivenToMac
<1>7. CASE b.off # b.size /\ Notify(Plain("get")) /\ wq' = Tail(wq) /\ b' = b
  <2> DEFINE p == Plain("get")
  <2>1. p.op = "get" /\ (toC' = Sent(p) \/ toC' = toC)
    BY <1>7 DEF Plain, Notify
  <2> HIDE DEF p
  <2>2. conn => NoticeOk(p)'
    <3> SUFFICES ASSUME conn PROVE NoticeOk(p)'
      OBVIOUS
    <3>1. Matched /\ b.off < b.size /\ c.idx = Pos /\ Pos < b.size
      BY <1>4, <1>7, NotEmpty DEF BlockHanded, Pos
    <3>2. QED
      BY <1>1, <1>7, <2>1, <3>1 DEF NoticeOk, ToCentral, Abreast, Matched, Pos
  <2>3. ~Has("info")' /\ ~Has("update")' /\ Pending' /\ WholePackets'
    BY <1>1, <1>2, <1>3, <1>7 DEF Has, Inv, Pending, WholePackets
  <2>4. DOMAIN b' = ChipFields /\ b'.bufLen \in Nat /\ b'.off \in Nat /\ b'.size \in Nat
    BY <1>7 DEF Inv, Typed
  <2>5. Queue(wq') /\ IsInjective(wq')
    BY <1>2, <1>7
  <2>6. QED
    BY <1>1, <1>3, <1>5, <2>1, <2>2, <2>3, <2>4, <2>5, GivenToMac
<1>8. CASE wq' = Tail(wq) /\ b' = b /\ toC' = toC
  <2>1. Queue(wq') /\ IsInjective(wq') /\ ToSet(wq') = ToSet(wq) \ {"update"}
    BY <1>2, <1>8
  <2>2. /\ Pending'
        /\ Has("info")' => Has("info")
        /\ Has("update")' => Has("update")
    BY <1>1, <2>1 DEF Inv, Pending, Has
  <2>3. UNCHANGED link
    BY <1>1, <1>8 DEF link
  <2>4. QED
    BY <1>5, <1>8, <2>1, <2>2, <2>3, Quietly DEF Inv, Typed
<1>9. QED
  BY <1>6, <1>7, <1>8 DEF wk_self_update_handler

\* It sets the mcuboot flag.
LEMMA FlagKeeps ==
  ASSUME Inv, wk_update_mcuboot_flag_handler
  PROVE  Inv'
<1>1. /\ Wk("flag") /\ wq' = Tail(wq) /\ c' = c /\ conn' = conn /\ toB' = toB /\ b' = b
      /\ call' = call /\ phase' = "cutting"
  BY DEF wk_update_mcuboot_flag_handler, Wk, simp
<1>2. Queue(wq') /\ IsInjective(wq') /\ ToSet(wq') = ToSet(wq) \ {"flag"}
  BY <1>1, Ran DEF Inv
<1> DEFINE p == Plain("cut")
<1>3. p.op = "cut" /\ (toC' = Sent(p) \/ toC' = toC)
  BY DEF Plain, Notify, wk_update_mcuboot_flag_handler
<1> HIDE DEF p
<1>4. /\ Queue(toC') /\ Lone(toC', "cut")
      /\ \A q \in ToSet(toC') : q \in ToSet(toC) \/ q = p
      /\ ~conn => toC' = <<>>
  BY <1>3, Noticed DEF Inv, Turn
<1>5. Typed' /\ Linked' /\ Knows' /\ Pending' /\ WholePackets'
  BY <1>1, <1>2, <1>4
  DEF Inv, Typed, CallTyped, Linked, Knows, NoTrap, Pending, WholePackets, Has
<1>6. /\ SamePlace /\ Lone(toB', "empty")
      /\ Asking' => Asking
      /\ Has("info")' => Has("info")
      /\ Has("update")' => Has("update")
      /\ Calling' => Calling /\ call'.op = call.op
  BY <1>1, <1>2 DEF SamePlace, Inv, Turn, OneTurn, Asking, Has, Calling
<1>7. Turn'
  BY <1>1, <1>3, <1>4, <1>6, Unmoved DEF Inv
<1>8. QED
  BY <1>5, <1>7 DEF Inv

\* The ichip has written a block, or not: nobody looks.  The next packet is asked
\* for, or the end told.
LEMMA BlockWritten ==
  ASSUME Inv, c' = c, conn' = conn, toB' = toB, phase' = phase,
         Calling, call.op = "write",
         IF b.off = b.size
         THEN /\ b' = [b EXCEPT !.off = 0]
              /\ toC' = Sent(Plain("success")) \/ toC' = toC
         ELSE /\ DOMAIN b' = ChipFields
              /\ b'.bufLen = b.bufLen /\ b'.off = b.off /\ b'.size = b.size
              /\ \/ b.off > 0 /\ (toC' = Sent(Plain("get")) \/ toC' = toC)
                 \/ ~(b.off > 0) /\ toC' = toC,
         Queue(wq'), IsInjective(wq'), ToSet(wq') \subseteq ToSet(wq),
         CallTyped', Pending', ~Calling'
  PROVE  Inv'
<1>1. ~MacsTurn /\ ~PacketsTurn /\ ~Asking' /\ ~Has("info")' /\ ~Has("update")'
  BY TurnOf DEF Inv, Turn, Only, Asking, Has
<1>2. conn => BlockHanded
  BY DEF Inv, Turn, InStep, WorkOk
<1>3. CASE b.off = b.size
  <2> DEFINE p == Plain("success")
  <2>1. p.op = "success" /\ (toC' = Sent(p) \/ toC' = toC)
    BY <1>3 DEF Plain
  <2> HIDE DEF p
  <2>2. DOMAIN b' = ChipFields /\ b'.bufLen = b.bufLen /\ b'.off = 0 /\ b'.size = b.size
    BY <1>3 DEF Inv, Typed, ChipFields
  <2>3. conn => NoticeOk(p)'
    BY <1>2, <2>1, <2>2 DEF BlockHanded, NoticeOk, ToCentral
  <2>4. WholePackets' /\ b'.bufLen \in Nat /\ b'.off \in Nat /\ b'.size \in Nat
    BY <2>2 DEF Inv, WholePackets, Typed
  <2>5. QED
    BY <1>1, <2>1, <2>2, <2>3, <2>4, GivenToMac
<1>4. CASE b.off # b.size
  <2> DEFINE p == Plain("get")
  <2>1. /\ p.op = "get" /\ (toC' = Sent(p) \/ toC' = toC)
        /\ DOMAIN b' = ChipFields
        /\ b'.bufLen = b.bufLen /\ b'.off = b.off /\ b'.size = b.size
    BY <1>4 DEF Plain
  <2> HIDE DEF p
  <2>2. conn => NoticeOk(p)'
    <3> SUFFICES ASSUME conn PROVE NoticeOk(p)'
      OBVIOUS
    <3>1. Matched /\ b.off < b.size /\ c.idx = Pos /\ Pos < b.size
      BY <1>2, <1>4, NotEmpty DEF BlockHanded, Pos
    <3>2. QED
      BY <2>1, <3>1 DEF NoticeOk, ToCentral, Abreast, Matched, Pos
  <2>3. /\ WholePackets' /\ DOMAIN b' = ChipFields
        /\ b'.bufLen \in Nat /\ b'.off \in Nat /\ b'.size \in Nat
    BY <2>1 DEF Inv, WholePackets, Typed
  <2>4. QED
    BY <1>1, <2>1, <2>2, <2>3, GivenToMac
<1>5. QED
  BY <1>3, <1>4

\* The device information of the ichip has come, or what is taken for it.
LEMMA DevInfGiven ==
  ASSUME Inv, c' = c, conn' = conn, toB' = toB, phase' = phase,
         Calling, call.op = "devinf",
         NEW n \in Garbage, b' = [b EXCEPT !.avail91 = n],
         toC' = Sent(DevInf(n, b.avail52)) \/ toC' = toC,
         Queue(wq'), IsInjective(wq'), ToSet(wq') \subseteq ToSet(wq),
         call' = None, Pending'
  PROVE  Inv'
<1>1. ~MacsTurn /\ ~PacketsTurn /\ ~Asking' /\ ~Has("info")' /\ ~Has("update")'
  BY TurnOf DEF Inv, Turn, Only, Asking, Has
<1>2. ~Calling' /\ CallTyped'
  BY DEF Calling, CallTyped
<1>3. /\ DOMAIN b' = ChipFields
      /\ b'.bufLen = b.bufLen /\ b'.off = b.off /\ b'.size = b.size
  BY DEF Inv, Typed, ChipFields
<1>4. conn => AtStart'
  BY <1>3 DEF Inv, Turn, InStep, WorkOk, AtStart
<1>5. PICK p : p = DevInf(n, b.avail52)
  OBVIOUS
<1>6. conn => NoticeOk(p)'
  BY <1>4, <1>5 DEF NoticeOk, ToCentral, DevInf
<1>7. WholePackets' /\ b'.bufLen \in Nat /\ b'.off \in Nat /\ b'.size \in Nat
  BY <1>3 DEF Inv, WholePackets, Typed
<1>8. toC' = Sent(p) \/ toC' = toC
  BY <1>5
<1>9. QED
  BY <1>1, <1>2, <1>3, <1>6, <1>7, <1>8, GivenToMac

\* The response callbacks: each hands the turn to BDUNK.
LEMMA ProcRspKeeps ==
  ASSUME Inv, wk_proc_rsp_handler
  PROVE  Inv'
<1>1. /\ Wk("rsp") /\ wq' = Tail(wq) /\ c' = c /\ conn' = conn /\ toB' = toB
  BY DEF wk_proc_rsp_handler, Wk
<1>2. /\ Has("rsp") /\ ~Asking
      /\ Queue(wq') /\ IsInjective(wq') /\ ToSet(wq') = ToSet(wq) \ {"rsp"}
  BY <1>1, Ran DEF Inv
<1>3. call # None /\ Pending'
  BY <1>2 DEF Inv, Pending, Has
<1>4. CASE rsp_cb_flash_erase
  <2>1. Calling /\ call.op = "erase" /\ call' = None /\ b' = b /\ toC' = toC
    BY <1>3, <1>4 DEF rsp_cb_flash_erase, Calling
  <2>2. ~MacsTurn /\ ~PacketsTurn /\ ~Has("info")' /\ ~Has("update")'
    BY <1>2, <2>1, TurnOf DEF Inv, Turn, Only, Has
  <2>3. ~Calling' /\ CallTyped' /\ UNCHANGED link
    BY <1>1, <2>1 DEF Calling, CallTyped, link
  <2>4. conn => Matched /\ AtStart
    BY <2>1 DEF Inv, Turn, InStep, WorkOk
  <2>5. QED
    BY <1>2, <1>3, <2>1, <2>2, <2>3, <2>4, AsksFirst
<1>5. CASE rsp_cb_flash_write
  <2>1. Calling /\ call.op = "write" /\ phase' = phase
    BY <1>3, <1>5 DEF rsp_cb_flash_write, Calling
  <2>2. IF b.off = b.size
        THEN /\ b' = [b EXCEPT !.off = 0]
             /\ toC' = Sent(Plain("success")) \/ toC' = toC
             /\ call' \in {None, Ask("done", 0, <<>>)}
        ELSE /\ b' = b /\ call' = None
             /\ DOMAIN b = ChipFields
             /\ \/ b.off > 0 /\ (toC' = Sent(Plain("get")) \/ toC' = toC)
                \/ ~(b.off > 0) /\ toC' = toC
    BY <1>5 DEF rsp_cb_flash_write, Notify, Inv, Typed
  <2>3. CallTyped' /\ ~Calling'
    BY <2>2 DEF CallTyped, Calling, Ask, RequestOp
  <2>4. QED
    BY <1>1, <1>2, <1>3, <2>1, <2>2, <2>3, BlockWritten
<1>6. CASE rsp_cb_flash_done
  <2>1. call' = None /\ UNCHANGED link /\ b' = b /\ phase' = phase
    BY <1>1, <1>6 DEF rsp_cb_flash_done, link
  <2>2. /\ ~Calling' /\ CallTyped'
        /\ Asking' => Asking
        /\ Has("info")' => Has("info")
        /\ Has("update")' => Has("update")
    BY <1>2, <2>1 DEF Calling, CallTyped, Asking, Has
  <2>3. QED
    BY <1>2, <1>3, <2>1, <2>2, Quietly DEF Inv, Typed
<1>7. CASE rsp_dev_fwinfo91
  <2>1. Calling /\ call.op = "devinf" /\ phase' = phase /\ call' = None
    BY <1>3, <1>7 DEF rsp_dev_fwinfo91, Calling
  <2>2. PICK n \in Garbage : b' = [b EXCEPT !.avail91 = n] /\ Notify(DevInf(n, b.avail52))
    BY <1>7 DEF rsp_dev_fwinfo91
  <2>3. toC' = Sent(DevInf(n, b.avail52)) \/ toC' = toC
    BY <2>2 DEF Notify
  <2>4. QED
    BY <1>1, <1>2, <1>3, <2>1, <2>2, <2>3, DevInfGiven
<1>8. QED
  BY <1>4, <1>5, <1>6, <1>7 DEF wk_proc_rsp_handler

\* The same callbacks when the timer gave up waiting.
LEMMA TimeoutKeeps ==
  ASSUME Inv, tmr_rsp_timeout_handler
  PROVE  Inv'
<1>1. /\ c' = c /\ conn' = conn /\ toB' = toB /\ wq' = wq
      /\ call # None /\ call' = None /\ ~Has("rsp")
  BY DEF tmr_rsp_timeout_handler, Has
<1>2. /\ Queue(wq') /\ IsInjective(wq') /\ Pending' /\ ~Calling' /\ CallTyped'
      /\ Has("info")' => Has("info")
      /\ Has("update")' => Has("update")
  BY <1>1 DEF Inv, Typed, Pending, Has, Calling, CallTyped
<1>3. call.op \in RequestOp
  BY <1>1 DEF Inv, Typed, CallTyped
<1>4. CASE call.op = "erase"
  <2>1. phase' \in {phase, "halted"} /\ UNCHANGED <<toC, b>>
    BY <1>4 DEF tmr_rsp_timeout_handler
  <2>2. (Asking' => Asking) /\ UNCHANGED link
    BY <1>1, <2>1 DEF Asking, link
  <2>3. QED
    BY <1>2, <2>1, <2>2, Quietly DEF Inv, Typed
<1>5. CASE call.op = "write"
  <2>1. /\ toC' = IF b.off = b.size THEN Sent(Plain("success"))
                  ELSE IF b.off > 0 THEN Sent(Plain("get")) ELSE toC
        /\ b' = [b EXCEPT !.off = IF b.off = b.size THEN 0 ELSE b.off]
        /\ phase' = phase
    BY <1>5 DEF tmr_rsp_timeout_handler
  <2>2. Calling
    BY <1>1, <1>5 DEF Calling
  <2>3. b.off # b.size =>
          /\ DOMAIN b' = ChipFields
          /\ b'.bufLen = b.bufLen /\ b'.off = b.off /\ b'.size = b.size
    BY <2>1 DEF Inv, Typed, ChipFields
  <2>4. QED
    BY <1>1, <1>2, <1>5, <2>1, <2>2, <2>3, BlockWritten
<1>6. CASE call.op = "done"
  <2>1. UNCHANGED <<toC, b, phase>>
    BY <1>6 DEF tmr_rsp_timeout_handler
  <2>2. (Asking' => Asking) /\ UNCHANGED link
    BY <1>1, <2>1 DEF Asking, link
  <2>3. QED
    BY <1>2, <2>1, <2>2, Quietly DEF Inv, Typed
<1>7. CASE call.op = "devinf"
  <2>1. /\ \E n \in Garbage : b' = [b EXCEPT !.avail91 = n] /\ toC' = Sent(DevInf(n, b.avail52))
        /\ phase' = phase
    BY <1>7 DEF tmr_rsp_timeout_handler
  <2>2. PICK n \in Garbage : b' = [b EXCEPT !.avail91 = n] /\ toC' = Sent(DevInf(n, b.avail52))
    BY <2>1
  <2>3. Calling
    BY <1>1, <1>7 DEF Calling
  <2>4. QED
    BY <1>1, <1>2, <1>7, <2>1, <2>2, <2>3, DevInfGiven
<1>8. QED
  BY <1>3, <1>4, <1>5, <1>6, <1>7 DEF RequestOp

-----------------------------------------------------------------------------
(* The theorems *)

\* Nobody has a turn at the start.
LEMMA InitSafe == Init => Inv
<1> SUFFICES ASSUME Init PROVE Inv
  OBVIOUS
<1>1. /\ c = Off /\ conn = FALSE /\ toC = <<>> /\ toB = <<>> /\ b = Statics /\ phase = "boot"
      /\ wq = <<>> /\ call = None
  BY DEF Init
<1>2. /\ ToSet(toC) = {} /\ Queue(toC) /\ Lone(toC, "cut")
      /\ ToSet(toB) = {} /\ Queue(toB) /\ Lone(toB, "empty")
      /\ ToSet(wq) = {} /\ Queue(wq) /\ IsInjective(wq)
  BY <1>1, NothingIn
<1>3. DOMAIN b = ChipFields /\ b.bufLen = 0 /\ b.off = 0 /\ b.size = 0
  BY <1>1 DEF Statics, ChipFields
<1>4. Typed
  BY <1>1, <1>2, <1>3, TurnedOff DEF Typed, IsBdunk, CallTyped
<1>5. Linked /\ Knows /\ Pending
  BY <1>1, <1>2, TurnedOff DEF Linked, Knows, HasSizes, Expects, NoTrap, Pending, Has
<1>6. WholePackets
  BY <1>3, PacketAssumption, BlockAssumption DEF WholePackets
<1>7. Only("mac")
  BY <1>1, <1>2 DEF Only, MacsTurn, PacketsTurn, Asking, Has, Calling
<1>8. Turn
  BY <1>1, <1>2, <1>7 DEF Turn, OneTurn, Place, InStep, WorkOk
<1>9. QED
  BY <1>4, <1>5, <1>6, <1>8 DEF Inv

\* Every step keeps the invariant.
LEMMA StepSafe == Timely /\ Inv /\ [Next]_vars => Inv'
<1> SUFFICES ASSUME Timely, Inv, [Next]_vars PROVE Inv'
  OBVIOUS
<1>1. CASE BluetoothThread
  <2>1. ~RxStale
    BY DEF Timely, RxStale, Strike
  <2>2. QED
    BY <1>1, <2>1, RxStartKeeps, RxInfoKeeps, RxSelfKeeps, RxDoneKeeps, RxDataKeeps, RxEmptyKeeps
    DEF BluetoothThread
<1>2. CASE WorkQueue
  BY <1>2, SelfInfoKeeps, SelfUpdateKeeps, FlagKeeps, ProcRspKeeps, WkProcReqKeeps, CutEndsKeeps,
     BluetoothParamsKeep
  DEF WorkQueue
<1>3. CASE Responded \/ Ichip \/ TxAborted \/ tmr_rsp_timeout_handler
  BY <1>3, RespondedKeeps, IchipKeeps, TxAbortedKeeps, TimeoutKeeps
<1>4. CASE Central
  <2>1. CASE \E what \in What, n52 \in Sizes \cup {0}, n91 \in Sizes \cup {0}, loads \in BOOLEAN :
               Launch(what, n52, n91, loads)
    BY <2>1, LaunchKeeps
  <2>2. CASE \E yes \in BOOLEAN : Connect(yes)
    BY <2>2, ConnectKeeps
  <2>3. CASE didUpdateValueFor \/ Quit
    BY <2>3, DidUpdateValueForKeeps, QuitKeeps
  <2>4. QED
    BY <1>4, <2>1, <2>2, <2>3 DEF Central
<1>5. CASE LinkDrops \/ Reboot \/ Boot
  BY <1>5, LinkDropsKeeps, RebootKeeps, BootKeeps
<1>6. CASE \E op \in {"devinf", "done"} : IchipAsks(op)
  BY <1>6, IchipAsksKeeps
<1>7. CASE UNCHANGED vars
  <2>1. /\ UNCHANGED link /\ b' = b /\ phase' = phase /\ wq' = wq /\ call' = call
    BY <1>7 DEF vars, chip, simp
  <2>2. /\ Pending'
        /\ Asking' => Asking
        /\ Has("info")' => Has("info")
        /\ Has("update")' => Has("update")
        /\ Calling' => Calling /\ call'.op = call.op
    BY <2>1 DEF Inv, Pending, Asking, Has, Calling
  <2>3. QED
    BY <2>1, <2>2, Quietly DEF Inv, Typed, CallTyped
<1>8. QED
  BY <1>1, <1>2, <1>3, <1>4, <1>5, <1>6, <1>7 DEF Next

\* The invariant holds in every timely behaviour.
LEMMA Invariance == Timely => (Spec => []Inv)
<1> SUFFICES ASSUME Timely PROVE Spec => []Inv
  OBVIOUS
<1>1. Init => Inv
  BY InitSafe
<1>2. Inv /\ [Next]_vars => Inv'
  BY StepSafe
<1>3. QED
  BY <1>1, <1>2, PTL DEF Spec

\* A packet that is on its way has room behind what has been collected: the copy to
\* m_cmd_buffer in nus_received_cb_handler stays within it, though nothing checks.
THEOREM PacketsFit == Timely => (Spec => []BufferFits)
<1> SUFFICES ASSUME Timely PROVE Spec => []BufferFits
  OBVIOUS
<1>1. Inv => BufferFits
  <2> SUFFICES ASSUME Inv, NEW i \in DOMAIN toB, toB[i].op = "data"
               PROVE  b.bufLen + Len(toB[i].bytes) <= Block
    BY DEF BufferFits
  <2>1. toB[i] \in ToSet(toB) /\ toB # <<>>
    BY DEF ToSet
  <2>2. conn
    BY <2>1 DEF Inv, Linked
  <2>3. QED
    BY <2>1, <2>2, PacketFits
<1>2. QED
  BY <1>1, Invariance, PTL

\* The bchip never asks for what BDUNK does not have; extract does not trap.
THEOREM NeverTraps == Timely => (Spec => []NoTrap)
<1> SUFFICES ASSUME Timely PROVE Spec => []NoTrap
  OBVIOUS
<1>1. Inv => NoTrap
  BY DEF Inv, Knows
<1>2. QED
  BY <1>1, Invariance, PTL

\* Nothing is copied to m_cmd_buffer while the block in it waits for the work queue:
\* the next packet is asked for only when it is written.
THEOREM BlockKept == Timely => (Spec => BlockUndisturbed)
<1> SUFFICES ASSUME Timely PROVE Spec => BlockUndisturbed
  OBVIOUS
<1>1. Inv /\ [Next]_vars =>
        [("update" \in ToSet(wq) /\ "update" \in ToSet(wq')) =>
           <<b'.buf, b'.at, b'.len>> = <<b.buf, b.at, b.len>>]_vars
  <2> SUFFICES ASSUME Inv, [Next]_vars, "update" \in ToSet(wq), "update" \in ToSet(wq')
               PROVE  b'.buf = b.buf /\ b'.at = b.at /\ b'.len = b.len
    OBVIOUS
  <2> USE DEF ChipFields
  <2>1. DOMAIN b = ChipFields
    BY DEF Inv, Typed
  <2>2. ~RxData
    BY PacketTaken DEF RxData, Has
  <2>3. ~RxStale
    BY DEF Timely, RxStale, Strike
  <2>4. ~Reboot
    BY NothingIn DEF Reboot
  <2>5. CASE BluetoothThread
    BY <2>1, <2>2, <2>3, <2>5
    DEF BluetoothThread, RxStart, retrieve_dev_info, RxInfo, Expecting, RxSelf, RxDone, Cleared,
        RxEmpty
  <2>6. CASE WorkQueue
    <3>1. CASE wk_self_info_handler \/ wk_update_mcuboot_flag_handler \/ CutEnds
               \/ update_bluetooth_params
      BY <3>1 DEF wk_self_info_handler, wk_update_mcuboot_flag_handler, CutEnds,
                  update_bluetooth_params
    <3>2. CASE wk_self_update_handler
      BY <2>1, <3>2 DEF wk_self_update_handler, dfu_file_ready
    <3>3. CASE wk_proc_rsp_handler
      BY <2>1, <3>3 DEF wk_proc_rsp_handler, rsp_cb_flash_erase, rsp_cb_flash_write,
                        rsp_cb_flash_done, rsp_dev_fwinfo91
    <3>4. CASE wk_proc_req_handler
      BY <2>1, <3>4 DEF wk_proc_req_handler, dfu_file_ready
    <3>5. QED
      BY <2>6, <3>1, <3>2, <3>3, <3>4 DEF WorkQueue
  <2>7. CASE tmr_rsp_timeout_handler
    <3>1. call.op \in RequestOp
      BY <2>7 DEF tmr_rsp_timeout_handler, Inv, Typed, CallTyped
    <3>2. \/ b' = b
          \/ \E n : b' = [b EXCEPT !.off = n]
          \/ \E n : b' = [b EXCEPT !.avail91 = n]
      BY <2>7, <3>1 DEF tmr_rsp_timeout_handler, RequestOp
    <3>3. QED
      BY <2>1, <3>2
  <2>8. CASE Responded \/ Ichip \/ TxAborted \/ LinkDrops \/ Boot \/ UNCHANGED vars
             \/ \E op \in {"devinf", "done"} : IchipAsks(op)
    BY <2>8 DEF Responded, Ichip, req_dev_fwinfo92, req_cb_flash_erase, req_cb_flash_write,
                req_cb_flash_done, Answer, TxAborted, LinkDrops, Boot, IchipAsks, vars, chip
  <2>9. CASE Central
    BY <2>9 DEF Central, Launch, Connect, didUpdateValueFor, BdunkDoes, Quit, chip
  <2>10. QED
    BY <2>4, <2>5, <2>6, <2>7, <2>8, <2>9 DEF Next
<1>2. QED
  BY <1>1, Invariance, PTL DEF Spec, BlockUndisturbed

=============================================================================
