-------------------------- MODULE SerialDfuProofs --------------------------
(***************************************************************************)
(* Proofs about SerialDfu.tla, for every size of images, blocks, pages and *)
(* slots: type correctness, whether or not updates overlap, and, if they   *)
(* do not, that the update implements Transfer.tla and what it may miss.   *)
(***************************************************************************)
EXTENDS SerialDfu, FiniteSetTheorems, TLAPS

USE SizeAssumption, BoundAssumption, NoneAssumption

-----------------------------------------------------------------------------
(* Arithmetic *)

\* A difference of two uint32_t is one.
LEMMA Difference ==
  ASSUME NEW a \in 0..(Word - 1), NEW b \in 0..(Word - 1)
  PROVE  (a - b + Word) % Word \in 0..(Word - 1)
OBVIOUS

\* The number of pages of an image is a natural number.
LEMMA PageCount ==
  ASSUME NEW n \in Nat
  PROVE  CeilDiv(n, Page) \in Nat
BY DEF CeilDiv

\* The erase request asks for no more than the slot.
LEMMA EraseLength ==
  ASSUME NEW n \in Sizes
  PROVE  Smaller(CeilDiv(n, Page) * Page, FlashLen) \in 0..FlashLen
<1>1. CeilDiv(n, Page) \in Nat
  BY PageCount
<1> DEFINE c == CeilDiv(n, Page)
<1> HIDE DEF c
<1>2. c * Page \in Nat
  BY <1>1 DEF c
<1>3. QED
  BY <1>2 DEF Smaller, c

\* What Request leaves under way is what was, nothing, or the new request.
LEMMA Requested ==
  ASSUME NEW r, Request(r), faults \in 0..MaxFaults
  PROVE  call' \in {call, None, r} /\ faults' \in 0..MaxFaults
BY DEF Request, Strike

\* The response callbacks keep the types of what they assign.
LEMMA CallbackTypes ==
  ASSUME TypeOK, NEW how, Callback(how)
  PROVE  /\ offset' \in 0..(Word - 1)
         /\ wk' \in BOOLEAN /\ told' \in BOOLEAN /\ acked' \in BOOLEAN
<1> USE DEF TypeOK
<1>1. CASE rsp_cb_flash_erase(how)
  BY <1>1 DEF rsp_cb_flash_erase
<1>2. CASE rsp_cb_flash_write
  <2>1. offset' \in 0..(Word - 1)
    BY <1>2 DEF rsp_cb_flash_write
  <2>2. wk' \in BOOLEAN /\ told' \in BOOLEAN /\ acked' \in BOOLEAN
    BY <1>2 DEF rsp_cb_flash_write
  <2>3. QED
    BY <2>1, <2>2
<1>3. CASE rsp_cb_flash_done
  BY <1>3 DEF rsp_cb_flash_done
<1>4. QED
  BY <1>1, <1>2, <1>3 DEF Callback

-----------------------------------------------------------------------------
(* Type correctness *)

Typed(c) == c # None => c \in Call /\ (c.op = "write" => c.len <= Block)

LEMMA TypeStep ==
  ASSUME TypeOK, [Next]_vars
  PROVE  TypeOK'
<1>0. Typed(call) /\ size \in 0..(Word - 1)
  BY DEF TypeOK, Typed
<1>1. ASSUME NEW n \in Sizes, startdfuprocess(n)
      PROVE  TypeOK'
  <2> DEFINE r == Ask("erase", 0, Smaller(CeilDiv(n, Page) * Page, FlashLen))
  <2>1. r \in Call /\ r.op # "write"
    BY EraseLength DEF Ask, Call, Answer
  <2>2. call' \in {call, None, r} /\ faults' \in 0..MaxFaults
    BY <1>1, Requested DEF startdfuprocess, TypeOK
  <2>3. starts' \in 0..MaxStarts /\ size' \in Sizes \cup {0}
    BY <1>1 DEF startdfuprocess, TypeOK
  <2> HIDE DEF r
  <2>4. QED
    BY <1>1, <2>1, <2>2, <2>3 DEF startdfuprocess, TypeOK
<1>2. CASE wk_get_and_write_data_handle
  <2> DEFINE left == (size - offset + Word) % Word
             len == Smaller(left, Block)
             r == Ask("write", offset, len)
  <2>1. left \in 0..(Word - 1)
    BY <1>0, Difference DEF TypeOK
  <2> HIDE DEF left
  <2>2. len \in 0..(Word - 1) /\ len <= Block
    BY <2>1 DEF Smaller
  <2> HIDE DEF len
  <2>3. r \in Call /\ r.len <= Block
    BY <2>2 DEF Ask, Call, Answer, TypeOK
  <2>4. Request(r) /\ offset' = (offset + len) % Word
    BY <1>2 DEF wk_get_and_write_data_handle, len, left
  <2>5. call' \in {call, None, r} /\ faults' \in 0..MaxFaults
    BY <2>4, Requested DEF TypeOK
  <2>6. offset' \in 0..(Word - 1)
    BY <2>2, <2>4 DEF TypeOK
  <2> HIDE DEF r
  <2>7. QED
    BY <1>2, <2>3, <2>5, <2>6 DEF wk_get_and_write_data_handle, TypeOK, progress
<1>3. CASE req_cb_flash_write
  <2>1. call' \in Call /\ call'.op = "write" /\ call'.len <= Block
    BY <1>3, <1>0 DEF req_cb_flash_write, Unanswered, Typed, Call, Answer
  <2>2. flash' \in [Address -> Mixed..MaxStarts]
    BY <1>3 DEF req_cb_flash_write, TypeOK, Mixed
  <2>3. QED
    BY <1>3, <2>1, <2>2 DEF req_cb_flash_write, TypeOK, progress
<1>4. CASE req_cb_flash_erase
  <2>1. call' \in Call /\ call'.op # "write"
    BY <1>4, <1>0 DEF req_cb_flash_erase, Unanswered, Typed, Call, Answer
  <2>2. flash' \in [Address -> Mixed..MaxStarts]
    BY <1>4 DEF req_cb_flash_erase, TypeOK, Mixed, Blank
  <2>3. QED
    BY <1>4, <2>1, <2>2 DEF req_cb_flash_erase, TypeOK, progress
<1>5. CASE req_cb_flash_done
  <2>1. call' \in Call /\ call'.op # "write"
    BY <1>5, <1>0 DEF req_cb_flash_done, Unanswered, Typed, Call, Answer
  <2>2. QED
    BY <1>5, <2>1 DEF req_cb_flash_done, TypeOK, progress
<1>6. CASE FlashFails
  <2>1. call' \in Call /\ (call'.op = "write" => call'.len <= Block)
    BY <1>6, <1>0 DEF FlashFails, Unanswered, Typed, Call, Answer
  <2>2. QED
    BY <1>6, <2>1 DEF FlashFails, Strike, TypeOK, progress
<1>7. CASE Answered
  <2>1. Done \in Call /\ Done.op # "write"
    BY DEF Done, Ask, Call, Answer
  <2>2. call' \in {None, Done} /\ faults' \in 0..MaxFaults
    BY <1>7 DEF Answered, Strike, TypeOK
  <2>3. Callback(call.answer)
    BY <1>7 DEF Answered
  <2>4. offset' \in 0..(Word - 1) /\ wk' \in BOOLEAN /\ told' \in BOOLEAN /\ acked' \in BOOLEAN
    BY <2>3, CallbackTypes
  <2> HIDE DEF Done
  <2>5. QED
    BY <1>7, <2>1, <2>2, <2>4 DEF Answered, TypeOK
<1>8. CASE TimedOut
  <2>1. offset' \in 0..(Word - 1) /\ wk' \in BOOLEAN /\ told' \in BOOLEAN /\ acked' \in BOOLEAN
    BY <1>8, CallbackTypes DEF TimedOut
  <2>2. QED
    BY <1>8, <2>1 DEF TimedOut, Strike, TypeOK
<1>9. CASE Abort
  BY <1>9 DEF Abort, Strike, TypeOK, progress
<1>10. CASE UNCHANGED vars
  BY <1>10 DEF vars, TypeOK
<1>11. QED
  BY <1>1, <1>2, <1>3, <1>4, <1>5, <1>6, <1>7, <1>8, <1>9, <1>10 DEF Next

\* The initial state is typed.
LEMMA InitTyped ==
  ASSUME Init
  PROVE  TypeOK
<1>1. flash \in [Address -> Mixed..MaxStarts]
  <2>1. Mixed \in Mixed..MaxStarts
    BY DEF Mixed
  <2>2. QED
    BY <2>1 DEF Init
<1>2. offset \in 0..(Word - 1) /\ starts \in 0..MaxStarts /\ faults \in 0..MaxFaults
  BY DEF Init
<1>3. QED
  BY <1>1, <1>2 DEF Init, TypeOK

\* Every variable keeps its type, whatever goes wrong and even if updates
\* overlap: m_img_offset stays a uint32_t and no write request of
\* wk_get_and_write_data_handle is longer than IMG_BLOCK_SIZE.
THEOREM TypeCorrect == Spec => []TypeOK
<1>1. Init => TypeOK
  BY InitTyped
<1>2. TypeOK /\ [Next]_vars => TypeOK'
  BY TypeStep
<1>3. QED
  BY <1>1, <1>2, PTL DEF Spec

-----------------------------------------------------------------------------
(* The order of the requests, as long as updates do not overlap *)

Erasing == call # None /\ call.op = "erase"
Writing == call # None /\ call.op = "write"

\* One request follows the other, and the offset tells how far they have come.
Order ==
  /\ starts = 0 => size = 0 /\ call = None /\ ~wk /\ ~told /\ offset = 0
  /\ offset <= size
  /\ told => offset = 0 /\ ~wk /\ ~Erasing /\ ~Writing
  /\ acked => told /\ call = None
  /\ wk => call = None
  /\ call # None /\ call.op = "done" => told
  /\ Erasing => offset = 0 /\ call.len >= size
  /\ Writing => call.at + call.len = offset

\* The part of the slot that the image still needs is erased, and no byte of an
\* image that was not yet sent is there.
Content ==
  /\ \A a \in Address : flash[a] <= starts
  /\ Erasing => Copied = {} /\ (call.answer = "ok" => \A a \in Image : flash[a] = Blank)
  /\ wk \/ Writing => \A a \in Image : a >= Handed => flash[a] = Blank

Missing == (0..(Handed - 1)) \ Copied

\* Each fault costs a block.
Gaps == Cardinality(Missing) <= Block * faults

IInv == TypeOK /\ Order /\ Content

\* The pages that are erased hold the image.
LEMMA EraseCovers ==
  ASSUME NEW n \in Sizes
  PROVE  Smaller(CeilDiv(n, Page) * Page, FlashLen) >= n
<1> n \in Nat /\ n <= FlashLen
  OBVIOUS
<1>1. ((n + Page - 1) \div Page) * Page >= n
  <2>1. n + Page - 1 = ((n + Page - 1) \div Page) * Page + ((n + Page - 1) % Page)
    OBVIOUS
  <2>2. (n + Page - 1) % Page \in 0..(Page - 1) /\ (n + Page - 1) \div Page \in Int
    OBVIOUS
  <2>3. QED
    BY <2>1, <2>2
<1>2. QED
  BY <1>1 DEF Smaller, CeilDiv

\* Types in the form in which the steps below need them.
LEMMA Types ==
  ASSUME TypeOK, Order
  PROVE  /\ size \in Nat /\ size <= FlashLen
         /\ offset \in Nat /\ starts \in Nat /\ faults \in Nat
         /\ call # None => /\ call \in Call
                           /\ call.at \in Nat /\ call.len \in Nat
         /\ Writing => call.len <= Block
         /\ \A a \in Address : flash[a] \in Int
BY DEF TypeOK, Order, Call, Writing, Mixed

\* A write request under way asks for the bytes from offset on, and leaves the
\* offset behind them.
LEMMA NextBlock ==
  ASSUME TypeOK, Order, Content, wk_get_and_write_data_handle
  PROVE  \E len \in 0..Block :
           /\ offset' = offset + len /\ offset' <= size
           /\ call = None /\ ~told /\ wk' = FALSE
           /\ \/ call' = Ask("write", offset, len) /\ UNCHANGED faults
              \/ call' = None /\ faults' = faults + 1
           /\ UNCHANGED <<size, flash, progress>>
<1>1. call = None /\ ~told /\ offset <= size
  BY DEF wk_get_and_write_data_handle, Order
<1> DEFINE left == (size - offset + Word) % Word
           len == Smaller(left, Block)
<1>2. left = size - offset
  BY <1>1, Types
<1>3. len \in 0..Block /\ offset + len <= size
  BY <1>1, <1>2, Types DEF Smaller
<1>4. offset' = offset + len
  <2>1. offset' = (offset + len) % Word
    BY DEF wk_get_and_write_data_handle
  <2>2. offset + len \in 0..(Word - 1)
    BY <1>3, Types
  <2> HIDE DEF len
  <2>3. QED
    BY <2>1, <2>2
<1>5. Request(Ask("write", offset, len))
  BY DEF wk_get_and_write_data_handle
<1>6. \/ call' = Ask("write", offset, len) /\ UNCHANGED faults
      \/ call' = None /\ faults' = faults + 1
  BY <1>1, <1>5 DEF Request, Strike
<1> HIDE DEF len
<1>7. QED
  BY <1>1, <1>3, <1>4, <1>6 DEF wk_get_and_write_data_handle

\* What startdfuprocess finds and leaves.
LEMMA Begun ==
  ASSUME IInv, ~Overlap, NEW n \in Sizes, startdfuprocess(n)
  PROVE  /\ call = None /\ offset = 0 /\ offset' = 0 /\ ~wk /\ ~wk'
         /\ \/ call' = None /\ faults' = faults + 1
            \/ /\ call'.op = "erase" /\ call'.len >= n /\ call'.answer = "none"
               /\ UNCHANGED faults
         /\ size' = n /\ starts' = starts + 1 /\ ~told' /\ ~acked' /\ UNCHANGED flash
<1> USE DEF IInv
<1>1. call = None /\ offset = 0 /\ ~wk
  BY DEF startdfuprocess, Order
<1> DEFINE len == Smaller(CeilDiv(n, Page) * Page, FlashLen)
<1>2. len >= n
  BY EraseCovers
<1>3. Request(Ask("erase", 0, len))
  BY DEF startdfuprocess
<1> HIDE DEF len
<1>4. \/ call' = None /\ faults' = faults + 1
      \/ call' = Ask("erase", 0, len) /\ UNCHANGED faults
  BY <1>1, <1>3 DEF Request, Strike
<1>5. QED
  BY <1>1, <1>2, <1>4 DEF startdfuprocess, Ask

\* What the callback of an answer or a timeout does.
LEMMA CalledBack ==
  ASSUME IInv, call # None, NEW how, Callback(how)
  PROVE  /\ Erasing => /\ offset' = offset /\ told' = told /\ acked' = acked
                       /\ (wk' => wk \/ how = "ok")
         /\ Writing => /\ offset' = (IF offset = size THEN 0 ELSE offset)
                       /\ told' = (offset = size) /\ acked' = acked
                       /\ (wk' => offset # size)
         /\ call.op = "done" => /\ offset' = offset /\ told' = told /\ wk' = wk
         /\ Erasing \/ Writing \/ call.op = "done"
BY DEF Callback, rsp_cb_flash_erase, rsp_cb_flash_write, rsp_cb_flash_done, IInv, Order,
       Erasing, Writing, TypeOK

LEMMA OrderStep ==
  ASSUME IInv, ~Overlap, [Next]_vars
  PROVE  Order'
<1> USE DEF IInv
<1>0. TypeOK'
  BY TypeStep
<1>1. ASSUME NEW n \in Sizes, startdfuprocess(n)
      PROVE  Order'
  BY <1>1, Begun, Types DEF Order, Erasing, Writing
<1>2. CASE wk_get_and_write_data_handle
  <2>1. PICK len \in 0..Block :
           /\ offset' = offset + len /\ offset' <= size
           /\ call = None /\ ~told /\ wk' = FALSE
           /\ \/ call' = Ask("write", offset, len) /\ UNCHANGED faults
              \/ call' = None /\ faults' = faults + 1
           /\ UNCHANGED <<size, flash, progress>>
    BY <1>2, NextBlock
  <2>2. starts # 0
    BY <1>2 DEF Order, wk_get_and_write_data_handle
  <2>3. QED
    BY <2>1, <2>2, Types DEF Order, Erasing, Writing, Ask, progress
<1>3. ASSUME Unanswered, call'.op = call.op, call'.at = call.at, call'.len = call.len, call' # None,
             UNCHANGED <<size, offset, wk, told, acked, starts>>
      PROVE  Order'
  BY <1>3 DEF Order, Erasing, Writing, Unanswered
<1>4. CASE req_cb_flash_write \/ req_cb_flash_erase \/ req_cb_flash_done \/ FlashFails
  <2>1. Unanswered /\ call \in Call
    BY <1>4, Types DEF req_cb_flash_write, req_cb_flash_erase, req_cb_flash_done, FlashFails, Unanswered
  <2>2. \E a \in Answer : call' = [call EXCEPT !.answer = a]
    BY <1>4 DEF req_cb_flash_write, req_cb_flash_erase, req_cb_flash_done, FlashFails, Answer
  <2>3. call'.op = call.op /\ call'.at = call.at /\ call'.len = call.len /\ call' # None
    BY <2>1, <2>2 DEF Call
  <2>4. UNCHANGED <<size, offset, wk, told, acked, starts>>
    BY <1>4 DEF req_cb_flash_write, req_cb_flash_erase, req_cb_flash_done, FlashFails, progress
  <2>5. QED
    BY <2>1, <2>3, <2>4, <1>3
<1>5. CASE Answered
  <2>1. call # None /\ Callback(call.answer) /\ UNCHANGED <<size, starts>>
    BY <1>5 DEF Answered
  <2>2. CASE AllWritten
    <3>1. offset' = 0 /\ told' /\ ~wk' /\ acked' = acked
      BY <2>1, <2>2, CalledBack DEF AllWritten, Writing
    <3>2. call' = None \/ call' = Done
      BY <1>5, <2>2 DEF Answered
    <3>3. ~acked /\ starts # 0
      BY <2>1 DEF Order
    <3>4. Done.op = "done"
      BY DEF Done, Ask
    <3> HIDE DEF Done
    <3>5. QED
      BY <2>1, <3>1, <3>2, <3>3, <3>4, Types DEF Order, Erasing, Writing
  <2>3. CASE ~AllWritten
    <3>1. call' = None
      BY <1>5, <2>3 DEF Answered
    <3>2. QED
      BY <2>1, <2>3, <3>1, CalledBack, Types DEF Order, Erasing, Writing, AllWritten
  <2>4. QED
    BY <2>2, <2>3
<1>6. CASE TimedOut
  <2>1. call # None /\ Callback("timeout") /\ UNCHANGED <<size, starts>> /\ call' = None
    BY <1>6 DEF TimedOut
  <2>2. QED
    BY <2>1, CalledBack, Types DEF Order, Erasing, Writing
<1>7. CASE Abort
  BY <1>7 DEF Abort, Unanswered, Order, Erasing, Writing, progress
<1>8. CASE UNCHANGED vars
  BY <1>8 DEF vars, Order, Erasing, Writing
<1>9. QED
  BY <1>1, <1>2, <1>4, <1>5, <1>6, <1>7, <1>8 DEF Next

\* What is handed over, by the state of the transfer.
LEMMA HandedIs ==
  ASSUME TypeOK, Order
  PROVE  /\ told => Handed = size
         /\ ~told /\ ~(Writing /\ call.answer = "none") => Handed = offset
         /\ Writing /\ call.answer = "none" => Handed = call.at
         /\ Handed \in Nat /\ Handed <= size
         /\ ~told => Handed <= offset
<1>1. Writing => ~told
  BY DEF Order
<1>2. QED
  BY <1>1, Types DEF Handed, Unanswered, Writing, Order

\* In the steps that write nothing the content stays what it was.
LEMMA SameFlash ==
  ASSUME Content, UNCHANGED <<size, flash, starts>>,
         Erasing' => Erasing /\ (call'.answer = "ok" => call.answer = "ok"),
         (wk \/ Writing)' => /\ Handed \in Nat /\ Handed' \in Nat /\ Handed <= Handed'
                             /\ \/ wk \/ Writing
                                \/ Erasing /\ call.answer = "ok"
  PROVE  Content'
<1>1. Image' = Image /\ Copied' = Copied
  BY DEF Image, Copied
<1>2. \A a \in Address : flash'[a] <= starts'
  BY DEF Content
<1>3. Erasing' => Copied' = {} /\ (call'.answer = "ok" => \A a \in Image' : flash'[a] = Blank)
  BY <1>1 DEF Content
<1>4. ASSUME (wk \/ Writing)', NEW a \in Image', a >= Handed'
      PROVE  flash'[a] = Blank
  <2>1. a \in Image /\ a \in Nat
    BY <1>1 DEF Image, Address
  <2>2. a >= Handed
    BY <1>4, <2>1
  <2>3. QED
    BY <1>4, <2>1, <2>2 DEF Content
<1>5. QED
  BY <1>2, <1>3, <1>4 DEF Content

\* A new image finds nothing of itself in the slot.
LEMMA NewImage ==
  ASSUME IInv, ~Overlap, NEW n \in Sizes, startdfuprocess(n)
  PROVE  Copied' = {} /\ Handed' = 0
<1> USE DEF IInv
<1>1. Order' /\ TypeOK'
  BY OrderStep, TypeStep DEF Next
<1>2. \A a \in Address : flash'[a] # starts'
  <2>1. \A a \in Address : flash[a] \in Int /\ flash[a] <= starts
    BY Types DEF Content
  <2>2. QED
    BY <2>1, Begun, Types
<1>3. Copied' = {}
  BY <1>2 DEF Copied, Image
<1>4. Handed' = 0
  BY Begun DEF Handed, Unanswered
<1>5. QED
  BY <1>3, <1>4

\* A block that is written fills the bytes it names, which were erased.
LEMMA BlockWritten ==
  ASSUME IInv, req_cb_flash_write
  PROVE  /\ Handed = call.at /\ Handed' = offset
         /\ flash' = [a \in Address |-> IF a \in call.at..(call.at + call.len - 1)
                                        THEN starts ELSE flash[a]]
         /\ call' = [call EXCEPT !.answer = "ok"]
         /\ UNCHANGED <<size, offset, wk, progress, faults>>
<1> USE DEF IInv
<1>1. Writing /\ call.answer = "none" /\ ~told /\ call \in Call
  BY Types DEF req_cb_flash_write, Unanswered, Writing, Order
<1>2. call.at + call.len = offset /\ offset <= FlashLen
  BY <1>1, Types DEF Order
<1>3. /\ flash' = [a \in Address |->
                      IF ~Written(a) THEN flash[a]
                      ELSE IF flash[a] = Blank THEN starts ELSE Mixed]
      /\ call' = [call EXCEPT !.answer = "ok"]
      /\ UNCHANGED <<size, offset, wk, progress, faults>>
  BY <1>2 DEF req_cb_flash_write
<1>4. ASSUME NEW a \in Address, Written(a)
      PROVE  flash[a] = Blank
  <2>1. a \in Image /\ a >= call.at
    BY <1>1, <1>2, <1>4, Types DEF Written, Image, Order, Address
  <2>2. QED
    BY <1>1, <2>1, HandedIs DEF Content
<1>5. flash' = [a \in Address |-> IF a \in call.at..(call.at + call.len - 1)
                                  THEN starts ELSE flash[a]]
  BY <1>3, <1>4 DEF Written
<1>6. call'.answer = "ok"
  BY <1>1, <1>3 DEF Call
<1>7. Handed' = offset
  BY <1>1, <1>3, <1>6 DEF Handed, Unanswered, progress
<1>8. QED
  BY <1>1, <1>3, <1>5, <1>7, HandedIs

LEMMA ContentStep ==
  ASSUME IInv, ~Overlap, [Next]_vars
  PROVE  Content'
<1> USE DEF IInv
<1>0. TypeOK' /\ Order'
  BY TypeStep, OrderStep
<1>h. Handed \in Nat /\ Handed' \in Nat
  <2>1. Handed \in Nat
    BY HandedIs
  <2>2. Handed' \in Nat
    BY <1>0 DEF TypeOK, Order, Handed, Unanswered, Call
  <2>3. QED
    BY <2>1, <2>2
<1>1. ASSUME NEW n \in Sizes, startdfuprocess(n)
      PROVE  Content'
  <2>1. Copied' = {}
    BY <1>1, NewImage
  <2>2. \A a \in Address : flash'[a] <= starts'
    <3>1. \A a \in Address : flash[a] \in Int /\ flash[a] <= starts
      BY Types DEF Content
    <3>2. QED
      BY <3>1, <1>1, Begun, Types
  <2>3. ~wk' /\ ~Writing' /\ (Erasing' => call'.answer # "ok")
    BY <1>1, Begun DEF Writing, Erasing
  <2>4. QED
    BY <2>1, <2>2, <2>3 DEF Content
<1>2. CASE wk_get_and_write_data_handle
  <2>1. PICK len \in 0..Block :
           /\ offset' = offset + len /\ offset' <= size
           /\ call = None /\ ~told /\ wk' = FALSE
           /\ \/ call' = Ask("write", offset, len) /\ UNCHANGED faults
              \/ call' = None /\ faults' = faults + 1
           /\ UNCHANGED <<size, flash, progress>>
    BY <1>2, NextBlock
  <2>2. Handed = offset /\ wk
    BY <1>2, <2>1 DEF Handed, Unanswered, wk_get_and_write_data_handle
  <2>3. Handed' >= offset /\ ~Erasing'
    BY <2>1, Types DEF Handed, Unanswered, Ask, progress, Erasing
  <2>4. QED
    BY <2>1, <2>2, <2>3, <1>h, SameFlash DEF progress
<1>3. CASE req_cb_flash_write
  <2>1. Writing /\ call \in Call /\ starts \in Nat
    BY <1>3, Types DEF req_cb_flash_write, Unanswered, Writing
  <2>2. call'.op = "write" /\ UNCHANGED <<size, starts>>
    BY <1>3, <2>1, BlockWritten DEF Call, Writing, progress
  <2>3. \A a \in Address : flash'[a] <= starts'
    BY <1>3, <2>1, <2>2, BlockWritten, Types DEF Content
  <2>4. ASSUME NEW a \in Image', a >= Handed'
        PROVE  flash'[a] = Blank
    <3>1. a \in Image /\ a \in Nat /\ a \in Address
      BY <2>2 DEF Image, Address
    <3>2. a >= offset /\ call.at + call.len = offset /\ Handed = call.at
      BY <1>3, <2>1, <2>4, BlockWritten DEF Order
    <3>3. a >= Handed /\ a \notin call.at..(call.at + call.len - 1)
      BY <3>1, <3>2, <2>1, Types DEF Writing
    <3>4. flash[a] = Blank
      BY <2>1, <3>1, <3>3 DEF Content
    <3>5. QED
      BY <1>3, <3>1, <3>3, <3>4, BlockWritten
  <2>5. ~Erasing'
    BY <2>2 DEF Erasing
  <2>6. QED
    BY <2>3, <2>4, <2>5 DEF Content
<1>4. CASE req_cb_flash_erase
  <2>1. Erasing /\ call \in Call /\ call.len >= size /\ starts # 0
    BY <1>4, Types DEF req_cb_flash_erase, Unanswered, Erasing, Order
  <2>2. call' = [call EXCEPT !.answer = "ok"] /\ call'.op = "erase"
    BY <1>4, <2>1 DEF req_cb_flash_erase, Call, Erasing
  <2>3. UNCHANGED <<size, starts, wk>> /\ Image' = Image
    BY <1>4 DEF req_cb_flash_erase, progress, Image
  <2>4. flash' = [a \in Address |-> IF a < call.len THEN Blank ELSE flash[a]]
    BY <1>4 DEF req_cb_flash_erase
  <2>5. \A a \in Image : flash'[a] = Blank
    BY <2>1, <2>4, Types DEF Image, Address, Erasing
  <2>6. Copied' = {}
    BY <2>1, <2>3, <2>5 DEF Copied, Blank
  <2>7. \A a \in Address : flash'[a] <= starts'
    BY <2>3, <2>4, Types DEF Content, Blank
  <2>8. ~wk' /\ ~Writing'
    BY <2>1, <2>2, <2>3 DEF Order, Writing, Erasing
  <2>9. QED
    BY <2>3, <2>5, <2>6, <2>7, <2>8 DEF Content
<1>5. CASE req_cb_flash_done \/ FlashFails
  <2>1. Unanswered /\ call \in Call /\ UNCHANGED <<size, offset, wk, flash, progress>>
    BY <1>5, Types DEF req_cb_flash_done, FlashFails, Unanswered
  <2>2. \/ call.op = "done" /\ call' = [call EXCEPT !.answer = "ok"]
        \/ call' = [call EXCEPT !.answer = "empty"]
    BY <1>5 DEF req_cb_flash_done, FlashFails
  <2>3. call'.op = call.op /\ (call'.answer = "ok" => call.op = "done") /\ call' # None
    BY <2>1, <2>2 DEF Call, Answer
  <2>4. Handed' >= Handed
    <3>1. ~told => Handed' = offset
      BY <2>1, <2>2 DEF Handed, Unanswered, progress, Call
    <3>2. told => Handed' = size
      BY <2>1 DEF Handed, progress
    <3>3. QED
      BY <3>1, <3>2, HandedIs, Types
  <2>5. QED
    BY <2>1, <2>3, <2>4, <1>h, SameFlash DEF Erasing, Writing, progress, Order, Unanswered
<1>6. CASE Answered \/ TimedOut \/ Abort
  <2>1. call # None /\ UNCHANGED <<size, flash, starts>> /\ (call' # None => call' = Done)
    BY <1>6 DEF Answered, TimedOut, Abort, Unanswered, progress
  <2>2. ~Erasing' /\ ~Writing'
    BY <2>1 DEF Erasing, Writing, Done, Ask
  <2>3. ASSUME wk'
        PROVE  Handed' >= Handed /\ (Writing \/ (Erasing /\ call.answer = "ok"))
    <3>1. ~told' /\ ~wk
      BY <1>0, <2>1, <2>3 DEF Order
    <3>2. Handed' = offset'
      BY <3>1, <2>2 DEF Handed, Unanswered, Writing
    <3>3. \E how \in {call.answer, "timeout"} :
             Callback(how) /\ (how = "timeout" \/ how = call.answer)
      BY <1>6, <2>3, <3>1 DEF Answered, TimedOut, Abort
    <3>4. PICK how \in {call.answer, "timeout"} : Callback(how)
      BY <3>3
    <3>5. (Writing \/ (Erasing /\ how = "ok")) /\ offset' = offset /\ ~told
      BY <2>1, <2>3, <3>1, <3>4, CalledBack DEF Order
    <3>6. QED
      BY <3>2, <3>4, <3>5, HandedIs
  <2>4. QED
    BY <2>1, <2>2, <2>3, <1>h, SameFlash
<1>7. CASE UNCHANGED vars
  BY <1>7, <1>h, SameFlash DEF vars, Erasing, Writing, Handed, Unanswered
<1>8. QED
  BY <1>1, <1>2, <1>3, <1>4, <1>5, <1>6, <1>7 DEF Next

-----------------------------------------------------------------------------
(* The transfer of Transfer.tla is implemented *)

Abstract == [AsTransfer!Next]_(AsTransfer!vars)

\* A fault, with which up to a block is handed over in vain and the end may be told.
LEMMA HandedInVain ==
  ASSUME IInv, faults' = faults + 1, UNCHANGED <<size, flash, starts>>,
         NEW n \in 0..Block, Handed' = Handed + n, Handed' <= size,
         told' = told \/ told' = (Handed' = size)
  PROVE  Abstract
<1> USE DEF IInv
<1>1. Copied' = Copied
  BY DEF Copied, Image
<1>2. Handed \in Nat /\ (told => Handed = size) /\ told \in BOOLEAN
  BY HandedIs DEF TypeOK
<1>3. CASE n # 0
  <2>1. AsTransfer!Miss(n)
    BY <1>1, <1>2, <1>3 DEF AsTransfer!Miss, AsTransfer!Hand
  <2>2. QED
    BY <1>3, <2>1 DEF Abstract, AsTransfer!Next
<1>4. CASE n = 0
  <2>1. Handed' = Handed
    BY <1>2, <1>4
  <2>2. AsTransfer!Trouble \/ AsTransfer!Tell
    BY <1>1, <1>2, <2>1 DEF AsTransfer!Trouble, AsTransfer!Tell
  <2>3. QED
    BY <2>2 DEF Abstract, AsTransfer!Next
<1>5. QED
  BY <1>3, <1>4

\* Every step of the update is a step of the transfer, or none.
LEMMA StepRefines ==
  ASSUME IInv, IInv', ~Overlap, [Next]_vars
  PROVE  Abstract
<1> USE DEF IInv
<1>1. ASSUME NEW n \in Sizes, startdfuprocess(n)
      PROVE  Abstract
  <2>1. AsTransfer!Begin(n)
    BY <1>1, Begun, NewImage DEF AsTransfer!Begin, TypeOK
  <2>2. QED
    BY <2>1 DEF Abstract, AsTransfer!Next
<1>2. CASE wk_get_and_write_data_handle
  <2>1. PICK len \in 0..Block :
           /\ offset' = offset + len /\ offset' <= size
           /\ call = None /\ ~told /\ wk' = FALSE
           /\ \/ call' = Ask("write", offset, len) /\ UNCHANGED faults
              \/ call' = None /\ faults' = faults + 1
           /\ UNCHANGED <<size, flash, progress>>
    BY <1>2, NextBlock
  <2>2. Handed = offset /\ Copied' = Copied
    BY <2>1 DEF Handed, Unanswered, Copied, Image, progress
  <2>3. CASE call' = Ask("write", offset, len) /\ UNCHANGED faults
    <3>1. Handed' = offset
      <4>1. Ask("write", offset, len) # None
        BY <2>1, <2>3 DEF TypeOK, Ask, Call, Answer
      <4>2. QED
        BY <2>1, <2>3, <4>1 DEF Handed, Unanswered, Ask, progress
    <3>2. QED
      BY <2>1, <2>2, <2>3, <3>1 DEF Abstract, AsTransfer!vars, progress
  <2>4. CASE call' = None /\ faults' = faults + 1
    <3>1. Handed' = Handed + len
      BY <2>1, <2>2, <2>4 DEF Handed, Unanswered, progress
    <3>2. Handed' <= size /\ UNCHANGED <<size, flash, starts, told>>
      BY <2>1, <2>2, <3>1 DEF progress
    <3>3. QED
      BY <2>4, <3>1, <3>2, HandedInVain
  <2>5. QED
    BY <2>1, <2>3, <2>4
<1>3. CASE req_cb_flash_write
  <2>1. Writing /\ call \in Call /\ call.len \in 0..Block /\ call.at \in Nat
    BY <1>3, Types DEF req_cb_flash_write, Unanswered, Writing
  <2>2. call.at + call.len = offset /\ offset <= size /\ size <= FlashLen
    BY <2>1, Types DEF Order
  <2>3. UNCHANGED <<size, told, starts, faults>> /\ Handed = call.at /\ Handed' = offset
    BY <1>3, BlockWritten DEF progress
  <2>4. Copied' = Copied \cup call.at..(call.at + call.len - 1)
    <3>1. Image' = Image /\ call.at..(call.at + call.len - 1) \subseteq Image
      BY <2>1, <2>2, <2>3, Types DEF Image, Address
    <3>2. \A a \in Image : flash'[a] = IF a \in call.at..(call.at + call.len - 1)
                                       THEN starts ELSE flash[a]
      BY <1>3, BlockWritten DEF Image
    <3>3. QED
      BY <2>3, <3>1, <3>2 DEF Copied
  <2>5. CASE call.len = 0
    <3>1. Copied' = Copied /\ Handed' = Handed
      BY <2>1, <2>2, <2>3, <2>4, <2>5
    <3>2. QED
      BY <2>3, <3>1 DEF Abstract, AsTransfer!vars
  <2>6. CASE call.len # 0
    <3>1. AsTransfer!Deliver(call.len)
      BY <2>1, <2>2, <2>3, <2>4, <2>6 DEF AsTransfer!Deliver, AsTransfer!Hand
    <3>2. QED
      BY <2>1, <2>6, <3>1 DEF Abstract, AsTransfer!Next
  <2>7. QED
    BY <2>5, <2>6
<1>4. CASE req_cb_flash_erase
  <2>1. Erasing /\ call \in Call /\ call' = [call EXCEPT !.answer = "ok"]
    BY <1>4, Types DEF req_cb_flash_erase, Unanswered, Erasing
  <2>2. UNCHANGED <<size, offset, told, starts, faults>>
    BY <1>4 DEF req_cb_flash_erase, progress
  <2>3. Erasing'
    BY <2>1 DEF Erasing, Call, Answer
  <2>4. Copied' = Copied
    BY <2>1, <2>3 DEF Content
  <2>5. Handed' = Handed
    BY <2>1, <2>2, <2>3 DEF Handed, Unanswered, Erasing
  <2>6. QED
    BY <2>2, <2>4, <2>5 DEF Abstract, AsTransfer!vars
<1>5. CASE req_cb_flash_done
  <2>1. told /\ UNCHANGED <<size, flash, told, starts, faults>>
    BY <1>5 DEF req_cb_flash_done, Unanswered, Order, progress
  <2>2. QED
    BY <2>1 DEF Abstract, AsTransfer!vars, Handed, Copied, Image
<1>6. ASSUME call # None, faults' = faults + 1, UNCHANGED <<size, flash, starts>>,
             Writing => /\ told' = told \/ told' = (offset = size)
                        /\ Handed' = offset,
             ~Writing => told' = told /\ Handed' = Handed
      PROVE  Abstract
  <2>1. CASE Writing
    <3>1. ~told /\ call.at + call.len = offset /\ offset <= size
          /\ call.at \in Nat /\ call.len \in 0..Block
      BY <2>1, Types DEF Order, Writing
    <3>2. Handed = call.at \/ Handed = offset
      BY <2>1, <3>1, HandedIs
    <3>3. \E n \in 0..Block : Handed' = Handed + n
      BY <1>6, <2>1, <3>1, <3>2
    <3>4. PICK n \in 0..Block : Handed' = Handed + n
      BY <3>3
    <3>5. QED
      BY <1>6, <2>1, <3>1, <3>4, HandedInVain
  <2>2. CASE ~Writing
    <3>1. 0 \in 0..Block /\ Handed' = Handed + 0 /\ Handed' <= size
      BY <1>6, <2>2, HandedIs
    <3>2. QED
      BY <1>6, <2>2, <3>1, HandedInVain
  <2>3. QED
    BY <2>1, <2>2
<1>7. CASE FlashFails
  <2>1. call # None /\ call \in Call /\ faults' = faults + 1
        /\ call' = [call EXCEPT !.answer = "empty"]
        /\ UNCHANGED <<size, offset, flash, told, starts>>
    BY <1>7, Types DEF FlashFails, Unanswered, Strike, progress
  <2>2. call'.answer = "empty" /\ call'.op = call.op
    BY <2>1 DEF Call
  <2>3. Writing => Handed' = offset
    BY <2>1, <2>2 DEF Handed, Unanswered, Writing, Order
  <2>4. ~Writing => Handed' = Handed
    BY <2>1, <2>2 DEF Handed, Unanswered, Writing
  <2>5. QED
    BY <1>6, <2>1, <2>3, <2>4
<1>8. CASE Answered
  <2>1. call # None /\ call.answer # "none" /\ Callback(call.answer)
        /\ UNCHANGED <<size, flash, starts>>
    BY <1>8 DEF Answered
  <2>2. Copied' = Copied /\ ~Writing'
    <3>1. call' = None \/ call' = Done
      BY <1>8 DEF Answered
    <3>2. QED
      BY <2>1, <3>1 DEF Copied, Image, Writing, Done, Ask
  <2>3. CASE AllWritten
    <3>1. Writing /\ offset = size /\ told' /\ ~told
      BY <2>1, <2>3, CalledBack DEF AllWritten, Writing, Order
    <3>2. Handed = size /\ Handed' = size
      BY <2>1, <3>1, HandedIs DEF Handed
    <3>3. faults' \in {faults, faults + 1}
      BY <1>8 DEF Answered, Strike
    <3>4. AsTransfer!Tell
      BY <2>1, <2>2, <3>1, <3>2, <3>3 DEF AsTransfer!Tell, TypeOK
    <3>5. QED
      BY <3>4 DEF Abstract, AsTransfer!Next
  <2>4. CASE ~AllWritten
    <3>1. UNCHANGED faults /\ told' = told /\ (~told => offset' = offset)
      BY <1>8, <2>1, <2>4, CalledBack DEF Answered, AllWritten, Order, Writing, TypeOK
    <3>2. Handed' = Handed
      BY <2>1, <2>2, <3>1 DEF Handed, Unanswered, Writing
    <3>3. QED
      BY <2>1, <2>2, <3>1, <3>2 DEF Abstract, AsTransfer!vars
  <2>5. QED
    BY <2>3, <2>4
<1>9. CASE TimedOut
  <2>1. call # None /\ faults' = faults + 1 /\ call' = None /\ Callback("timeout")
        /\ UNCHANGED <<size, flash, starts>>
    BY <1>9 DEF TimedOut, Strike
  <2>2. Writing => told' = (offset = size) /\ Handed' = offset
    BY <2>1, CalledBack DEF Handed, Unanswered
  <2>3. ~Writing => told' = told /\ Handed' = Handed
    BY <2>1, CalledBack DEF Handed, Unanswered, Writing
  <2>4. QED
    BY <1>6, <2>1, <2>2, <2>3
<1>10. CASE Abort
  <2>1. call # None /\ faults' = faults + 1 /\ call' = None
        /\ UNCHANGED <<size, offset, flash, told, starts>>
    BY <1>10 DEF Abort, Unanswered, Strike, progress
  <2>2. Writing => Handed' = offset
    BY <2>1 DEF Handed, Unanswered, Order
  <2>3. ~Writing => Handed' = Handed
    BY <2>1 DEF Handed, Unanswered, Writing
  <2>4. QED
    BY <1>6, <2>1, <2>2, <2>3
<1>11. CASE UNCHANGED vars
  BY <1>11 DEF vars, Abstract, AsTransfer!vars, Handed, Unanswered, Copied, Image
<1>12. QED
  BY <1>1, <1>2, <1>3, <1>4, <1>5, <1>7, <1>8, <1>9, <1>10, <1>11 DEF Next

\* The inductive invariant.
THEOREM Safety == ~Overlap => (Spec => []IInv)
<1> SUFFICES ASSUME ~Overlap PROVE Spec => []IInv
  OBVIOUS
<1>1. Init => IInv
  <2> SUFFICES ASSUME Init PROVE IInv
    OBVIOUS
  <2>1. TypeOK
    BY InitTyped
  <2>2. Order
    BY DEF Init, Order, Erasing, Writing
  <2>3. Content
    BY DEF Init, Content, Erasing, Writing, Mixed
  <2>4. QED
    BY <2>1, <2>2, <2>3 DEF IInv
<1>2. IInv /\ [Next]_vars => IInv'
  BY TypeStep, OrderStep, ContentStep DEF IInv
<1>3. QED
  BY <1>1, <1>2, PTL DEF Spec

\* The serial update implements Transfer.tla for every size of images and blocks and any
\* number of faults: blocks go out in order, none twice, and "image transfer done"
\* is reached only at the end (startdfuprocess, wk_get_and_write_data_handle,
\* rsp_cb_flash_write).
THEOREM Implements == ~Overlap => (Spec => ImplementsTransfer)
<1> SUFFICES ASSUME ~Overlap PROVE Spec => ImplementsTransfer
  OBVIOUS
<1>1. Init => AsTransfer!Init
  BY DEF Init, AsTransfer!Init, Handed, Unanswered, Copied, Image, Address
<1>2. IInv /\ IInv' /\ [Next]_vars => [AsTransfer!Next]_(AsTransfer!vars)
  BY StepRefines DEF Abstract
<1>3. QED
  BY <1>1, <1>2, Safety, PTL DEF Spec, ImplementsTransfer, AsTransfer!Spec

-----------------------------------------------------------------------------
(* The number of bytes that are missing *)

\* A block more is handed over and a fault more has occurred.
LEMMA BlockCost ==
  ASSUME NEW f \in Nat
  PROVE  Block * f \in Nat /\ Block * (f + 1) = Block * f + Block
OBVIOUS

\* A set with up to a block more than a finite one.
LEMMA BlockMore ==
  ASSUME NEW S, IsFiniteSet(S), NEW p \in Nat, NEW n \in 0..Block,
         NEW T \in SUBSET (S \cup p..(p + n - 1))
  PROVE  Cardinality(T) \in Nat /\ Cardinality(T) <= Cardinality(S) + n
<1>1. IsFiniteSet(p..(p + n - 1)) /\ Cardinality(p..(p + n - 1)) = n
  BY FS_Interval
<1> DEFINE R == p..(p + n - 1)
<1>2. IsFiniteSet(S \cup R) /\ Cardinality(S \cup R) = Cardinality(S) + n - Cardinality(S \cap R)
  BY <1>1, FS_Union
<1>3. IsFiniteSet(S \cap R) /\ Cardinality(S \cap R) \in Nat
  BY <1>1, FS_Subset, FS_CardinalityType
<1>4. Cardinality(S) \in Nat
  BY FS_CardinalityType
<1>5. IsFiniteSet(T) /\ Cardinality(T) <= Cardinality(S \cup R)
  BY <1>2, FS_Subset
<1>6. Cardinality(T) \in Nat
  BY <1>5, FS_CardinalityType
<1> HIDE DEF R
<1>7. QED
  BY <1>2, <1>3, <1>4, <1>5, <1>6

\* A part of a finite set has no more elements.
LEMMA MissingFinite ==
  ASSUME IInv
  PROVE  IsFiniteSet(Missing) /\ Cardinality(Missing) \in Nat
<1>1. IsFiniteSet(0..(Handed - 1))
  BY HandedIs, FS_Interval DEF IInv
<1>2. Missing \subseteq 0..(Handed - 1)
  BY DEF Missing
<1>3. QED
  BY <1>1, <1>2, FS_Subset, FS_CardinalityType

\* Any step of the transfer keeps the number of missing bytes below that of the
\* faults, block for block.
LEMMA GapsStep ==
  ASSUME IInv, Abstract, Gaps
  PROVE  Gaps'
<1>1. IsFiniteSet(Missing) /\ Cardinality(Missing) \in Nat /\ faults \in Nat /\ Handed \in Nat
  BY MissingFinite, Types, HandedIs DEF IInv
<1>2. ASSUME Missing' \subseteq Missing, faults' \in {faults, faults + 1}
      PROVE  Gaps'
  <2>0. IsFiniteSet(Missing') /\ Cardinality(Missing') <= Cardinality(Missing)
    BY <1>1, <1>2, FS_Subset
  <2>1. Cardinality(Missing') <= Cardinality(Missing) /\ Cardinality(Missing') \in Nat
    BY <2>0, FS_CardinalityType
  <2>2. Block * faults <= Block * faults' /\ Block * faults \in Nat /\ Block * faults' \in Nat
    <3>1. Block * faults \in Nat /\ Block * (faults + 1) = Block * faults + Block
      BY <1>1, BlockCost
    <3>2. CASE faults' = faults
      BY <3>1, <3>2
    <3>3. CASE faults' = faults + 1
      BY <3>1, <3>3
    <3>4. QED
      BY <1>2, <3>2, <3>3
  <2>3. QED
    BY <1>1, <2>1, <2>2 DEF Gaps
<1>3. ASSUME NEW n \in Sizes, AsTransfer!Begin(n)
      PROVE  Gaps'
  <2>1. Missing' = {}
    BY <1>3 DEF AsTransfer!Begin, Missing
  <2>2. QED
    BY <1>2, <1>3, <2>1 DEF AsTransfer!Begin
<1>4. ASSUME NEW n \in 1..Block, AsTransfer!Deliver(n)
      PROVE  Gaps'
  <2>1. Handed' = Handed + n /\ Copied' = Copied \cup Handed..(Handed + n - 1)
    BY <1>4 DEF AsTransfer!Deliver, AsTransfer!Hand
  <2>2. Missing' \subseteq Missing
    BY <1>1, <2>1 DEF Missing
  <2>3. QED
    BY <1>2, <1>4, <2>2 DEF AsTransfer!Deliver
<1>5. ASSUME NEW n \in 1..Block, AsTransfer!Miss(n)
      PROVE  Gaps'
  <2>1. Handed' = Handed + n /\ Copied' = Copied /\ faults' = faults + 1
    BY <1>5 DEF AsTransfer!Miss, AsTransfer!Hand
  <2>2. Missing' \subseteq Missing \cup Handed..(Handed + n - 1)
    BY <1>1, <2>1 DEF Missing
  <2>3. Cardinality(Missing') <= Cardinality(Missing) + n /\ Cardinality(Missing') \in Nat
    BY <1>1, <2>2, BlockMore
  <2>4. Block * faults \in Nat /\ Block * faults' = Block * faults + Block
    BY <1>1, <2>1, BlockCost
  <2>5. QED
    BY <1>1, <2>3, <2>4 DEF Gaps
<1>6. CASE AsTransfer!Tell \/ AsTransfer!Trouble
  <2>1. Missing' = Missing
    BY <1>6 DEF AsTransfer!Tell, AsTransfer!Trouble, Missing
  <2>2. QED
    BY <1>2, <1>6, <2>1 DEF AsTransfer!Tell, AsTransfer!Trouble
<1>7. CASE UNCHANGED AsTransfer!vars
  BY <1>2, <1>7 DEF AsTransfer!vars, Missing
<1>8. QED
  BY <1>3, <1>4, <1>5, <1>6, <1>7 DEF Abstract, AsTransfer!Next

\* When "image transfer done" is reached the bchip lacks at most a block for each
\* fault, for every size of images, blocks and pages and any number of faults
\* (rsp_cb_flash_write, which never looks at the answer).
THEOREM GapsCounted == ~Overlap => (Spec => []GapsBounded)
<1> SUFFICES ASSUME ~Overlap PROVE Spec => []GapsBounded
  OBVIOUS
<1>1. Init => Gaps
  <2> SUFFICES ASSUME Init PROVE Gaps
    OBVIOUS
  <2>1. Missing = {} /\ faults = 0
    BY DEF Init, Missing, Handed, Unanswered
  <2>2. QED
    BY <2>1, FS_EmptySet DEF Gaps
<1>2. IInv /\ IInv' /\ [Next]_vars /\ Gaps => Gaps'
  BY StepRefines, GapsStep
<1>3. IInv /\ Gaps => GapsBounded
  <2> SUFFICES ASSUME IInv, Gaps, told PROVE Cardinality(Image \ Copied) <= Block * faults
    BY DEF GapsBounded
  <2>1. Handed = size /\ size \in Nat /\ size <= FlashLen
    BY HandedIs, Types DEF IInv
  <2>2. Image \ Copied = Missing
    BY <2>1 DEF Missing, Image, Address
  <2>3. QED
    BY <2>2 DEF Gaps
<1>4. QED
  BY <1>1, <1>2, <1>3, Safety, PTL DEF Spec
=============================================================================
