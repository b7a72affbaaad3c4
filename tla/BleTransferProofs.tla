------------------------ MODULE BleTransferProofs ------------------------
(***************************************************************************)
(* Proofs about what the update over Bluetooth achieves: the flag of the   *)
(* 52 is set for whole images only, and the update is a transfer as        *)
(* Transfer.tla describes it, for all sizes of packets, blocks, images and *)
(* slots, any number of starts of BDUNK and of faults (Timely, Apart).     *)
(*                                                                         *)
(* BleDfuProofs.tla shows whose turn it is and where both sides are.  Here *)
(* its holder also knows what has been programmed so far, and what is      *)
(* still to come: nothing of the image may be handed over while the done   *)
(* request of the one before keeps SIMP busy, nor when the mcuboot flag    *)
(* waits to be set.                                                        *)
(***************************************************************************)
EXTENDS BleDfuProofs

-----------------------------------------------------------------------------
(* The inductive invariant *)

\* A request for the next bytes is under way, or the bytes themselves.
Streaming ==
  /\ conn
  /\ \/ Asking \/ Has("info") \/ (Calling /\ call.op = "erase")
     \/ \E p \in ToSet(toC) : p.op = "get"
     \/ \E p \in ToSet(toB) : p.op = "data"

\* The bchip has the size and the chip of the image it was last told to expect.
Expected == told = FALSE /\ b.size = job.size /\ job.chip = b.type

\* All before the offset has been written, the slot of the 52 without a gap.
Going ==
  /\ Expected /\ b.off % Word = 0
  /\ b.type = "52" => c.what = "52" /\ put = 0..(b.off - 1)

\* A piece of the image that ends at the offset, and begins on a word.
Piece(at, n) ==
  /\ at \in Nat /\ n \in 1..Block /\ at % Word = 0 /\ at + n = b.off /\ b.off <= b.size
  /\ b.off < b.size => b.off % Word = 0

\* The block that the work queue has to write.
OwnBlock ==
  /\ Expected /\ b.type = "52" /\ Piece(b.at, b.len)
  /\ put = 0..(b.at - 1) /\ (conn => c.what = "52")

\* The block that the ichip has to write, or has written.
PeerBlock ==
  /\ Expected /\ b.type = "91" /\ Queue(call.bytes) /\ Piece(call.at, Len(call.bytes))

Writing == call # None /\ call.op = "write"

Progress ==
  /\ Streaming => Going
  /\ Has("info") /\ conn => b.type = "52"
  /\ Has("update") => OwnBlock
  /\ Writing => PeerBlock

\* While the ichip is told the end of an image only one for the 52 may follow: no
\* other request could be made.
Doing == call # None /\ call.op = "done"

DoneApart ==
  conn /\ Doing =>
    /\ \A p \in ToSet(toC) :
         /\ p.op # "devinf" /\ (p.op = "get" => b.type = "52")
         /\ p.op = "selfstart" => c.what = "52"
    /\ \A p \in ToSet(toB) :
         /\ p.op # "start" /\ (p.op = "data" => b.type = "52")
         /\ p.op \in {"info", "self"} => c.what = "52"
    /\ Asking => b.type = "52"

\* The flag waits to be set only for an image that is there, and no other follows.
FlagLast ==
  Has("flag") =>
    /\ job.chip = "52" /\ job.size > 0 => told
    /\ conn => /\ c.what = "52"
               /\ \A p \in ToSet(toC) : p.op \in {"success", "cut"}
               /\ \A p \in ToSet(toB) : p.op \in {"done", "empty"}
               /\ ~Asking /\ ~Has("info") /\ ~Has("update") /\ ~Calling

Announced == \A p \in ToSet(toB) : p.op = "info" => p.what = c.what

Talk == Announced /\ DoneApart /\ FlagLast

\* The bchip serves the ichip only when it has nothing else to do.
Serving == slave # "none" => call = None /\ ~conn /\ (slave = "done" => job.size = 0)

Types == told \in BOOLEAN /\ b.type \in Chip /\ b.size <= SlotLen

OnCourse == Types /\ Serving /\ Progress /\ Talk /\ FlagMeansStored

\* No request is taken for none.
Apart == \A op, at, bytes : None # Ask(op, at, bytes)

\* A step of the abstract transfer, or none.
Abstract == [AsTransfer!Next]_(AsTransfer!vars)

-----------------------------------------------------------------------------
(* Bytes and words *)

\* A function on 1..n is a sequence of length n.
LEMMA FunctionSeq ==
  ASSUME NEW n \in Nat, NEW f, f = [i \in 1..n |-> f[i]]
  PROVE  Queue(f) /\ Len(f) = n
<1> DEFINE T == {f[i] : i \in 1..n}
<1>1. f \in [1..n -> T] /\ DOMAIN f = 1..n
  OBVIOUS
<1>2. f \in Seq(T)
  <2>1. Seq(T) = UNION {[1..m -> T] : m \in Nat}
    BY SeqDef
  <2> HIDE DEF T
  <2>2. QED
    BY <1>1, <2>1
<1> HIDE DEF T
<1>3. DOMAIN f = 1..Len(f) /\ Len(f) \in Nat
  BY <1>2
<1>4. Len(f) = n
  BY <1>1, <1>3
<1>5. Queue(f)
  BY <1>2, SeqOfItsOwn DEF Queue
<1>6. QED
  BY <1>4, <1>5

\* What is written of a block.
LEMMA BytesLength ==
  ASSUME NEW buf, NEW n \in Nat
  PROVE  Queue(Bytes(buf, n)) /\ Len(Bytes(buf, n)) = n
<1> DEFINE f == Bytes(buf, n)
<1>1. f = [i \in 1..n |-> f[i]]
  BY DEF Bytes
<1> HIDE DEF f
<1>2. QED
  BY <1>1, FunctionSeq DEF f

\* The slot is made of whole words.
LEMMA SlotOfWords ==
  /\ Word \in Nat \ {0} /\ SlotLen \in Nat /\ \E m \in Nat : SlotLen = m * Word
<1>1. /\ Word \in Nat \ {0} /\ Page \in Nat \ {0} /\ SlotLen \in Nat
      /\ Page % Word = 0 /\ SlotLen % Page = 0
  BY FlashAssumption
<1>2. PICK k \in Nat : Page = k * Word
  BY <1>1
<1>3. PICK m \in Nat : SlotLen = m * Page
  BY <1>1
<1>4. m * (k * Word) = (m * k) * Word /\ m * k \in Nat
  BY <1>1
<1>5. QED
  BY <1>1, <1>2, <1>3, <1>4

\* What is made of whole words is a multiple of the word ...
LEMMA InWords ==
  ASSUME NEW m \in Nat, m % Word = 0
  PROVE  \E k \in Nat : m = k * Word
<1>1. Word \in Nat \ {0}
  BY SlotOfWords
<1> DEFINE k == m \div Word
           r == m % Word
<1>2. k \in Int /\ r \in 0..(Word - 1) /\ m = Word * k + r
  BY <1>1
<1>3. r = 0
  OBVIOUS
<1> HIDE DEF k, r
<1>4. m = k * Word
  BY <1>1, <1>2, <1>3
<1>5. k \in Nat
  <2> SUFFICES ASSUME k <= -1 PROVE FALSE
    BY <1>2
  <2>1. k * Word <= -Word
    BY <1>1, <1>2
  <2>2. QED
    BY <1>1, <1>4, <2>1
<1>6. QED
  BY <1>4, <1>5

\* ... and the other way round.
LEMMA Multiple ==
  ASSUME NEW k \in Nat
  PROVE  k * Word \in Nat /\ (k * Word) % Word = 0
<1>1. Word \in Nat \ {0}
  BY SlotOfWords
<1>2. PICK m \in Nat : m = k * Word
  BY <1>1
<1> DEFINE q == m \div Word
           r == m % Word
           d == k - q
<1>3. q \in Int /\ r \in 0..(Word - 1) /\ m = Word * q + r
  BY <1>1
<1> HIDE DEF q, r
<1>4. d \in Int /\ r = d * Word
  BY <1>1, <1>2, <1>3
<1> HIDE DEF d
<1>5. ~(d >= 1)
  <2> SUFFICES ASSUME d >= 1 PROVE FALSE
    OBVIOUS
  <2>1. d * Word >= Word
    BY <1>1, <1>4
  <2>2. QED
    BY <1>1, <1>3, <1>4, <2>1
<1>6. ~(d <= -1)
  <2> SUFFICES ASSUME d <= -1 PROVE FALSE
    OBVIOUS
  <2>1. d * Word <= -Word
    BY <1>1, <1>4
  <2>2. QED
    BY <1>1, <1>3, <1>4, <2>1
<1>7. d = 0
  BY <1>4, <1>5, <1>6
<1>8. r = 0
  BY <1>1, <1>4, <1>7
<1>9. QED
  BY <1>2, <1>8 DEF r

\* A word that begins before the end of the slot ends in it.
LEMMA WordInSlot ==
  ASSUME NEW at \in Nat, at % Word = 0, at < SlotLen
  PROVE  at + Word <= SlotLen
<1>1. Word \in Nat \ {0} /\ SlotLen \in Nat
  BY SlotOfWords
<1>2. PICK m \in Nat : SlotLen = m * Word
  BY SlotOfWords
<1>3. PICK k \in Nat : at = k * Word
  BY InWords
<1>4. k < m
  BY <1>1, <1>2, <1>3
<1>5. (k + 1) * Word <= m * Word
  BY <1>1, <1>4
<1>6. QED
  BY <1>1, <1>2, <1>3, <1>5

\* Whole words behind a whole number of words.
LEMMA WordsAdd ==
  ASSUME NEW m \in Nat, NEW n \in Nat, m % Word = 0, n % Word = 0
  PROVE  (m + n) % Word = 0
<1>1. Word \in Nat \ {0}
  BY SlotOfWords
<1>2. PICK i \in Nat : m = i * Word
  BY InWords
<1>3. PICK k \in Nat : n = k * Word
  BY InWords
<1>4. m + n = (i + k) * Word /\ i + k \in Nat
  BY <1>1, <1>2, <1>3
<1>5. QED
  BY <1>4, Multiple

\* app_flash_write of bytes that begin on a word and end within the slot succeeds,
\* also when the last word has to be filled up.
LEMMA WriteSucceeds ==
  ASSUME NEW slot, NEW at \in Nat, NEW data, Queue(data), at % Word = 0, at + Len(data) <= SlotLen
  PROVE  app_flash_write(slot, at, data).ok
<1> DEFINE aligned == (Len(data) \div Word) * Word
           words == flash_area_write(slot, at, SubSeq(data, 1, aligned))
           last == LastWord(data, aligned)
<1>1. Word \in Nat \ {0} /\ SlotLen \in Nat /\ Len(data) \in Nat /\ data \in Seq(ToSet(data))
  BY SlotOfWords DEF Queue
<1>2. /\ aligned \in Nat /\ aligned % Word = 0 /\ aligned <= Len(data)
  <2>1. PICK k \in Nat : k = Len(data) \div Word
    BY <1>1
  <2>2. k * Word <= Len(data) /\ k * Word \in Nat /\ (k * Word) % Word = 0
    BY <1>1, <2>1, Multiple
  <2>3. QED
    BY <2>1, <2>2
<1> HIDE DEF aligned
<1>3. Len(SubSeq(data, 1, aligned)) = aligned
  BY <1>1, <1>2
<1>4. words.ok
  BY <1>1, <1>2, <1>3 DEF flash_area_write, InSlot
<1>5. CASE aligned = Len(data)
  BY <1>4, <1>5 DEF app_flash_write, aligned
<1>6. CASE aligned # Len(data)
  <2>1. at + aligned \in Nat /\ (at + aligned) % Word = 0 /\ at + aligned < SlotLen
    <3>1. (at + aligned) % Word = 0
      BY <1>2, WordsAdd
    <3> HIDE DEF words, last
    <3>2. QED
      BY <1>1, <1>2, <1>6, <3>1
  <2>2. at + aligned + Word <= SlotLen
    BY <2>1, WordInSlot
  <2>3. Len(last) = Word
    <3>1. last = [i \in 1..Word |-> last[i]]
      BY DEF LastWord
    <3> HIDE DEF last
    <3>2. QED
      BY <1>1, <3>1, FunctionSeq
  <2>4. flash_area_write(words.slot, at + aligned, last).ok
    <3> HIDE DEF last, words
    <3>1. Word % Word = 0
      BY <1>1
    <3>2. QED
      BY <1>1, <1>2, <2>1, <2>2, <2>3, <3>1 DEF flash_area_write, InSlot
  <2>5. QED
    BY <1>4, <1>6, <2>4 DEF app_flash_write, aligned
<1>7. QED
  BY <1>5, <1>6

-----------------------------------------------------------------------------
(* Steps that hand nothing over *)

SameImage == told' = told /\ job' = job /\ put' = put /\ flag52' = flag52

SameBlock ==
  b'.off = b.off /\ b'.size = b.size /\ b'.type = b.type /\ b'.at = b.at /\ b'.len = b.len

\* Nothing that the invariant is about goes on.
LEMMA Kept ==
  ASSUME OnCourse, SameImage, SameBlock,
         Serving', Talk',
         conn' => conn /\ c'.what = c.what,
         Streaming' => Streaming,
         Has("info")' => Has("info"), Has("update")' => Has("update"),
         Writing' => Writing /\ call'.at = call.at /\ call'.bytes = call.bytes
  PROVE  OnCourse'
<1> USE DEF SameImage, SameBlock
<1>1. Expected' = Expected /\ Types' /\ FlagMeansStored'
  BY DEF Expected, OnCourse, Types, FlagMeansStored
<1>2. Streaming' => Going'
  <2> SUFFICES ASSUME Streaming' PROVE Going'
    OBVIOUS
  <2>1. Going /\ conn'
    BY DEF OnCourse, Progress, Streaming
  <2>2. QED
    BY <1>1, <2>1 DEF Going
<1>3. Has("update")' => OwnBlock'
  BY <1>1 DEF OnCourse, Progress, OwnBlock, Piece
<1>4. Writing' => PeerBlock'
  <2> SUFFICES ASSUME Writing' PROVE PeerBlock'
    OBVIOUS
  <2>1. PeerBlock /\ call'.at = call.at /\ call'.bytes = call.bytes
    BY DEF OnCourse, Progress
  <2>2. QED
    BY <1>1, <2>1 DEF PeerBlock, Piece, Queue
<1>5. Progress'
  BY <1>2, <1>3, <1>4 DEF Progress, OnCourse
<1>6. QED
  BY <1>1, <1>5 DEF OnCourse

\* No message is added but noise.
LEMMA TalkKept ==
  ASSUME Talk, told' = told, job' = job, b'.type = b.type,
         conn' => /\ conn /\ c'.what = c.what
                  /\ \A p \in ToSet(toC') : p \in ToSet(toC) \/ p.op = "cut"
                  /\ \A p \in ToSet(toB') : p \in ToSet(toB) \/ p.op = "empty",
         ~conn' => toB' = <<>>,
         Asking' => Asking, Doing' => Doing, Calling' => Calling,
         Has("flag")' => Has("flag"), Has("info")' => Has("info"), Has("update")' => Has("update")
  PROVE  Talk'
<1>1. CASE conn'
  <2>1. Announced'
    BY <1>1 DEF Talk, Announced
  <2>2. DoneApart'
    BY <1>1 DEF Talk, DoneApart
  <2>3. FlagLast'
    BY <1>1 DEF Talk, FlagLast
  <2>4. QED
    BY <2>1, <2>2, <2>3 DEF Talk
<1>2. CASE ~conn'
  BY <1>2, NothingIn DEF Talk, Announced, DoneApart, FlagLast
<1>3. QED
  BY <1>1, <1>2

\* No message is added at all, and nothing is begun.
LEMMA Silently ==
  ASSUME OnCourse, SameImage, SameBlock, Serving', ~conn' => toB' = <<>>,
         conn' => /\ conn /\ c'.what = c.what
                  /\ \A p \in ToSet(toC') : p \in ToSet(toC) \/ p.op = "cut"
                  /\ \A p \in ToSet(toB') : p \in ToSet(toB) \/ p.op = "empty",
         Asking' => Asking,
         Has("flag")' => Has("flag"), Has("info")' => Has("info"), Has("update")' => Has("update"),
         call' # None => /\ call # None
                         /\ call'.op = call.op /\ call'.at = call.at /\ call'.bytes = call.bytes
  PROVE  OnCourse'
<1>1. /\ Doing' => Doing
      /\ Calling' => Calling /\ call'.op = call.op
      /\ Writing' => Writing /\ call'.at = call.at /\ call'.bytes = call.bytes
  BY DEF Doing, Calling, Writing
<1>2. Talk'
  BY <1>1, TalkKept DEF OnCourse, SameImage, SameBlock
<1>3. Streaming' => Streaming
  BY <1>1 DEF Streaming
<1>4. QED
  BY <1>1, <1>2, <1>3, Kept

\* Nothing is handed over, and nothing arrives.
LEMMA Untouched ==
  ASSUME told' = told, job' = job, put' = put, Handed' = Handed, faults' \in {faults, faults + 1}
  PROVE  Abstract
<1>1. CASE faults' = faults
  BY <1>1 DEF Abstract, AsTransfer!vars
<1>2. CASE faults' = faults + 1
  <2>1. AsTransfer!Trouble
    BY <1>2 DEF AsTransfer!Trouble
  <2>2. QED
    BY <2>1 DEF Abstract, AsTransfer!Next
<1>3. QED
  BY <1>1, <1>2

\* The block that has been handed to the ichip.
Unwritten == Unanswered /\ call.op = "write"

LEMMA HandedSame ==
  ASSUME told' = told, job' = job, b'.at = b.at, b'.off = b.off,
         Has("update")' <=> Has("update"),
         Unwritten' <=> Unwritten, Unwritten => call'.at = call.at
  PROVE  Handed' = Handed
BY DEF Handed, Has, Unwritten

\* One fault more, or none.
LEMMA Noted ==
  ASSUME NEW p, Notify(p)
  PROVE  /\ toC' = Sent(p) \/ toC' = toC
         /\ faults' \in {faults, faults + 1}
BY DEF Notify, Strike

-----------------------------------------------------------------------------
(* The Bluetooth thread *)

\* The Bluetooth thread has the turn, and what it has to know for it.
LEMMA PacketTakenOnCourse ==
  ASSUME Inv, OnCourse, NEW op, op # "empty", Rx(op)
  PROVE  /\ c' = c /\ conn' = conn /\ phase' = phase /\ conn
         /\ Head(toB) \in ToSet(toB) /\ Head(toB).op = op /\ PacketOk(Head(toB))
         /\ \A p \in ToSet(toC) : p.op = "cut"
         /\ \A p \in ToSet(toB') : p.op = "empty"
         /\ ~Asking /\ ~Asking' /\ ~Has("info") /\ ~Has("update") /\ ~Calling /\ ~Writing
         /\ slave = "none"
         /\ op # "done" => ~Has("flag")
         /\ Doing => /\ op # "start" /\ (op = "data" => b.type = "52")
                     /\ op \in {"info", "self"} => c.what = "52"
<1>1. /\ c' = c /\ conn' = conn /\ phase' = phase /\ conn
      /\ Head(toB) \in ToSet(toB) /\ PacketOk(Head(toB))
      /\ \A p \in ToSet(toC) : p.op = "cut"
      /\ \A p \in ToSet(toB') : p.op = "empty"
      /\ ~Asking' /\ ~Has("info") /\ ~Has("update") /\ ~Calling
  BY PacketTaken
<1>2. Head(toB).op = op /\ ~Asking
  BY <1>1 DEF Rx, Asking
<1>3. ~Writing
  BY <1>1 DEF Writing, Calling
<1>4. slave = "none"
  BY <1>1 DEF OnCourse, Serving
<1>5. op # "done" => ~Has("flag")
  BY <1>1, <1>2 DEF OnCourse, Talk, FlagLast
<1>6. Doing => /\ op # "start" /\ (op = "data" => b.type = "52")
               /\ op \in {"info", "self"} => c.what = "52"
  BY <1>1, <1>2 DEF OnCourse, Talk, DoneApart
<1>7. QED
  BY <1>1, <1>2, <1>3, <1>4, <1>5, <1>6

\* A notification is added to what is under way, or lost.
LEMMA Added1 ==
  ASSUME Inv, NEW p, toC' = Sent(p) \/ toC' = toC
  PROVE  \A q \in ToSet(toC') : q \in ToSet(toC) \/ q = p
BY Noticed DEF Inv, Turn

\* BDUNK wants to begin.
LEMMA RxStartOn ==
  ASSUME Inv, OnCourse, RxStart
  PROVE  OnCourse' /\ Abstract
<1>1. Rx("start")
  BY DEF RxStart
<1>2. /\ c' = c /\ conn' = conn /\ conn
      /\ \A p \in ToSet(toC) : p.op = "cut"
      /\ \A p \in ToSet(toB') : p.op = "empty"
      /\ ~Asking' /\ ~Has("info") /\ ~Has("update") /\ ~Calling /\ ~Writing
      /\ slave = "none" /\ ~Has("flag") /\ ~Doing
  BY <1>1, PacketTakenOnCourse
<1>3. call = None
  BY <1>2 DEF Doing, Calling
<1>4. /\ wq' = wq /\ slave' = slave /\ SameImage
      /\ ~Has("info")' /\ ~Has("update")' /\ ~Has("flag")' /\ Serving'
  BY <1>2 DEF RxStart, flash, history, SameImage, Has, Serving
<1>5. SameBlock
  BY DEF RxStart, retrieve_dev_info, Inv, Typed, ChipFields, SameBlock
<1>6. /\ call' = None \/ call'.op = "devinf"
      /\ faults' \in {faults, faults + 1}
  BY <1>3 DEF RxStart, retrieve_dev_info, app_cmd_request, Ask, Notify, Strike
<1>7. ~Doing' /\ ~Writing'
  BY <1>6 DEF Doing, Writing
<1>8. \A p \in ToSet(toC') : p.op \in {"cut", "devinf"}
  <2> DEFINE q == DevInf(b.avail91, app_flash_get_DevInf)
  <2>1. q.op = "devinf"
    BY DEF DevInf
  <2>2. toC' = Sent(q) \/ toC' = toC
    BY DEF RxStart, retrieve_dev_info, Notify
  <2> HIDE DEF q
  <2>3. QED
    BY <1>2, <2>1, <2>2, Added1
<1>9. Talk'
  BY <1>2, <1>4, <1>7 DEF Talk, Announced, DoneApart, FlagLast
<1>10. ~Streaming'
  BY <1>2, <1>4, <1>6, <1>8 DEF Streaming, Calling
<1>11. OnCourse'
  BY <1>2, <1>4, <1>5, <1>7, <1>9, <1>10, Kept
<1>12. ~Unwritten /\ ~Unwritten'
  BY <1>3, <1>6 DEF Unwritten, Unanswered
<1>13. Handed' = Handed
  BY <1>2, <1>4, <1>5, <1>12, HandedSame DEF SameImage, SameBlock
<1>14. Abstract
  BY <1>4, <1>6, <1>13, Untouched DEF SameImage
<1>15. QED
  BY <1>11, <1>14

\* The size and the chip of the image: a transfer begins.
LEMMA RxInfoOn ==
  ASSUME Inv, Inv', OnCourse, RxInfo
  PROVE  OnCourse' /\ Abstract
<1> DEFINE p == Head(toB)
<1>1. Rx("info")
  BY DEF RxInfo
<1>2. /\ c' = c /\ conn' = conn /\ conn
      /\ p \in ToSet(toB) /\ p.op = "info" /\ PacketOk(p)
      /\ \A q \in ToSet(toC) : q.op = "cut"
      /\ \A q \in ToSet(toB') : q.op = "empty"
      /\ ~Asking' /\ ~Has("info") /\ ~Has("update") /\ ~Calling /\ ~Writing
      /\ slave = "none" /\ ~Has("flag")
  BY <1>1, PacketTakenOnCourse
<1>3. /\ p.what = c.what /\ AtStart /\ c.file # "none" /\ p.size = FileSize(c)
  BY <1>2 DEF OnCourse, Talk, Announced, PacketOk
<1>4. p.size \in Sizes /\ p.size <= SlotLen
  BY <1>2, <1>3, BlockAssumption DEF Inv, Typed, IsBdunk, Linked, Knows, HasSizes, FileSize, Chip
<1>5. /\ b' = Expecting(p.size, p.what)
      /\ \/ p.what = "52" /\ Submit("info") /\ UNCHANGED <<call, faults>>
         \/ p.what # "52" /\ cmd_request_flash_erase(p.size) /\ UNCHANGED wq
      /\ job'.chip = b'.type /\ job'.size = p.size
      /\ put' = {} /\ told' = FALSE /\ flag52' = FALSE /\ toC' = toC /\ slave' = slave
  BY DEF RxInfo
<1> HIDE DEF p
<1>6. /\ b'.off = 0 /\ b'.size = p.size /\ b'.type \in Chip
      /\ b'.type = "52" <=> c.what = "52"
  BY <1>3, <1>5 DEF Expecting, AtStart, Inv, Typed, ChipFields, Chip
<1>7. /\ Has("info")' => p.what = "52"
      /\ ~Has("update")' /\ ~Has("flag")'
  BY <1>2, <1>5, Submitted DEF Inv, Has
<1>8. call' = call \/ call'.op = "erase"
  BY <1>5 DEF cmd_request_flash_erase, app_cmd_request, Ask, Idle
<1>9. ~Writing' /\ (Doing' => Doing)
  BY <1>2, <1>8 DEF Writing, Doing
<1>10. Going'
  <2>1. 0 % Word = 0
    BY FlashAssumption
  <2>2. 0..(0 - 1) = {}
    OBVIOUS
  <2>3. QED
    BY <1>2, <1>5, <1>6, <2>1, <2>2 DEF Going, Expected
<1>11. Progress'
  BY <1>2, <1>3, <1>5, <1>6, <1>7, <1>9, <1>10 DEF Progress
<1>12. Talk'
  BY <1>2, <1>5, <1>7 DEF Talk, Announced, DoneApart, FlagLast
<1>13. OnCourse'
  BY <1>2, <1>4, <1>5, <1>6, <1>11, <1>12 DEF OnCourse, Types, Serving, FlagMeansStored
<1>14. Handed' = 0
  BY <1>5, <1>6, <1>7, <1>9 DEF Handed, Has, Unanswered, Writing
<1>15. faults' \in {faults, faults + 1}
  BY <1>5 DEF cmd_request_flash_erase, app_cmd_request, Strike
<1>16. AsTransfer!Begin(p.size)
  BY <1>4, <1>5, <1>14, <1>15 DEF AsTransfer!Begin
<1>17. Abstract
  BY <1>4, <1>16 DEF Abstract, AsTransfer!Next
<1>18. QED
  BY <1>13, <1>17

\* What both chips run is asked for: the offset of the bchip is at the start already.
LEMMA RxSelfOn ==
  ASSUME Inv, OnCourse, RxSelf
  PROVE  OnCourse' /\ Abstract
<1>1. Rx("self")
  BY DEF RxSelf
<1>2. /\ c' = c /\ conn' = conn /\ conn
      /\ Head(toB).op = "self" /\ PacketOk(Head(toB))
      /\ \A q \in ToSet(toC) : q.op = "cut"
      /\ \A q \in ToSet(toB') : q.op = "empty"
      /\ ~Asking' /\ ~Has("info") /\ ~Has("update") /\ ~Calling /\ ~Writing
      /\ slave = "none" /\ ~Has("flag")
      /\ Doing => c.what = "52"
  BY <1>1, PacketTakenOnCourse
<1> DEFINE p == Plain("selfstart")
<1>3. /\ b' = Cleared /\ Notify(p) /\ wq' = wq /\ call' = call /\ slave' = slave /\ SameImage
  BY DEF RxSelf, simp, flash, history, SameImage
<1>4. p.op = "selfstart"
  BY DEF Plain
<1> HIDE DEF p
<1>5. /\ \A q \in ToSet(toC') : q.op \in {"cut", "selfstart"}
      /\ faults' \in {faults, faults + 1}
  BY <1>2, <1>3, <1>4, Added1, Noted
<1>6. /\ b'.off = 0 /\ b'.type = b.type /\ b'.at = b.at /\ b.off = 0 /\ b'.size = 0
  BY <1>2, <1>3 DEF Cleared, Inv, Typed, ChipFields, PacketOk, AtStart
<1>7. ~Has("info")' /\ ~Has("update")' /\ ~Has("flag")' /\ ~Calling' /\ ~Writing' /\ Doing' = Doing
  BY <1>2, <1>3 DEF Has, Calling, Writing, Doing
<1>8. Progress'
  BY <1>2, <1>5, <1>7 DEF Progress, Streaming
<1>9. Talk'
  BY <1>2, <1>5, <1>7 DEF Talk, Announced, DoneApart, FlagLast
<1>10. OnCourse'
  BY FlashAssumption, <1>2, <1>3, <1>6, <1>8, <1>9
  DEF OnCourse, Types, Serving, FlagMeansStored, SameImage
<1>11. Handed' = Handed
  BY <1>2, <1>3, <1>6, <1>7, HandedSame DEF SameImage, Unwritten, Unanswered, Writing
<1>12. Abstract
  BY <1>3, <1>5, <1>11, Untouched DEF SameImage
<1>13. QED
  BY <1>10, <1>12

\* BDUNK has heard that its image arrived.
LEMMA RxDoneOn ==
  ASSUME Inv, OnCourse, RxDone
  PROVE  OnCourse' /\ Abstract
<1>1. Rx("done")
  BY DEF RxDone
<1>2. /\ c' = c /\ conn' = conn /\ conn
      /\ Head(toB).op = "done" /\ PacketOk(Head(toB))
      /\ \A q \in ToSet(toC) : q.op = "cut"
      /\ \A q \in ToSet(toB') : q.op = "empty"
      /\ ~Asking' /\ ~Has("info") /\ ~Has("update") /\ ~Calling /\ ~Writing
      /\ slave = "none"
  BY <1>1, PacketTakenOnCourse
<1>3. /\ b' = Cleared /\ toC' = toC /\ wq' = wq /\ call' = call /\ slave' = slave /\ SameImage
      /\ faults' = faults
  BY DEF RxDone, simp, flash, history, SameImage
<1>4. /\ b'.off = 0 /\ b'.type = b.type /\ b'.at = b.at /\ b.off = 0 /\ b'.size = 0
  BY <1>2, <1>3 DEF Cleared, Inv, Typed, ChipFields, PacketOk, AtStart
<1>5. /\ ~Has("info")' /\ ~Has("update")' /\ Has("flag")' = Has("flag")
      /\ ~Calling' /\ ~Writing' /\ Doing' = Doing
  BY <1>2, <1>3 DEF Has, Calling, Writing, Doing
<1>6. Progress'
  BY <1>2, <1>3, <1>5 DEF Progress, Streaming
<1>7. Talk'
  BY <1>2, <1>3, <1>5 DEF OnCourse, Talk, Announced, DoneApart, FlagLast, SameImage
<1>8. OnCourse'
  BY FlashAssumption, <1>2, <1>3, <1>4, <1>6, <1>7
  DEF OnCourse, Types, Serving, FlagMeansStored, SameImage
<1>9. Handed' = Handed
  BY <1>2, <1>3, <1>4, <1>5, HandedSame DEF SameImage, Unwritten, Unanswered, Writing
<1>10. Abstract
  BY <1>3, <1>9, Untouched DEF SameImage
<1>11. QED
  BY <1>8, <1>10

\* An empty packet changes nothing.
LEMMA RxEmptyOn ==
  ASSUME Inv, OnCourse, RxEmpty
  PROVE  OnCourse' /\ Abstract
<1>1. /\ c' = c /\ conn' = conn /\ phase' = phase /\ toB # <<>> /\ toB' = Tail(toB)
      /\ toC' = toC /\ b' = b /\ wq' = wq /\ call' = call /\ slave' = slave /\ faults' = faults
      /\ SameImage
  BY DEF RxEmpty, Rx, simp, flash, history, SameImage
<1>2. conn /\ ToSet(toB') \subseteq ToSet(toB)
  BY <1>1, Received DEF Inv, Turn
<1>3. OnCourse'
  BY <1>1, <1>2, Silently DEF SameBlock, OnCourse, Serving, Asking, Has
<1>4. Handed' = Handed
  BY <1>1, HandedSame DEF SameImage, Unwritten, Unanswered, Has
<1>5. QED
  BY <1>1, <1>3, <1>4, Untouched DEF SameImage

\* Where a piece that completes a block ends: on a word, or with the image.
LEMMA PieceOf ==
  ASSUME NEW off \in Nat, NEW n \in 1..Block, NEW size \in Nat,
         off % Word = 0, off + n <= size, n = Block \/ n = size - off
  PROVE  off + n < size => (off + n) % Word = 0
<1>1. Block \in Nat /\ Block % Word = 0
  BY BlockAssumption
<1>2. CASE n = Block
  BY <1>1, <1>2, WordsAdd
<1>3. CASE n = size - off
  BY <1>3
<1>4. QED
  BY <1>2, <1>3

\* A block that is handed over in vain.
LEMMA Missed ==
  ASSUME NEW n \in 1..Block, Handed + n <= job.size, Handed' = Handed + n,
         told' \in {told, Handed' = job.size}, job' = job, put' = put, faults' = faults + 1
  PROVE  Abstract
<1>1. AsTransfer!Miss(n)
  BY DEF AsTransfer!Miss, AsTransfer!Hand
<1>2. QED
  BY <1>1 DEF Abstract, AsTransfer!Next

\* A block that arrives.
LEMMA Delivered ==
  ASSUME NEW n \in 1..Block, Handed + n <= job.size, Handed' = Handed + n,
         told' \in {told, Handed' = job.size}, job' = job,
         put' = put \cup Handed..(Handed + n - 1), faults' \in {faults, faults + 1}
  PROVE  Abstract
<1>1. AsTransfer!Deliver(n)
  BY DEF AsTransfer!Deliver, AsTransfer!Hand
<1>2. QED
  BY <1>1 DEF Abstract, AsTransfer!Next

\* A packet of the image: a block that is complete is handed to the work queue or to
\* the ichip, which nothing refuses but a fault.
LEMMA RxDataOn ==
  ASSUME Apart, Inv, OnCourse, RxData
  PROVE  OnCourse' /\ Abstract
<1> DEFINE bytes == Head(toB).bytes
           buf == Collected(bytes)
           n == b.bufLen + Len(bytes)
<1>1. Rx("data")
  BY DEF RxData
<1>2. /\ c' = c /\ conn' = conn /\ conn
      /\ Head(toB) \in ToSet(toB) /\ Head(toB).op = "data"
      /\ \A q \in ToSet(toC) : q.op = "cut"
      /\ \A q \in ToSet(toB') : q.op = "empty"
      /\ ~Asking' /\ ~Has("info") /\ ~Has("update") /\ ~Calling /\ ~Writing
      /\ slave = "none" /\ ~Has("flag")
      /\ Doing => b.type = "52"
  BY <1>1, PacketTakenOnCourse
<1>3. slave' = slave /\ SameImage
  BY DEF RxData, flash, history, SameImage
<1>4. Going /\ b.type \in Chip
  BY <1>2 DEF OnCourse, Types, Progress, Streaming
<1>5. /\ n \in 1..Block /\ b.off + n <= b.size /\ b.off < b.size /\ b.size <= SlotLen
      /\ b.off \in Nat /\ b.size \in Nat /\ SlotLen \in Nat /\ DOMAIN b = ChipFields
  <2>1. b.bufLen \in Nat /\ b.off \in Nat /\ b.size \in Nat /\ DOMAIN b = ChipFields
    BY DEF Inv, Typed
  <2>2. /\ Len(bytes) \in Nat \ {0} /\ n <= Block /\ Pos + Len(bytes) <= b.size
        /\ b.off < b.size /\ b.size <= SlotLen
    BY <1>2, PacketFits
  <2>3. QED
    BY <2>1, <2>2, FlashAssumption, BlockAssumption DEF Pos
<1>6. IF n = Block \/ n = (b.size - b.off + UInt32) % UInt32
      THEN b' = BlockDone(buf, n) /\ HandOver(buf, n)
      ELSE /\ b' = [b EXCEPT !.buf = buf, !.bufLen = n]
           /\ Notify(Plain("get"))
           /\ UNCHANGED <<wq, call>>
  BY DEF RxData
<1> HIDE DEF buf, n
<1>7. (b.size - b.off + UInt32) % UInt32 = b.size - b.off
  BY <1>5, NoWrap
<1>8. CASE n = Block \/ n = b.size - b.off
  <2>1. b' = BlockDone(buf, n) /\ HandOver(buf, n)
    BY <1>6, <1>7, <1>8
  <2>2. (b.off + n) % UInt32 = b.off + n
    BY <1>5, NoWrap
  <2>3. /\ b'.at = b.off /\ b'.len = n /\ b'.off = b.off + n
        /\ b'.size = b.size /\ b'.type = b.type
    BY <1>5, <2>1, <2>2 DEF BlockDone, ChipFields
  <2>4. b.off + n < b.size => (b.off + n) % Word = 0
    BY <1>4, <1>5, <1>8, PieceOf DEF Going
  <2>5. Expected' /\ toC' = toC /\ Types'
    BY <1>3, <1>4, <2>1, <2>3 DEF Going, Expected, HandOver, SameImage, OnCourse, Types
  <2>6. CASE b.type = "52" /\ Submit("update") /\ call' = call /\ faults' = faults
    <3>1. ToSet(wq') = ToSet(wq) \cup {"update"}
      BY <2>6, Submitted DEF Inv
    <3>2. /\ ~Has("info")' /\ Has("update")' /\ ~Has("flag")'
          /\ ~Calling' /\ ~Writing' /\ Doing' = Doing
      BY <1>2, <2>6, <3>1 DEF Has, Calling, Writing, Doing
    <3>3. OwnBlock'
      BY <1>2, <1>3, <1>4, <1>5, <2>3, <2>4, <2>5, <2>6 DEF OwnBlock, Piece, Going, SameImage
    <3>4. Progress'
      BY <1>2, <2>5, <3>2, <3>3 DEF Progress, Streaming
    <3>5. Talk'
      BY <1>2, <2>5, <3>2 DEF Talk, Announced, DoneApart, FlagLast
    <3>6. OnCourse'
      BY <1>2, <1>3, <2>5, <3>4, <3>5 DEF OnCourse, Serving, FlagMeansStored, SameImage
    <3>7. Handed = b.off /\ Handed' = b.off
      BY <1>2, <1>3, <1>4, <2>3, <3>2
      DEF Handed, Going, Expected, SameImage, Has, Writing, Unanswered
    <3>8. QED
      BY <1>3, <2>6, <3>6, <3>7, Untouched DEF SameImage
  <2>7. CASE b.type # "52" /\ app_cmd_request(Ask("write", b.off, Bytes(buf, n))) /\ UNCHANGED wq
    <3>1. Idle
      BY <1>2, <2>7 DEF Doing, Calling, Idle
    <3>2. /\ ~Has("info")' /\ ~Has("update")' /\ ~Has("flag")'
      BY <1>2, <2>7 DEF Has
    <3>3. \/ call' = Ask("write", b.off, Bytes(buf, n)) /\ faults' = faults
          \/ call' = None /\ faults' = faults + 1
      BY <2>7, <3>1 DEF app_cmd_request, Idle, Strike
    <3>4. ~Doing' /\ (Calling' => call'.op = "write")
      BY <3>3 DEF Doing, Calling, Ask
    <3>5. Writing' => PeerBlock'
      <4> SUFFICES ASSUME Writing' PROVE PeerBlock'
        OBVIOUS
      <4>1. call' = Ask("write", b.off, Bytes(buf, n))
        BY <3>3 DEF Writing
      <4>2. call'.at = b.off /\ call'.bytes = Bytes(buf, n)
        BY <4>1 DEF Ask
      <4>3. Queue(call'.bytes) /\ Len(call'.bytes) = n
        BY <1>5, <4>2, BytesLength
      <4>4. Piece(call.at, Len(call.bytes))'
        BY <1>4, <1>5, <2>3, <2>4, <4>2, <4>3 DEF Piece, Going
      <4>5. Queue(call.bytes)'
        BY <4>3 DEF Queue
      <4>6. b'.type = "91"
        BY <1>4, <2>3, <2>7 DEF Chip
      <4>7. QED
        BY <2>5, <4>4, <4>5, <4>6 DEF PeerBlock
    <3>6. Progress'
      BY <1>2, <2>5, <3>2, <3>4, <3>5 DEF Progress, Streaming
    <3>7. Talk'
      BY <1>2, <3>2, <3>4 DEF Talk, Announced, DoneApart, FlagLast
    <3>8. OnCourse'
      BY <1>2, <1>3, <2>5, <3>6, <3>7 DEF OnCourse, Serving, FlagMeansStored, SameImage
    <3>9. Handed = b.off
      BY <1>2, <1>4 DEF Handed, Going, Expected, Has, Writing, Unanswered
    <3>10. CASE call' = Ask("write", b.off, Bytes(buf, n)) /\ faults' = faults
      <4>1. call'.at = b.off /\ call'.op = "write" /\ call'.answer = "none"
        BY <3>10 DEF Ask
      <4>2. call' # None
        BY <3>10 DEF Apart
      <4>3. Handed' = b.off
        BY <1>3, <1>4, <3>2, <4>1, <4>2
        DEF Handed, Going, Expected, SameImage, Has, Unanswered
      <4>4. QED
        BY <1>3, <3>8, <3>9, <3>10, <4>3, Untouched DEF SameImage
    <3>11. CASE call' = None /\ faults' = faults + 1
      <4>1. Handed' = b.off + n
        BY <1>3, <1>4, <2>3, <3>2, <3>11
        DEF Handed, Going, Expected, SameImage, Has, Unanswered
      <4>2. QED
        BY <1>3, <1>4, <1>5, <3>8, <3>9, <3>11, <4>1, Missed DEF SameImage, Going, Expected
    <3>12. QED
      BY <3>3, <3>8, <3>10, <3>11
  <2>8. QED
    BY <1>4, <2>1, <2>6, <2>7 DEF HandOver, cmd_request_flash_write, Chip
<1>9. CASE ~(n = Block \/ n = b.size - b.off)
  <2>1. b' = [b EXCEPT !.buf = buf, !.bufLen = n] /\ Notify(Plain("get")) /\ UNCHANGED <<wq, call>>
    BY <1>6, <1>7, <1>9
  <2>2. SameBlock
    BY <1>5, <2>1 DEF SameBlock, ChipFields
  <2> DEFINE p == Plain("get")
  <2>3. p.op = "get" /\ (toC' = Sent(p) \/ toC' = toC) /\ faults' \in {faults, faults + 1}
    BY <2>1, Noted DEF Plain
  <2> HIDE DEF p
  <2>4. \A q \in ToSet(toC') : q.op \in {"cut", "get"}
    BY <1>2, <2>3, Added1
  <2>5. /\ ~Has("info")' /\ ~Has("update")' /\ ~Has("flag")'
        /\ ~Calling' /\ ~Writing' /\ Doing' = Doing
    BY <1>2, <2>1 DEF Has, Calling, Writing, Doing
  <2>6. Talk'
    BY <1>2, <2>2, <2>4, <2>5 DEF Talk, Announced, DoneApart, FlagLast, SameBlock
  <2>7. OnCourse'
    <3>1. Streaming /\ Serving'
      BY <1>2, <1>3 DEF Streaming, Serving
    <3>2. QED
      BY <1>2, <1>3, <2>2, <2>5, <2>6, <3>1, Kept
  <2>8. Handed' = Handed
    BY <1>2, <1>3, <2>2, <2>5, HandedSame DEF SameImage, SameBlock, Unwritten, Unanswered, Writing
  <2>9. QED
    BY <1>3, <2>3, <2>7, <2>8, Untouched DEF SameImage
<1>10. QED
  BY <1>8, <1>9


-----------------------------------------------------------------------------
(* SIMP and the ichip *)

\* A request does not ask for the turn of another.
LEMMA CallingAlone ==
  ASSUME Inv, Calling
  PROVE  /\ ~Asking /\ ~Has("info") /\ ~Has("update")
         /\ \A p \in ToSet(toC) : p.op = "cut"
         /\ \A p \in ToSet(toB) : p.op = "empty"
BY TurnOf DEF Inv, Turn, Only, MacsTurn, PacketsTurn

\* What is known of a block that the ichip has to write.
LEMMA BlockUnderWay ==
  ASSUME Inv, OnCourse, Writing
  PROVE  /\ Calling /\ ~Has("update") /\ (Has("flag") => ~conn)
         /\ told = FALSE /\ job.chip = "91" /\ b.type = "91" /\ job.size = b.size
         /\ Len(call.bytes) \in 1..Block /\ call.at \in Nat /\ call.at % Word = 0
         /\ call.at + Len(call.bytes) = b.off /\ b.off <= b.size /\ b.size <= SlotLen
         /\ b.off < b.size => b.off % Word = 0
         /\ Queue(call.bytes)
         /\ Handed = IF Unanswered THEN call.at ELSE b.off
<1>1. Calling
  BY DEF Writing, Calling
<1>2. ~Has("update") /\ (Has("flag") => ~conn)
  BY <1>1, CallingAlone DEF OnCourse, Talk, FlagLast
<1>3. PeerBlock
  BY DEF OnCourse, Progress
<1>4. Handed = IF Unanswered THEN call.at ELSE b.off
  BY <1>2, <1>3 DEF Handed, Has, Writing, PeerBlock, Expected
<1>5. QED
  BY <1>1, <1>2, <1>3, <1>4 DEF PeerBlock, Expected, Piece, OnCourse, Types

\* The ichip answers, and has written the block unless its flash failed.
LEMMA IchipOn ==
  ASSUME Inv, OnCourse, Ichip
  PROVE  OnCourse' /\ Abstract
<1>1. PICK op \in RequestOp, ok \in BOOLEAN :
        /\ Answer(op, ok)
        /\ \/ op # "write" /\ put' = put /\ faults' \in {faults, faults + 1}
           \/ op = "write" /\ put' = put /\ faults' = faults + 1
           \/ /\ op = "write" /\ ok = app_flash_write(slot91, call.at, call.bytes).ok
              /\ put' = (IF ok THEN put \cup Span(call.at, Len(call.bytes)) ELSE put)
              /\ faults' = faults
  <2>1. CASE req_dev_fwinfo92
    BY <2>1 DEF req_dev_fwinfo92, RequestOp
  <2>2. CASE req_cb_flash_erase
    <3> DEFINE ok == app_flash_erase_page(slot91, 0, call.at).ok
    <3>1. ok \in BOOLEAN
      BY DEF app_flash_erase_page, flash_area_erase
    <3>2. QED
      BY <2>2, <3>1 DEF req_cb_flash_erase, RequestOp, Strike
  <2>3. CASE req_cb_flash_write
    <3> DEFINE ok == app_flash_write(slot91, call.at, call.bytes).ok
    <3>1. ok \in BOOLEAN
      BY DEF app_flash_write, flash_area_write
    <3>2. QED
      BY <2>3, <3>1 DEF req_cb_flash_write, RequestOp, Strike
  <2>4. CASE req_cb_flash_done
    BY <2>4 DEF req_cb_flash_done, RequestOp
  <2>5. QED
    BY <2>1, <2>2, <2>3, <2>4 DEF Ichip
<1>2. /\ c' = c /\ conn' = conn /\ toC' = toC /\ toB' = toB /\ b' = b /\ phase' = phase /\ wq' = wq
      /\ slave' = slave /\ flag52' = flag52 /\ job' = job /\ told' = told
      /\ call # None /\ call.answer = "none" /\ call.op = op
      /\ call' = [call EXCEPT !.answer = IF ok THEN "ok" ELSE "empty"]
  BY <1>1 DEF Answer, link, chip, Unanswered
<1>3. /\ call'.op = op /\ call'.at = call.at /\ call'.bytes = call.bytes
      /\ call'.answer # "none"
  BY <1>2 DEF Inv, Typed, CallTyped
<1>4. slave = "none"
  BY <1>2 DEF OnCourse, Serving
<1>5. CASE op # "write"
  <2>1. OnCourse'
    BY <1>1, <1>2, <1>3, <1>4, <1>5, Silently
    DEF SameImage, SameBlock, Serving, Asking, Has, Inv, Linked
  <2>2. Handed' = Handed
    BY <1>2, <1>3, <1>5, HandedSame DEF Unwritten, Has
  <2>3. QED
    BY <1>1, <1>2, <1>5, <2>1, <2>2, Untouched
<1>6. CASE op = "write"
  <2> DEFINE n == Len(call.bytes)
  <2>1. Writing /\ Unanswered
    BY <1>2, <1>6 DEF Writing, Unanswered
  <2>2. /\ ~Has("update") /\ told = FALSE /\ job.chip = "91" /\ job.size = b.size
        /\ n \in 1..Block /\ call.at \in Nat /\ call.at % Word = 0
        /\ call.at + n = b.off /\ b.off <= b.size /\ b.size <= SlotLen
        /\ Queue(call.bytes) /\ Handed = call.at
    BY <2>1, BlockUnderWay
  <2>3. app_flash_write(slot91, call.at, call.bytes).ok
    <3>1. call.at + n <= SlotLen
      BY <2>2, FlashAssumption DEF Inv, Typed
    <3>2. QED
      BY <2>2, <3>1, WriteSucceeds
  <2> HIDE DEF n
  <2>4. OnCourse'
    <3>1. PeerBlock
      BY <2>1 DEF OnCourse, Progress
    <3>2. PeerBlock'
      BY <1>2, <1>3, <3>1 DEF PeerBlock, Expected, Piece, Queue
    <3>3. Calling /\ (Has("flag") => ~conn)
      BY <2>1, BlockUnderWay
    <3>4. /\ ~Asking' /\ ~Has("info")' /\ ~Has("update")' /\ (Has("flag")' <=> Has("flag"))
          /\ \A p \in ToSet(toC') : p.op = "cut"
      BY <1>2, <3>3, CallingAlone DEF Has, Asking
    <3>5. ~Doing' /\ call'.op = "write"
      BY <1>3, <1>6 DEF Doing
    <3>6. ~Streaming'
      BY <1>2, <3>3, <3>4, <3>5, CallingAlone DEF Streaming
    <3>7. Progress'
      BY <3>2, <3>4, <3>6 DEF Progress
    <3>8. Talk'
      BY <1>2, <3>3, <3>4, <3>5 DEF OnCourse, Talk, Announced, DoneApart, FlagLast
    <3>9. QED
      BY <1>2, <1>4, <2>2, <3>7, <3>8 DEF OnCourse, Types, Serving, FlagMeansStored
  <2>5. Handed' = call.at + n
    BY <1>2, <1>3, <2>2 DEF Handed, Has, Unanswered
  <2>6. CASE put' = put /\ faults' = faults + 1
    BY <1>2, <2>2, <2>4, <2>5, <2>6, Missed
  <2>7. CASE put' = put \cup Span(call.at, n) /\ faults' = faults
    BY <1>2, <2>2, <2>4, <2>5, <2>7, Delivered DEF Span
  <2>8. QED
    BY <1>1, <1>6, <2>3, <2>6, <2>7 DEF n
<1>7. QED
  BY <1>5, <1>6

\* A response is on its way to the work queue.
LEMMA RespondedOn ==
  ASSUME Inv, OnCourse, Responded
  PROVE  OnCourse' /\ Abstract
<1>1. /\ c' = c /\ conn' = conn /\ toC' = toC /\ toB' = toB /\ b' = b /\ phase' = phase
      /\ call' = call /\ slave' = slave /\ SameImage /\ faults' = faults /\ Submit("rsp")
  BY DEF Responded, link, simp, flash, history, SameImage
<1>2. ToSet(wq') = ToSet(wq) \cup {"rsp"}
  BY <1>1, Submitted DEF Inv
<1>3. /\ Has("flag")' <=> Has("flag")
      /\ Has("info")' <=> Has("info")
      /\ Has("update")' <=> Has("update")
  BY <1>2 DEF Has
<1>4. OnCourse'
  BY <1>1, <1>3, Silently DEF SameImage, SameBlock, OnCourse, Serving, Asking, Inv, Linked
<1>5. Handed' = Handed
  BY <1>1, <1>3, HandedSame DEF SameImage, Unwritten, Unanswered
<1>6. QED
  BY <1>1, <1>4, <1>5, Untouched DEF SameImage

\* A request that never left may have been a block.
LEMMA TxAbortedOn ==
  ASSUME Inv, OnCourse, TxAborted
  PROVE  OnCourse' /\ Abstract
<1>1. /\ c' = c /\ conn' = conn /\ toC' = toC /\ toB' = toB /\ b' = b /\ phase' = phase /\ wq' = wq
      /\ Unanswered /\ call' = None /\ slave' = slave /\ SameImage /\ faults' = faults + 1
  BY DEF TxAborted, Strike, link, chip, flash, history, SameImage
<1>2. slave = "none"
  BY <1>1 DEF OnCourse, Serving, Unanswered
<1>3. OnCourse'
  BY <1>1, <1>2, Silently DEF SameImage, SameBlock, Serving, Asking, Has, Inv, Linked
<1>4. CASE call.op = "write"
  <2>1. Writing
    BY <1>1, <1>4 DEF Writing, Unanswered
  <2>2. Handed' = b.off
    BY <1>1, <2>1, BlockUnderWay DEF Handed, SameImage, Has, Unanswered
  <2>3. Handed = call.at
    BY <1>1, <2>1, BlockUnderWay
  <2>4. QED
    BY <1>1, <1>3, <2>1, <2>2, <2>3, BlockUnderWay, Missed DEF SameImage
<1>5. CASE call.op # "write"
  <2>1. Handed' = Handed
    BY <1>1, <1>5, HandedSame DEF SameImage, Unwritten, Unanswered, Has
  <2>2. QED
    BY <1>1, <1>3, <2>1, Untouched DEF SameImage
<1>6. QED
  BY <1>4, <1>5

\* The ichip requests only when nothing is left over; the end of a serial update is
\* the beginning of nothing over Bluetooth.
LEMMA IchipAsksOn ==
  ASSUME Timely, Inv, OnCourse, NEW op, IchipAsks(op)
  PROVE  OnCourse' /\ Abstract
<1>1. /\ c' = c /\ conn' = conn /\ toC' = toC /\ toB' = toB /\ b' = b /\ phase' = phase
      /\ call' = call /\ slave' = op /\ faults' = faults /\ Submit("req")
      /\ call = None /\ wq = <<>> /\ b.off = 0 /\ ~conn
  BY DEF IchipAsks, Timely, Quiet, Idle, link
<1>2. ToSet(wq) = {} /\ ToSet(wq') = {"req"}
  BY <1>1, Submitted, NothingIn DEF Inv
<1>3. /\ ~Has("flag")' /\ ~Has("info")' /\ ~Has("update")'
      /\ ~Has("update")
  BY <1>2 DEF Has
<1>4. toB' = <<>>
  BY <1>1 DEF Inv, Linked
<1>5. CASE op = "done"
  <2>1. job' = NoJob /\ put' = {} /\ told' = FALSE /\ flag52' = FALSE
    BY <1>5 DEF IchipAsks
  <2>2. job'.size = 0
    BY <2>1 DEF NoJob
  <2>3. OnCourse'
    BY <1>1, <1>3, <1>4, <2>1, <2>2, NothingIn
    DEF OnCourse, Types, Serving, Progress, Streaming, Writing, Talk, Announced, DoneApart, FlagLast,
        FlagMeansStored
  <2>4. Handed' = 0
    BY <1>1, <1>3, <2>1 DEF Handed, Has, Unanswered
  <2>5. AsTransfer!Begin(0)
    BY <1>1, <2>1, <2>2, <2>4 DEF AsTransfer!Begin
  <2>6. QED
    BY <2>3, <2>5 DEF Abstract, AsTransfer!Next
<1>6. CASE op # "done"
  <2>1. SameImage
    BY <1>6 DEF IchipAsks, SameImage
  <2>2. OnCourse'
    BY <1>1, <1>3, <1>4, <1>6, <2>1, Silently DEF SameBlock, Serving, Asking
  <2>3. Handed' = Handed
    BY <1>1, <1>3, <2>1, HandedSame DEF SameImage, Unwritten, Unanswered
  <2>4. QED
    BY <1>1, <2>1, <2>2, <2>3, Untouched DEF SameImage
<1>7. QED
  BY <1>5, <1>6

\* A request is over and no block is told.
LEMMA Over ==
  ASSUME Inv, OnCourse, c' = c, conn' = conn, toC' = toC, toB' = toB, b' = b, slave' = slave,
         SameImage, faults' \in {faults, faults + 1},
         call # None, call.op # "write", call' = None,
         Asking' => Asking,
         Has("flag")' => Has("flag"), Has("info")' => Has("info"), Has("update")' <=> Has("update")
  PROVE  OnCourse' /\ Abstract
<1>1. Serving' /\ (~conn' => toB' = <<>>)
  BY DEF OnCourse, Serving, Inv, Linked
<1>2. OnCourse'
  BY <1>1, Silently DEF SameBlock
<1>3. Handed' = Handed
  BY HandedSame DEF SameImage, Unwritten, Unanswered
<1>4. QED
  BY <1>2, <1>3, Untouched DEF SameImage

\* The device information is passed on.
LEMMA InfoPassed ==
  ASSUME Inv, OnCourse, c' = c, conn' = conn, toB' = toB, slave' = slave, SameImage, SameBlock,
         faults' \in {faults, faults + 1},
         NEW p, p.op = "devinf", toC' = Sent(p) \/ toC' = toC,
         Calling, call.op # "write", call' = None, phase' = phase,
         Has("flag")' => Has("flag"), Has("info")' => Has("info"), Has("update")' <=> Has("update")
  PROVE  OnCourse' /\ Abstract
<1>1. /\ ~Asking /\ ~Has("info") /\ ~Has("update")
      /\ \A q \in ToSet(toC) : q.op = "cut"
      /\ \A q \in ToSet(toB) : q.op = "empty"
      /\ (Has("flag") => ~conn) /\ slave = "none"
  BY CallingAlone DEF OnCourse, Talk, FlagLast, Serving, Calling
<1>2. \A q \in ToSet(toC') : q.op \in {"cut", "devinf"}
  BY <1>1, Added1
<1>3. ~Calling' /\ ~Doing' /\ ~Writing' /\ ~Asking'
  BY <1>1 DEF Calling, Doing, Writing, Asking
<1>4. ~Streaming'
  BY <1>1, <1>2, <1>3 DEF Streaming
<1>5. Talk'
  BY <1>1, <1>3 DEF OnCourse, Talk, Announced, DoneApart, FlagLast, SameImage
<1>6. OnCourse'
  BY <1>1, <1>3, <1>4, <1>5, Kept DEF Serving
<1>7. Handed' = Handed
  BY HandedSame DEF SameImage, SameBlock, Unwritten, Unanswered
<1>8. QED
  BY <1>6, <1>7, Untouched DEF SameImage

\* The ichip has the block, or never got it: the next packet is asked for, or the
\* end told.
LEMMA BlockTold ==
  ASSUME Inv, OnCourse, Writing,
         c' = c, conn' = conn, toB' = toB, phase' = phase, slave' = slave,
         job' = job, put' = put, flag52' = flag52,
         Unanswered => faults' = faults + 1, faults' \in {faults, faults + 1},
         Has("flag")' => Has("flag"), Has("info")' => Has("info"), Has("update")' => Has("update"),
         IF b.off = b.size
         THEN /\ toC' = Sent(Plain("success")) \/ toC' = toC
              /\ b'.off = 0 /\ b'.size = b.size /\ b'.type = b.type /\ told' = TRUE
              /\ call' = None \/ (call'.op = "done" /\ call'.answer = "none")
         ELSE /\ toC' = Sent(Plain("get")) \/ toC' = toC
              /\ SameBlock /\ told' = told /\ call' = None
  PROVE  OnCourse' /\ Abstract
<1> DEFINE n == Len(call.bytes)
<1>1. /\ Calling /\ ~Has("update") /\ (Has("flag") => ~conn)
      /\ told = FALSE /\ job.chip = "91" /\ b.type = "91" /\ job.size = b.size
      /\ n \in 1..Block /\ call.at \in Nat /\ call.at + n = b.off
      /\ b.off <= b.size /\ b.size <= SlotLen
      /\ b.off < b.size => b.off % Word = 0
      /\ Handed = IF Unanswered THEN call.at ELSE b.off
  BY BlockUnderWay
<1> HIDE DEF n
<1>2. /\ ~Asking /\ ~Has("info") /\ slave = "none"
      /\ \A q \in ToSet(toC) : q.op = "cut"
      /\ \A q \in ToSet(toB) : q.op = "empty"
  BY <1>1, CallingAlone DEF OnCourse, Serving, Calling
<1>3. b.off \in Nat /\ b.size \in Nat
  BY DEF Inv, Typed
<1>4. ~Has("info")' /\ ~Has("update")' /\ ~Asking'
  BY <1>1, <1>2 DEF Asking
<1>5. CASE b.off = b.size
  <2> DEFINE p == Plain("success")
  <2>1. p.op = "success" /\ (toC' = Sent(p) \/ toC' = toC)
    BY <1>5 DEF Plain
  <2> HIDE DEF p
  <2>2. \A q \in ToSet(toC') : q.op \in {"cut", "success"}
    BY <1>2, <2>1, Added1
  <2>3. /\ b'.off = 0 /\ b'.size = b.size /\ b'.type = b.type /\ told' = TRUE
        /\ call' = None \/ (call'.op = "done" /\ call'.answer = "none")
    BY <1>5
  <2>4. ~Calling' /\ ~Writing'
    BY <2>3 DEF Calling, Writing
  <2>5. Progress'
    BY <1>2, <1>4, <2>2, <2>4 DEF Progress, Streaming
  <2>6. Talk'
    BY <1>1, <1>2, <1>4, <2>2, <2>3, <2>4 DEF Talk, Announced, DoneApart, FlagLast
  <2>7. OnCourse'
    BY <1>1, <1>2, <2>3, <2>5, <2>6 DEF OnCourse, Types, Serving, FlagMeansStored
  <2>8. Handed' = job.size
    BY <2>3 DEF Handed
  <2>9. CASE Unanswered
    BY <1>1, <1>5, <2>3, <2>7, <2>8, <2>9, Missed
  <2>10. CASE ~Unanswered
    <3>1. AsTransfer!Tell
      BY <1>1, <1>5, <2>3, <2>8, <2>10 DEF AsTransfer!Tell
    <3>2. QED
      BY <2>7, <3>1 DEF Abstract, AsTransfer!Next
  <2>11. QED
    BY <2>9, <2>10
<1>6. CASE b.off # b.size
  <2> DEFINE p == Plain("get")
  <2>1. p.op = "get" /\ (toC' = Sent(p) \/ toC' = toC)
    BY <1>6 DEF Plain
  <2> HIDE DEF p
  <2>2. \A q \in ToSet(toC') : q.op \in {"cut", "get"}
    BY <1>2, <2>1, Added1
  <2>3. SameBlock /\ told' = told /\ call' = None
    BY <1>6
  <2>4. ~Calling' /\ ~Writing' /\ ~Doing'
    BY <2>3 DEF Calling, Writing, Doing
  <2>5. Going'
    BY <1>1, <1>3, <1>6, <2>3 DEF Going, Expected, SameBlock
  <2>6. Progress'
    BY <1>4, <2>4, <2>5 DEF Progress
  <2>7. Talk'
    BY <1>1, <1>2, <2>4 DEF Talk, Announced, DoneApart, FlagLast
  <2>8. OnCourse'
    BY <1>1, <1>2, <2>3, <2>6, <2>7 DEF OnCourse, Types, Serving, FlagMeansStored, SameBlock
  <2>9. Handed' = b.off
    BY <1>1, <1>4, <2>3 DEF Handed, Has, Unanswered, SameBlock
  <2>10. CASE Unanswered
    BY <1>1, <2>3, <2>8, <2>9, <2>10, Missed
  <2>11. CASE ~Unanswered
    BY <1>1, <2>3, <2>8, <2>9, <2>11, Untouched
  <2>12. QED
    BY <2>10, <2>11
<1>7. QED
  BY <1>5, <1>6

\* The timer of SIMP gives up.
LEMMA TimeoutOn ==
  ASSUME Inv, OnCourse, tmr_rsp_timeout_handler
  PROVE  OnCourse' /\ Abstract
<1>1. /\ c' = c /\ conn' = conn /\ toB' = toB /\ wq' = wq /\ slave' = slave
      /\ call # None /\ call' = None
      /\ job' = job /\ put' = put /\ flag52' = flag52 /\ faults' = faults + 1
  BY DEF tmr_rsp_timeout_handler, Strike, flash
<1>2. /\ Has("flag")' <=> Has("flag")
      /\ Has("info")' <=> Has("info")
      /\ Has("update")' <=> Has("update")
  BY <1>1 DEF Has
<1>3. call.op \in RequestOp
  BY <1>1 DEF Inv, Typed, CallTyped
<1>4. CASE call.op \in {"erase", "done"}
  <2>1. phase' \in {phase, "halted"} /\ toC' = toC /\ b' = b /\ told' = told
    BY <1>4 DEF tmr_rsp_timeout_handler
  <2>2. Asking' => Asking
    BY <2>1 DEF Asking
  <2>3. QED
    BY <1>1, <1>2, <1>4, <2>1, <2>2, Over DEF SameImage
<1>5. CASE call.op = "write"
  <2>1. /\ toC' = IF b.off = b.size THEN Sent(Plain("success"))
                  ELSE IF b.off > 0 THEN Sent(Plain("get")) ELSE toC
        /\ told' = (told \/ b.off = b.size)
        /\ b' = [b EXCEPT !.off = IF b.off = b.size THEN 0 ELSE b.off]
        /\ phase' = phase
    BY <1>5 DEF tmr_rsp_timeout_handler
  <2>2. Writing
    BY <1>1, <1>5 DEF Writing
  <2>3. told = FALSE
    BY <2>2, BlockUnderWay
  <2>4. /\ b'.off = (IF b.off = b.size THEN 0 ELSE b.off)
        /\ b'.size = b.size /\ b'.type = b.type /\ b'.at = b.at /\ b'.len = b.len
    BY <2>1 DEF Inv, Typed, ChipFields
  <2>5. QED
    BY <1>1, <1>2, <2>1, <2>2, <2>3, <2>4, BlockTold DEF SameBlock
<1>6. CASE call.op = "devinf"
  <2>1. PICK n \in Garbage : b' = [b EXCEPT !.avail91 = n] /\ toC' = Sent(DevInf(n, b.avail52))
    BY <1>6 DEF tmr_rsp_timeout_handler
  <2>2. Calling /\ told' = told /\ phase' = phase
    BY <1>1, <1>6 DEF Calling, tmr_rsp_timeout_handler
  <2>3. SameBlock
    BY <2>1 DEF SameBlock, Inv, Typed, ChipFields
  <2>4. PICK p : p = DevInf(n, b.avail52)
    OBVIOUS
  <2>5. p.op = "devinf" /\ toC' = Sent(p)
    BY <2>1, <2>4 DEF DevInf
  <2>6. QED
    BY <1>1, <1>2, <1>6, <2>2, <2>3, <2>5, InfoPassed DEF SameImage
<1>7. QED
  BY <1>3, <1>4, <1>5, <1>6 DEF RequestOp

-----------------------------------------------------------------------------
(* The work queue *)

\* A work item is taken off.
LEMMA Worked ==
  ASSUME Inv, NEW work, Wk(work), wq' = Tail(wq)
  PROVE  /\ Has(work) /\ ~Has(work)' /\ ~Asking
         /\ work # "flag" => (Has("flag")' <=> Has("flag"))
         /\ work # "info" => (Has("info")' <=> Has("info"))
         /\ work # "update" => (Has("update")' <=> Has("update"))
<1>1. Has(work) /\ ~Asking /\ ToSet(wq') = ToSet(wq) \ {work}
  BY Ran DEF Inv
<1>2. QED
  BY <1>1 DEF Has

\* The bchip asks for the first packet of its own image.
LEMMA SelfInfoOn ==
  ASSUME Inv, OnCourse, wk_self_info_handler
  PROVE  OnCourse' /\ Abstract
<1>1. /\ Wk("info") /\ wq' = Tail(wq) /\ c' = c /\ conn' = conn /\ toC' = toC /\ toB' = toB
      /\ b' = b /\ call' = call /\ slave' = slave /\ SameImage /\ faults' = faults
  BY DEF wk_self_info_handler, Wk, simp, flash, history, SameImage
<1>2. /\ Has("info") /\ ~Has("info")'
      /\ Has("flag")' <=> Has("flag")
      /\ Has("update")' <=> Has("update")
  BY <1>1, Worked
<1>3. conn => b.type = "52" /\ ~Has("flag")
  BY <1>2 DEF OnCourse, Progress, Talk, FlagLast
<1>4. /\ Calling' <=> Calling
      /\ Writing' <=> Writing
      /\ Doing' <=> Doing
  BY <1>1 DEF Calling, Writing, Doing
<1>5. Talk'
  BY <1>1, <1>2, <1>3, <1>4 DEF OnCourse, Talk, Announced, DoneApart, FlagLast, SameImage
<1>6. Streaming' => Streaming
  BY <1>1, <1>2, <1>4 DEF Streaming
<1>7. OnCourse'
  BY <1>1, <1>2, <1>4, <1>5, <1>6, Kept DEF SameBlock, OnCourse, Serving, SameImage
<1>8. Handed' = Handed
  BY <1>1, <1>2, HandedSame DEF SameImage, Unwritten, Unanswered
<1>9. QED
  BY <1>1, <1>7, <1>8, Untouched DEF SameImage

\* It changes the parameters of the link and asks.
LEMMA BluetoothParamsOn ==
  ASSUME Inv, OnCourse, update_bluetooth_params
  PROVE  OnCourse' /\ Abstract
<1>1. /\ c' = c /\ conn' = conn /\ toB' = toB /\ b' = b /\ wq' = wq /\ call' = call
      /\ slave' = slave /\ phase' = "ready" /\ SameImage
  BY DEF update_bluetooth_params, simp, flash, history, SameImage
<1>2. /\ ~Asking'
      /\ Has("flag")' <=> Has("flag")
      /\ Has("info")' <=> Has("info")
      /\ Has("update")' <=> Has("update")
      /\ Serving' /\ SameBlock
  BY <1>1 DEF Asking, Has, OnCourse, Serving, SameBlock, SameImage
<1>3. /\ Calling' <=> Calling
      /\ Writing' <=> Writing
      /\ Doing' <=> Doing
  BY <1>1 DEF Calling, Writing, Doing
<1>4. Handed' = Handed
  BY <1>1, <1>2, HandedSame DEF SameImage, SameBlock, Unwritten, Unanswered
<1>5. CASE phase = "asking"
  <2>1. Asking
    BY <1>5 DEF Asking
  <2>2. /\ conn /\ Doing => b.type = "52"
        /\ Has("flag") => ~conn
        /\ \A q \in ToSet(toC) : q.op = "cut"
        /\ \A q \in ToSet(toB) : q.op = "empty"
    BY <2>1, TurnOf DEF Inv, Turn, Only, MacsTurn, PacketsTurn, OnCourse, Talk, DoneApart, FlagLast
  <2> DEFINE p == Plain("get")
  <2>3. p.op = "get" /\ (toC' = Sent(p) \/ toC' = toC) /\ faults' \in {faults, faults + 1}
    BY <1>5, Noted DEF Plain, update_bluetooth_params
  <2> HIDE DEF p
  <2>4. \A q \in ToSet(toC') : q.op \in {"cut", "get"}
    BY <2>2, <2>3, Added1
  <2>5. Talk'
    BY <1>1, <1>2, <1>3, <2>2, <2>4 DEF OnCourse, Talk, Announced, DoneApart, FlagLast, SameImage
  <2>6. Streaming' => Streaming
    BY <1>1, <2>1 DEF Streaming
  <2>7. OnCourse'
    BY <1>1, <1>2, <1>3, <2>5, <2>6, Kept
  <2>8. QED
    BY <1>1, <1>4, <2>3, <2>7, Untouched DEF SameImage
<1>6. CASE phase # "asking"
  <2>1. toC' = toC /\ faults' = faults
    BY <1>6 DEF update_bluetooth_params
  <2>2. OnCourse'
    BY <1>1, <1>2, <2>1, Silently DEF Inv, Linked
  <2>3. QED
    BY <1>1, <1>4, <2>1, <2>2, Untouched DEF SameImage
<1>7. QED
  BY <1>5, <1>6

\* It writes a block of its own image, which nothing but a fault prevents.
LEMMA SelfUpdateOn ==
  ASSUME Inv, OnCourse, wk_self_update_handler
  PROVE  OnCourse' /\ Abstract
<1> DEFINE bytes == Bytes(b.buf, b.len)
           r == app_flash_write(slot52, b.at, bytes)
<1>1. /\ Wk("update") /\ c' = c /\ conn' = conn /\ toB' = toB /\ phase' = phase
      /\ call' = call /\ slave' = slave /\ flag52' = flag52 /\ job' = job
  BY DEF wk_self_update_handler, Wk, simp
<1>2. Has("update") /\ OwnBlock
  BY <1>1, Ran DEF Inv, OnCourse, Progress
<1>3. /\ told = FALSE /\ b.size = job.size /\ job.chip = "52" /\ b.type = "52"
      /\ b.at \in Nat /\ b.len \in 1..Block /\ b.at % Word = 0 /\ b.at + b.len = b.off
      /\ b.off <= b.size /\ b.size <= SlotLen /\ b.off \in Nat /\ b.size \in Nat
      /\ b.off < b.size => b.off % Word = 0
      /\ put = 0..(b.at - 1) /\ (conn => c.what = "52")
  BY <1>2 DEF OwnBlock, Expected, Piece, OnCourse, Types, Inv, Typed
<1>4. r.ok
  <2>1. Queue(bytes) /\ Len(bytes) = b.len
    BY <1>3, BlockAssumption, BytesLength
  <2> HIDE DEF bytes
  <2>2. b.at + Len(bytes) <= SlotLen
    BY <1>3, <2>1, FlashAssumption
  <2>3. QED
    BY <1>3, <2>1, <2>2, WriteSucceeds
<1>5. /\ ~Asking /\ ~Has("info") /\ ~Calling
      /\ \A q \in ToSet(toC) : q.op = "cut"
      /\ \A q \in ToSet(toB) : q.op = "empty"
      /\ Has("flag") => ~conn
  BY <1>2, TurnOf DEF Inv, Turn, Only, MacsTurn, PacketsTurn, OnCourse, Talk, FlagLast
<1>6. ~Asking' /\ ~Calling' /\ ~Writing /\ ~Writing' /\ (Doing' <=> Doing) /\ Serving'
  BY <1>1, <1>5 DEF Asking, Calling, Writing, Doing, OnCourse, Serving
<1>7. Handed = b.at
  BY <1>2, <1>3 DEF Handed, Has
<1>8. put \cup Span(b.at, b.len) = 0..(b.off - 1)
  BY <1>3 DEF Span
<1>9. CASE /\ put' = put \cup Span(b.at, b.len) /\ b.off = b.size
           /\ Notify(Plain("success")) /\ told' = TRUE /\ dfu_file_ready(0)
  <2> DEFINE p == Plain("success")
  <2>1. p.op = "success" /\ (toC' = Sent(p) \/ toC' = toC) /\ faults' \in {faults, faults + 1}
    BY <1>9, Noted DEF Plain
  <2> HIDE DEF p
  <2>2. \A q \in ToSet(toC') : q.op \in {"cut", "success"}
    BY <1>5, <2>1, Added1
  <2>3. b'.type = "52" /\ b'.off = 0 /\ b'.size = b.size
    BY <1>9 DEF dfu_file_ready, Inv, Typed, ChipFields
  <2>4. ToSet(wq') = (ToSet(wq) \ {"update"}) \cup {"flag"}
    BY <1>1, <1>9, Ran DEF dfu_file_ready, Inv
  <2>5. ~Has("info")' /\ ~Has("update")'
    BY <1>5, <2>4 DEF Has
  <2>6. Progress'
    BY <1>5, <1>6, <1>1, <2>2, <2>5 DEF Progress, Streaming, Calling
  <2>7. Talk'
    BY <1>1, <1>3, <1>5, <1>6, <1>9, <2>2, <2>3, <2>5 DEF Talk, Announced, DoneApart, FlagLast
  <2>8. put' = 0..(job'.size - 1)
    BY <1>1, <1>3, <1>8, <1>9
  <2>9. OnCourse'
    BY <1>3, <1>6, <1>9, <2>3, <2>6, <2>7, <2>8 DEF OnCourse, Types, FlagMeansStored, Chip
  <2>10. Handed' = job.size
    BY <1>1, <1>9 DEF Handed
  <2>11. QED
    BY <1>1, <1>3, <1>7, <1>9, <2>1, <2>9, <2>10, Delivered DEF Span
<1>10. CASE /\ put' = put \cup Span(b.at, b.len) /\ b.off # b.size
            /\ Notify(Plain("get")) /\ wq' = Tail(wq) /\ UNCHANGED <<b, told>>
  <2> DEFINE p == Plain("get")
  <2>1. p.op = "get" /\ (toC' = Sent(p) \/ toC' = toC) /\ faults' \in {faults, faults + 1}
    BY <1>10, Noted DEF Plain
  <2> HIDE DEF p
  <2>2. \A q \in ToSet(toC') : q.op \in {"cut", "get"}
    BY <1>5, <2>1, Added1
  <2>3. ~Has("info")' /\ ~Has("update")' /\ (Has("flag")' <=> Has("flag"))
    BY <1>1, <1>5, <1>10, Worked
  <2>4. Streaming' => Going'
    BY <1>1, <1>3, <1>8, <1>10 DEF Streaming, Going, Expected
  <2>5. Progress'
    BY <1>6, <2>3, <2>4 DEF Progress
  <2>6. Talk'
    BY <1>1, <1>3, <1>5, <1>6, <1>10, <2>2, <2>3 DEF OnCourse, Talk, Announced, DoneApart, FlagLast
  <2>7. ~flag52
    BY <1>3 DEF OnCourse, FlagMeansStored
  <2>8. OnCourse'
    BY <1>1, <1>3, <1>6, <1>10, <2>5, <2>6, <2>7 DEF OnCourse, Types, FlagMeansStored
  <2>9. Handed' = b.off
    BY <1>1, <1>3, <1>6, <1>10, <2>3 DEF Handed, Has, Unanswered, Writing
  <2>10. QED
    BY <1>1, <1>3, <1>7, <1>10, <2>1, <2>8, <2>9, Delivered DEF Span
<1>11. CASE Strike("flash") /\ wq' = Tail(wq) /\ UNCHANGED <<b, toC, slot52, put, told>>
  <2>1. ~Has("info")' /\ ~Has("update")' /\ (Has("flag")' <=> Has("flag"))
    BY <1>1, <1>5, <1>11, Worked
  <2>2. ~Streaming'
    BY <1>5, <1>6, <1>11, <1>1, <2>1 DEF Streaming, Calling
  <2>3. Talk'
    BY <1>1, <1>5, <1>6, <1>11, <2>1 DEF OnCourse, Talk, Announced, DoneApart, FlagLast
  <2>4. OnCourse'
    BY <1>1, <1>3, <1>6, <1>11, <2>1, <2>2, <2>3
    DEF OnCourse, Types, Progress, FlagMeansStored
  <2>5. Handed' = b.off
    BY <1>1, <1>3, <1>6, <1>11, <2>1 DEF Handed, Has, Unanswered, Writing
  <2>6. QED
    BY <1>1, <1>3, <1>7, <1>11, <2>4, <2>5, Missed DEF Strike
<1>12. QED
  BY <1>4, <1>9, <1>10, <1>11 DEF wk_self_update_handler

\* It sets the mcuboot flag.
LEMMA FlagOn ==
  ASSUME Inv, OnCourse, wk_update_mcuboot_flag_handler
  PROVE  OnCourse' /\ Abstract
<1>1. /\ Wk("flag") /\ wq' = Tail(wq) /\ c' = c /\ conn' = conn /\ toB' = toB /\ b' = b
      /\ call' = call /\ slave' = slave /\ phase' = "cutting" /\ Notify(Plain("cut"))
      /\ job' = job /\ put' = put /\ told' = told
  BY DEF wk_update_mcuboot_flag_handler, Wk, simp, history
<1>2. /\ Has("flag") /\ ~Has("flag")'
      /\ Has("info")' <=> Has("info")
      /\ Has("update")' <=> Has("update")
  BY <1>1, Worked
<1> DEFINE p == Plain("cut")
<1>3. p.op = "cut" /\ (toC' = Sent(p) \/ toC' = toC) /\ faults' \in {faults, faults + 1}
  BY <1>1, Noted DEF Plain
<1> HIDE DEF p
<1>4. \A q \in ToSet(toC') : q \in ToSet(toC) \/ q.op = "cut"
  BY <1>3, Added1
<1>5. /\ Calling' <=> Calling
      /\ Writing' <=> Writing
      /\ Doing' <=> Doing
      /\ ~Asking'
  BY <1>1 DEF Calling, Writing, Doing, Asking
<1>6. Streaming' => Streaming
  BY <1>1, <1>2, <1>4, <1>5 DEF Streaming
<1>7. Going' <=> Going
  BY <1>1 DEF Going, Expected
<1>8. Has("update")' => OwnBlock'
  BY <1>1, <1>2 DEF OnCourse, Progress, OwnBlock, Expected, Piece
<1>9. Writing' => PeerBlock'
  BY <1>1, <1>5 DEF OnCourse, Progress, PeerBlock, Expected, Piece, Queue
<1>10. Progress'
  BY <1>1, <1>2, <1>6, <1>7, <1>8, <1>9 DEF OnCourse, Progress
<1>11. Talk'
  BY <1>1, <1>2, <1>4, <1>5 DEF OnCourse, Talk, Announced, DoneApart, FlagLast
<1>12. FlagMeansStored'
  BY <1>1, <1>2 DEF OnCourse, Talk, FlagLast, FlagMeansStored
<1>13. OnCourse'
  BY <1>1, <1>10, <1>11, <1>12 DEF OnCourse, Types, Serving
<1>14. Handed' = Handed
  BY <1>1, <1>2, HandedSame DEF Unwritten, Unanswered
<1>15. QED
  BY <1>1, <1>3, <1>13, <1>14, Untouched

\* The response callbacks.
LEMMA ProcRspOn ==
  ASSUME Apart, Inv, OnCourse, wk_proc_rsp_handler
  PROVE  OnCourse' /\ Abstract
<1>1. /\ Wk("rsp") /\ wq' = Tail(wq) /\ c' = c /\ conn' = conn /\ toB' = toB /\ slave' = slave
      /\ job' = job /\ put' = put /\ flag52' = flag52
  BY DEF wk_proc_rsp_handler, Wk, flash
<1>2. /\ Has("rsp") /\ ~Asking
      /\ Has("flag")' <=> Has("flag")
      /\ Has("info")' <=> Has("info")
      /\ Has("update")' <=> Has("update")
  BY <1>1, Worked
<1>3. call # None /\ call.answer # "none"
  BY <1>2 DEF Inv, Pending
<1>4. CASE rsp_cb_flash_erase
  <2>1. Calling /\ call.op = "erase" /\ call' = None /\ b' = b /\ toC' = toC /\ told' = told
        /\ faults' = faults
    BY <1>3, <1>4 DEF rsp_cb_flash_erase, Calling
  <2>2. (Has("flag") => ~conn) /\ ~Doing' /\ ~Writing' /\ ~Calling'
    BY <2>1 DEF OnCourse, Talk, FlagLast, Doing, Writing, Calling
  <2>3. Talk'
    BY <1>1, <1>2, <2>1, <2>2 DEF OnCourse, Talk, Announced, DoneApart, FlagLast
  <2>4. Streaming' => Streaming
    BY <1>1, <1>2, <2>1, <2>2 DEF Streaming
  <2>5. SameImage /\ SameBlock /\ Serving'
    BY <1>1, <2>1 DEF SameImage, SameBlock, OnCourse, Serving
  <2>6. OnCourse'
    BY <1>1, <1>2, <2>2, <2>3, <2>4, <2>5, Kept
  <2>7. Handed' = Handed
    BY <1>1, <1>2, <2>1, HandedSame DEF Unwritten, Unanswered
  <2>8. QED
    BY <1>1, <2>1, <2>6, <2>7, Untouched
<1>5. CASE rsp_cb_flash_write
  <2>1. Writing /\ phase' = phase /\ ~Unanswered
    BY <1>3, <1>5 DEF rsp_cb_flash_write, Writing, Unanswered
  <2>2. told = FALSE
    BY <2>1, BlockUnderWay
  <2>3. CASE b.off = b.size
    <3>1. /\ b' = [b EXCEPT !.off = 0] /\ told' = TRUE
          /\ toC' = Sent(Plain("success")) \/ toC' = toC
          /\ call' \in {None, Ask("done", 0, <<>>)}
          /\ faults' \in {faults, faults + 1}
      BY <1>5, <2>3, Noted DEF rsp_cb_flash_write, Strike
    <3>2. call' = None \/ (call'.op = "done" /\ call'.answer = "none")
      BY <3>1 DEF Ask
    <3>3. b'.off = 0 /\ b'.size = b.size /\ b'.type = b.type
      BY <3>1 DEF Inv, Typed, ChipFields
    <3>4. QED
      BY <1>1, <1>2, <2>1, <2>3, <3>1, <3>2, <3>3, BlockTold
  <2>4. CASE b.off # b.size
    <3>1. /\ b' = b /\ told' = told /\ call' = None
          /\ toC' = Sent(Plain("get")) \/ toC' = toC
          /\ faults' \in {faults, faults + 1}
      BY <1>5, <2>4, Noted DEF rsp_cb_flash_write
    <3>2. SameBlock
      BY <3>1 DEF SameBlock
    <3>3. QED
      BY <1>1, <1>2, <2>1, <2>4, <3>1, <3>2, BlockTold
  <2>5. QED
    BY <2>3, <2>4
<1>6. CASE rsp_cb_flash_done
  <2>1. /\ call.op = "done" /\ call' = None /\ toC' = toC /\ b' = b /\ told' = told
        /\ phase' = phase /\ faults' = faults
    BY <1>6 DEF rsp_cb_flash_done
  <2>2. Asking' => Asking
    BY <2>1 DEF Asking
  <2>3. QED
    BY <1>1, <1>2, <1>3, <2>1, <2>2, Over DEF SameImage
<1>7. CASE rsp_dev_fwinfo91
  <2>1. Calling /\ call.op = "devinf" /\ phase' = phase /\ call' = None /\ told' = told
    BY <1>3, <1>7 DEF rsp_dev_fwinfo91, Calling
  <2>2. PICK n \in Garbage : b' = [b EXCEPT !.avail91 = n] /\ Notify(DevInf(n, b.avail52))
    BY <1>7 DEF rsp_dev_fwinfo91
  <2>3. SameBlock
    BY <2>2 DEF SameBlock, Inv, Typed, ChipFields
  <2>4. PICK p : p = DevInf(n, b.avail52)
    OBVIOUS
  <2>5. p.op = "devinf" /\ (toC' = Sent(p) \/ toC' = toC) /\ faults' \in {faults, faults + 1}
    BY <2>2, <2>4, Noted DEF DevInf
  <2>6. QED
    BY <1>1, <1>2, <2>1, <2>3, <2>5, InfoPassed DEF SameImage
<1>8. QED
  BY <1>4, <1>5, <1>6, <1>7 DEF wk_proc_rsp_handler

\* The end of a serial update sets the flag too, but there is no image of the link.
LEMMA ProcReqOn ==
  ASSUME Inv, OnCourse, wk_proc_req_handler
  PROVE  OnCourse' /\ Abstract
<1>1. /\ Wk("req") /\ c' = c /\ conn' = conn /\ toC' = toC /\ toB' = toB /\ phase' = phase
      /\ call' = call /\ slave' = "none" /\ SameImage /\ faults' = faults
  BY DEF wk_proc_req_handler, Wk, flash, history, SameImage
<1>2. CASE slave = "done"
  <2>1. call = None /\ ~conn /\ job.size = 0 /\ toB = <<>>
    BY <1>2 DEF OnCourse, Serving, Inv, Linked
  <2>2. dfu_file_ready(b.off)
    BY <1>2 DEF wk_proc_req_handler
  <2>3. b'.type = "52" /\ b'.off = b.off /\ b'.size = b.size /\ b'.at = b.at
    BY <2>2 DEF dfu_file_ready, Inv, Typed, ChipFields
  <2>4. ~Has("update")
    <3> SUFFICES ASSUME Has("update") PROVE FALSE
      OBVIOUS
    <3>1. b.at \in Nat /\ b.len \in 1..Block /\ b.at + b.len = b.off /\ b.off <= 0
      BY <2>1 DEF OnCourse, Progress, OwnBlock, Expected, Piece
    <3>2. QED
      BY <3>1
  <2>5. ToSet(wq') = (ToSet(wq) \ {"req"}) \cup {"flag"}
    BY <1>1, <2>2, Ran DEF dfu_file_ready, Inv
  <2>6. ~Has("update")'
    BY <2>4, <2>5 DEF Has
  <2>7. OnCourse'
    BY <1>1, <2>1, <2>3, <2>6, NothingIn
    DEF OnCourse, Types, Serving, Progress, Streaming, Writing, Talk, Announced, DoneApart, FlagLast,
        FlagMeansStored, SameImage, Chip
  <2>8. Handed' = Handed
    BY <1>1, <2>1, <2>3, <2>4, <2>6, HandedSame DEF SameImage, Unwritten, Unanswered
  <2>9. QED
    BY <1>1, <2>7, <2>8, Untouched DEF SameImage
<1>3. CASE slave # "done"
  <2>1. wq' = Tail(wq) /\ b' = b
    BY <1>3 DEF wk_proc_req_handler
  <2>2. /\ Has("flag")' <=> Has("flag")
        /\ Has("info")' <=> Has("info")
        /\ Has("update")' <=> Has("update")
    BY <1>1, <2>1, Worked
  <2>3. OnCourse'
    BY <1>1, <2>1, <2>2, Silently DEF SameBlock, Serving, Asking, Inv, Linked
  <2>4. Handed' = Handed
    BY <1>1, <2>1, <2>2, HandedSame DEF SameImage, Unwritten, Unanswered
  <2>5. QED
    BY <1>1, <2>3, <2>4, Untouched DEF SameImage
<1>4. QED
  BY <1>2, <1>3

-----------------------------------------------------------------------------
(* The link and BDUNK *)

\* Without a link only the work queue and the ichip go on with what they have.
LEMMA AloneOn ==
  ASSUME OnCourse, SameImage, SameBlock, faults' \in {faults, faults + 1},
         conn' = FALSE, toB' = <<>>, call' = call, wq' = wq, slave' = slave,
         Asking' => Asking
  PROVE  OnCourse' /\ Abstract
<1>1. Serving'
  BY DEF OnCourse, Serving, SameImage
<1>2. OnCourse'
  BY <1>1, Silently DEF Has
<1>3. Handed' = Handed
  BY HandedSame DEF SameImage, SameBlock, Unwritten, Unanswered, Has
<1>4. QED
  BY <1>2, <1>3, Untouched DEF SameImage

\* The link is cut, drops, or ends with BDUNK, which may start again.
LEMMA LinkEndsOn ==
  ASSUME Inv, OnCourse,
         \/ CutEnds \/ LinkDrops \/ Quit
         \/ \E what \in What, n52 \in Sizes \cup {0}, n91 \in Sizes \cup {0}, loads \in BOOLEAN :
              Launch(what, n52, n91, loads)
  PROVE  OnCourse' /\ Abstract
<1>1. CASE CutEnds
  BY <1>1, AloneOn
  DEF CutEnds, disconnected, simp, flash, history, SameImage, SameBlock, Asking
<1>2. CASE LinkDrops
  BY <1>2, AloneOn
  DEF LinkDrops, Strike, disconnected, chip, simp, flash, history, SameImage, SameBlock, Asking
<1>3. CASE Quit
  BY <1>3, AloneOn
  DEF Quit, Strike, disconnected, chip, simp, flash, history, SameImage, SameBlock, Asking
<1>4. ASSUME NEW what, NEW n52, NEW n91, NEW loads, Launch(what, n52, n91, loads)
      PROVE  OnCourse' /\ Abstract
  <2>1. c.status \in {"off", "crashed"} /\ conn' = conn /\ toB' = toB
    BY <1>4 DEF Launch
  <2>2. conn' = FALSE /\ toB' = <<>>
    BY <2>1 DEF Inv, Linked
  <2>3. QED
    BY <1>4, <2>2, AloneOn DEF Launch, chip, simp, flash, SameImage, SameBlock, Asking
<1>5. QED
  BY <1>1, <1>2, <1>3, <1>4

\* The bchip restarts and forgets the image.
LEMMA RebootOn ==
  ASSUME OnCourse, Reboot
  PROVE  OnCourse' /\ Abstract
<1>1. /\ conn' = FALSE /\ toB' = <<>> /\ b' = Statics /\ wq' = <<>> /\ call' = None
      /\ slave' = "none" /\ job' = NoJob /\ put' = {} /\ told' = FALSE /\ flag52' = FALSE
      /\ faults' = faults
  BY DEF Reboot, disconnected
<1>2. job'.size = 0 /\ b'.off = 0 /\ b'.type = "52" /\ b'.size = 0
  BY <1>1 DEF NoJob, Statics
<1>3. ~Has("flag")' /\ ~Has("info")' /\ ~Has("update")'
  BY <1>1, NothingIn DEF Has
<1>4. OnCourse'
  <2>1. ToSet(toB') = {}
    BY <1>1, NothingIn
  <2>2. Progress'
    BY <1>1, <1>3 DEF Progress, Streaming, Writing
  <2>3. Talk'
    BY <1>1, <1>3, <2>1 DEF Talk, Announced, DoneApart, FlagLast
  <2>4. Types' /\ Serving' /\ FlagMeansStored'
    <3>1. Types'
      <4>1. told' \in BOOLEAN /\ b'.type \in Chip
        BY <1>1, <1>2 DEF Chip
      <4>2. b'.size <= SlotLen
        BY <1>2, FlashAssumption
      <4>3. QED
        BY <4>1, <4>2 DEF Types
    <3>2. Serving'
      BY <1>1 DEF Serving
    <3>3. FlagMeansStored'
      BY <1>2 DEF FlagMeansStored
    <3>4. QED
      BY <3>1, <3>2, <3>3
  <2>5. QED
    BY <2>2, <2>3, <2>4 DEF OnCourse
<1>5. Handed' = 0
  BY <1>1, <1>2, <1>3 DEF Handed, Has, Unanswered
<1>6. AsTransfer!Begin(0)
  BY <1>1, <1>2, <1>5 DEF AsTransfer!Begin
<1>7. QED
  BY <1>4, <1>6 DEF Abstract, AsTransfer!Next

\* It is ready for connections, or nothing happens at all.
LEMMA BootOn ==
  ASSUME Inv, OnCourse, Boot \/ UNCHANGED vars
  PROVE  OnCourse' /\ Abstract
<1>1. /\ c' = c /\ conn' = conn /\ toC' = toC /\ toB' = toB /\ b' = b /\ wq' = wq
      /\ call' = call /\ slave' = slave /\ SameImage /\ faults' = faults
      /\ phase' = phase \/ phase' = "ready"
  BY DEF Boot, initalize_dfu_module, vars, link, chip, simp, flash, history, SameImage
<1>2. Asking' => Asking
  BY <1>1 DEF Asking
<1>3. OnCourse'
  BY <1>1, <1>2, Silently DEF OnCourse, Serving, SameImage, SameBlock, Has, Inv, Linked
<1>4. Handed' = Handed
  BY <1>1, HandedSame DEF SameImage, Unwritten, Unanswered, Has
<1>5. QED
  BY <1>1, <1>3, <1>4, Untouched DEF SameImage

\* What BDUNK says to the bchip, as d, and what becomes of it, e.
Said(d, p, e) ==
  /\ p.op \in ToBchip
  /\ p.op = "data" => d.op = "get"
  /\ p.op = "start" => d.op = "start"
  /\ p.op = "info" => d.op \in {"info", "devinf", "selfstart"} /\ p.what = e.what
  /\ p.op = "self" => d.op = "success" /\ e.what = "52"
  /\ p.op # "self" => e.what = d.what
  /\ d.op = "success" /\ d.what # "both" => p.op = "done"
  /\ d.op = "cut" => p.op = "empty"

\* The information names the chip that is to be updated.
LEMMA SendInfoSays ==
  ASSUME NEW d, IsBdunk(d), NEW r, r = SendInfo(d)
  PROVE  /\ r.c.what = d.what
         /\ \E p : p.op = "info" /\ p.what = d.what /\ r.out \in {<<>>, <<p>>}
<1> DEFINE p == Info(FileSize(d), d.what, d.id)
<1>1. p.op = "info" /\ p.what = d.what
  BY DEF Info
<1> HIDE DEF p
<1>2. CASE d.file = "none"
  <2>1. r = Result([d EXCEPT !.status = "crashed"], <<>>)
    BY <1>2 DEF SendInfo, Trapped
  <2>2. r.c.what = d.what /\ r.out = <<>>
    BY <2>1 DEF Result, IsBdunk, BdunkFields
  <2>3. QED
    BY <1>1, <2>2
<1>3. CASE d.file # "none"
  <2>1. r.c = d /\ r.out \in {<<>>, <<p>>}
    BY <1>3, Written DEF SendInfo, p
  <2>2. QED
    BY <1>1, <2>1
<1>4. QED
  BY <1>2, <1>3

\* The answers to the op codes.
LEMMA LogicSays ==
  ASSUME NEW d, IsBdunk(d), d.op \in {"start", "info", "self"} \cup ToCentral,
         NEW yes \in BOOLEAN, NEW r, r = logic(d, yes)
  PROVE  \E p : r.out \in {<<>>, <<p>>} /\ Said(d, p, r.c)
<1> USE DEF ToCentral, ToBchip
<1> DEFINE empty == Plain("empty")
<1>0. empty.op = "empty"
  BY DEF Plain
<1> HIDE DEF empty
<1>1. CASE d.op = "start"
  <2> DEFINE e == [d EXCEPT !.updating = TRUE]
             p == Plain("start")
  <2>1. r = IF yes THEN Write(e, p) ELSE Result(d, <<>>)
    BY <1>1 DEF logic
  <2>2. e.what = d.what /\ p.op = "start"
    BY DEF IsBdunk, BdunkFields, Plain
  <2> HIDE DEF e, p
  <2>3. r.c \in {d, e} /\ r.out \in {<<>>, <<p>>}
    BY <2>1, Written DEF Result
  <2>4. Said(d, p, r.c)
    BY <1>1, <2>2, <2>3 DEF Said
  <2>5. QED
    BY <2>3, <2>4
<1>2. CASE d.op = "info"
  <2>1. r = SendInfo(d)
    BY <1>2 DEF logic
  <2>2. QED
    BY <1>2, <2>1, SendInfoSays DEF Said
<1>3. CASE d.op = "get"
  <2> DEFINE e == [d EXCEPT !.idx = d.idx + Packet]
             t == [d EXCEPT !.status = "crashed"]
             p == Data(extract(d))
  <2>1. r = IF Extractable(d) THEN Write(e, p) ELSE Result(t, <<>>)
    BY <1>3 DEF logic, Trapped
  <2>2. e.what = d.what /\ t.what = d.what /\ p.op = "data"
    BY DEF IsBdunk, BdunkFields, Data
  <2> HIDE DEF e, t, p
  <2>3. r.c \in {e, t} /\ r.out \in {<<>>, <<p>>}
    BY <2>1, Written DEF Result
  <2>4. Said(d, p, r.c)
    BY <1>3, <2>2, <2>3 DEF Said
  <2>5. QED
    BY <2>3, <2>4
<1>4. CASE d.op = "success" /\ d.what = "both"
  <2> DEFINE e == [d EXCEPT !.idx = 0, !.what = "52", !.op = "self", !.file = "52"]
             p == Plain("self")
  <2>1. r = Write(e, p)
    BY <1>4 DEF logic, on_success, Loaded, IsBdunk, BdunkFields
  <2>2. e.what = "52" /\ p.op = "self"
    BY DEF IsBdunk, BdunkFields, Plain
  <2> HIDE DEF e, p
  <2>3. r.c = e /\ r.out \in {<<>>, <<p>>}
    BY <2>1, Written
  <2>4. Said(d, p, r.c)
    BY <1>4, <2>2, <2>3 DEF Said
  <2>5. QED
    BY <2>3, <2>4
<1>5. CASE d.op = "success" /\ d.what # "both"
  <2> DEFINE e == [d EXCEPT !.idx = 0, !.auto = FALSE]
             p == Plain("done")
  <2>1. r = Write(e, p)
    BY <1>5 DEF logic, on_success, IsBdunk, BdunkFields
  <2>2. e.what = d.what /\ p.op = "done"
    BY DEF IsBdunk, BdunkFields, Plain
  <2> HIDE DEF e, p
  <2>3. r.c = e /\ r.out \in {<<>>, <<p>>}
    BY <2>1, Written
  <2>4. Said(d, p, r.c)
    BY <1>5, <2>2, <2>3 DEF Said
  <2>5. QED
    BY <2>3, <2>4
<1>6. CASE d.op = "selfstart"
  <2> DEFINE e == [d EXCEPT !.op = "info"]
  <2>1. r = SendInfo(e)
    BY <1>6 DEF logic
  <2>2. IsBdunk(e) /\ e.what = d.what
    BY DEF IsBdunk, BdunkFields
  <2> HIDE DEF e
  <2>3. QED
    BY <1>6, <2>1, <2>2, SendInfoSays DEF Said
<1>7. CASE d.op = "devinf"
  <2> DEFINE loaded == IF d.what \in Chip THEN Loaded(d, d.what)
                       ELSE IF d.loads THEN Loaded(d, "91") ELSE d
             avail == IF d.what = "52" THEN d.rec.avail91 ELSE d.rec.avail52
             e == [loaded EXCEPT !.op = "info"]
             t == [d EXCEPT !.status = "crashed"]
  <2>1. r = IF loaded.file = "none" THEN Result(t, <<>>)
            ELSE IF avail < FileSize(loaded) THEN Result(loaded, <<>>)
            ELSE SendInfo(e)
    BY <1>7 DEF logic, pre_logic, Trapped
  <2>2. IsBdunk(loaded) /\ loaded.what = d.what
    BY DEF Loaded, IsBdunk, BdunkFields, Chip
  <2> HIDE DEF loaded, avail
  <2>3. IsBdunk(e) /\ e.what = d.what /\ t.what = d.what
    BY <2>2 DEF IsBdunk, BdunkFields
  <2> HIDE DEF e, t
  <2>4. CASE r = SendInfo(e)
    BY <1>7, <2>3, <2>4, SendInfoSays DEF Said
  <2>5. CASE r \in {Result(t, <<>>), Result(loaded, <<>>)}
    <3>1. r.c \in {t, loaded} /\ r.out = <<>>
      BY <2>5 DEF Result
    <3>2. Said(d, empty, r.c)
      BY <1>0, <1>7, <2>2, <2>3, <3>1 DEF Said
    <3>3. QED
      BY <3>1, <3>2
  <2>6. QED
    BY <2>1, <2>4, <2>5
<1>8. CASE d.op \in {"self", "cut"}
  <2>1. r = Write(d, empty)
    BY <1>8 DEF logic, empty
  <2>2. r.c = d /\ r.out \in {<<>>, <<empty>>}
    BY <2>1, Written
  <2>3. Said(d, empty, r.c)
    BY <1>0, <1>8, <2>2 DEF Said
  <2>4. QED
    BY <2>2, <2>3
<1>9. QED
  BY <1>1, <1>2, <1>3, <1>4, <1>5, <1>6, <1>7, <1>8

\* BDUNK answers, or begins when nothing is under way.
LEMMA BdunkOn ==
  ASSUME Inv, OnCourse, NEW d, NEW r, NEW p, d.what = c.what,
         r.out \in {<<>>, <<p>>}, Said(d, p, r.c), BdunkDoes(r),
         r.c.status # "crashed" => \A q \in ToSet(toC') : q.op = "cut",
         \A q \in ToSet(toB) : q.op = "empty",
         ~Asking, ~Has("info"), ~Has("update"), ~Calling, slave = "none",
         d.op = "get" => Going,
         Doing => /\ d.op \notin {"start", "info", "devinf"} /\ (d.op = "get" => b.type = "52")
                  /\ d.op = "selfstart" => d.what = "52",
         Has("flag") => d.what = "52" /\ d.op \in {"success", "cut"}
  PROVE  OnCourse' /\ Abstract
<1>1. /\ c' = r.c /\ b' = b /\ phase' = phase /\ wq' = wq /\ call' = call /\ slave' = slave
      /\ SameImage /\ faults' = faults
  BY DEF BdunkDoes, chip, simp, flash, history, SameImage
<1>2. CASE r.c.status = "crashed"
  BY <1>1, <1>2, AloneOn DEF BdunkDoes, disconnected, SameBlock, Asking
<1>3. CASE r.c.status # "crashed"
  <2>1. conn' = TRUE /\ toB' = toB \o r.out
    BY <1>3 DEF BdunkDoes, connected
  <2>2. \A q \in ToSet(toB') : q.op = "empty" \/ q = p
    <3>1. Queue(toB) /\ Lone(toB, "empty")
      BY DEF Inv, Typed, Turn, OneTurn
    <3>2. QED
      BY <2>1, <3>1, PacketSent
  <2>3. /\ ~Asking' /\ ~Has("info")' /\ ~Has("update")' /\ ~Calling' /\ ~Writing'
        /\ Doing' <=> Doing
        /\ Has("flag")' <=> Has("flag")
    BY <1>1 DEF Asking, Has, Calling, Writing, Doing
  <2>4. Streaming' => Going'
    <3> SUFFICES ASSUME Streaming' PROVE Going'
      OBVIOUS
    <3>1. p.op = "data"
      BY <1>3, <2>2, <2>3 DEF Streaming, Calling
    <3>2. Going /\ c'.what = c.what
      BY <1>1, <3>1 DEF Said
    <3>3. QED
      BY <1>1, <3>2 DEF Going, Expected, SameImage
  <2>5. Progress'
    BY <2>3, <2>4 DEF Progress
  <2>6. Announced'
    BY <1>1, <2>2 DEF Announced, Said
  <2>7. DoneApart'
    <3> SUFFICES ASSUME Doing PROVE DoneApart'
      BY <2>3 DEF DoneApart
    <3>1. /\ p.op \notin {"start"} /\ (p.op = "data" => b.type = "52")
          /\ p.op \in {"info", "self"} => c'.what = "52"
      BY <1>1 DEF Said
    <3>2. QED
      BY <1>1, <1>3, <2>2, <2>3, <3>1 DEF DoneApart
  <2>8. FlagLast'
    <3> SUFFICES ASSUME Has("flag") PROVE FlagLast'
      BY <2>3 DEF FlagLast
    <3>1. p.op \in {"done", "empty"} /\ c'.what = "52"
      BY <1>1 DEF Said
    <3>2. job.chip = "52" /\ job.size > 0 => told
      BY DEF OnCourse, Talk, FlagLast
    <3>3. QED
      BY <1>1, <1>3, <2>2, <2>3, <3>1, <3>2 DEF FlagLast, SameImage
  <2>9. OnCourse'
    BY <1>1, <2>1, <2>5, <2>6, <2>7, <2>8
    DEF OnCourse, Types, Serving, Talk, FlagMeansStored, SameImage
  <2>10. Handed' = Handed
    BY <1>1, <2>3, HandedSame DEF SameImage, Unwritten, Unanswered
  <2>11. QED
    BY <1>1, <2>9, <2>10, Untouched DEF SameImage
<1>4. QED
  BY <1>2, <1>3

\* A link is made only if both sides begin anew.
LEMMA ConnectOn ==
  ASSUME Timely, Inv, OnCourse, NEW yes \in BOOLEAN, Connect(yes)
  PROVE  OnCourse' /\ Abstract
<1> DEFINE r == logic(c, yes)
<1>1. /\ c.status = "on" /\ c.auto /\ ~conn /\ phase = "ready" /\ Quiet /\ c.idx = 0
      /\ BdunkDoes(r) /\ (r.c.status = "crashed" \/ toC' = <<>>)
  BY DEF Connect, Timely
<1>2. wq = <<>> /\ call = None /\ slave = "none" /\ toB = <<>>
  BY <1>1 DEF Quiet, Idle, Inv, Linked
<1>3. /\ ToSet(wq) = {} /\ ToSet(toB) = {}
      /\ toC' = <<>> => ToSet(toC') = {}
  BY <1>2, NothingIn
<1>4. ~Asking /\ ~Has("info") /\ ~Has("update") /\ ~Has("flag") /\ ~Calling /\ ~Doing
  BY <1>1, <1>2, <1>3 DEF Asking, Has, Calling, Doing
<1>5. /\ IsBdunk(c) /\ c.op \in {"start", "info", "self"} \cup (ToCentral \ {"selfstart"})
      /\ c.op # "get"
  BY <1>1 DEF Inv, Typed, Knows, Expects
<1>6. PICK p : r.out \in {<<>>, <<p>>} /\ Said(c, p, r.c)
  BY <1>5, LogicSays
<1> HIDE DEF r
<1>7. QED
  BY <1>1, <1>2, <1>3, <1>4, <1>5, <1>6, BdunkOn

\* BDUNK answers a notification.
LEMMA DidUpdateValueForOn ==
  ASSUME Inv, OnCourse, didUpdateValueFor
  PROVE  OnCourse' /\ Abstract
<1> DEFINE n == Head(toC)
           d == [c EXCEPT !.op = n.op, !.rec = IF n.op = "devinf" THEN n ELSE c.rec]
           r == logic(d, TRUE)
<1>1. toC # <<>> /\ BdunkDoes(r) /\ (r.c.status = "crashed" \/ toC' = Tail(toC))
  BY DEF didUpdateValueFor, Notified
<1>2. conn /\ c.status = "on"
  BY <1>1 DEF Inv, Linked
<1>3. /\ n \in ToSet(toC) /\ ToSet(Tail(toC)) \subseteq ToSet(toC)
      /\ n.op # "cut" => \A q \in ToSet(Tail(toC)) : q.op = "cut"
  BY <1>1, TakenOff DEF Inv, Typed, Turn, OneTurn
<1>4. n.op \in ToCentral
  BY <1>3 DEF Inv, Turn, InStep, NoticeOk
<1> HIDE DEF n
<1>5. IsBdunk(d) /\ d.op = n.op /\ d.what = c.what /\ d.status = c.status
  BY DEF Inv, Typed, IsBdunk, BdunkFields
<1> HIDE DEF d
<1>6. PICK p : r.out \in {<<>>, <<p>>} /\ Said(d, p, r.c)
  <2>1. PICK yes \in BOOLEAN : r = logic(d, yes)
    OBVIOUS
  <2> HIDE DEF r
  <2>2. IsBdunk(d) /\ d.op \in {"start", "info", "self"} \cup ToCentral
    BY <1>4, <1>5
  <2>3. \E p : r.out \in {<<>>, <<p>>} /\ Said(d, p, r.c)
    BY <2>1, <2>2, LogicSays
  <2>4. QED
    BY <2>3
<1>7. CASE n.op # "cut"
  <2>1. /\ ~Asking /\ ~Has("info") /\ ~Has("update") /\ ~Calling
        /\ \A q \in ToSet(toB) : q.op = "empty"
    BY <1>3, <1>7, TurnOf DEF Inv, Turn, Only, MacsTurn, PacketsTurn
  <2>2. n.op = "get" => Going
    BY <1>2, <1>3 DEF OnCourse, Progress, Streaming
  <2>3. Doing => /\ n.op # "devinf" /\ (n.op = "get" => b.type = "52")
                 /\ n.op = "selfstart" => c.what = "52"
    BY <1>2, <1>3 DEF OnCourse, Talk, DoneApart
  <2>4. Has("flag") => c.what = "52" /\ n.op \in {"success", "cut"}
    BY <1>2, <1>3 DEF OnCourse, Talk, FlagLast
  <2> HIDE DEF r
  <2>5. r.c.status # "crashed" => \A q \in ToSet(toC') : q.op = "cut"
    BY <1>1, <1>3, <1>7
  <2>6. d.op \notin {"start", "info"}
    BY <1>4, <1>5 DEF ToCentral
  <2>7. slave = "none"
    BY <1>2 DEF OnCourse, Serving
  <2>8. QED
    BY <1>1, <1>5, <1>6, <2>1, <2>2, <2>3, <2>4, <2>5, <2>6, <2>7, BdunkOn
<1>8. CASE n.op = "cut"
  <2>1. r = Write(d, Plain("empty"))
    BY <1>5, <1>8 DEF logic
  <2> DEFINE e == Plain("empty")
  <2>2. r.c = d /\ r.out \in {<<>>, <<e>>} /\ e.op = "empty"
    BY <2>1, Written DEF Plain
  <2> HIDE DEF r, e
  <2>3. /\ c' = d /\ b' = b /\ phase' = phase /\ wq' = wq /\ call' = call /\ slave' = slave
        /\ SameImage /\ faults' = faults
        /\ conn' = TRUE /\ toB' = toB \o r.out /\ toC' = Tail(toC)
    BY <1>1, <1>2, <1>5, <2>2 DEF BdunkDoes, connected, chip, simp, flash, history, SameImage
  <2>4. \A q \in ToSet(toB') : q \in ToSet(toB) \/ q.op = "empty"
    BY <2>2, <2>3, PacketSent DEF Inv, Typed, Turn, OneTurn
  <2>5. Serving'
    BY <1>2, <2>3 DEF OnCourse, Serving
  <2>6. OnCourse'
    BY <1>2, <1>3, <1>5, <2>3, <2>4, <2>5, Silently DEF SameBlock, Asking, Has
  <2>7. Handed' = Handed
    BY <2>3, HandedSame DEF SameImage, Unwritten, Unanswered, Has
  <2>8. QED
    BY <2>3, <2>6, <2>7, Untouched DEF SameImage
<1>9. QED
  BY <1>7, <1>8

-----------------------------------------------------------------------------
(* The theorems *)

\* There is no image at the start.
LEMMA InitOn == Init => OnCourse /\ AsTransfer!Init
<1> SUFFICES ASSUME Init PROVE OnCourse /\ AsTransfer!Init
  OBVIOUS
<1>1. /\ conn = FALSE /\ toB = <<>> /\ b = Statics /\ wq = <<>> /\ call = None /\ slave = "none"
      /\ job = NoJob /\ put = {} /\ told = FALSE /\ flag52 = FALSE /\ faults = 0
  BY DEF Init
<1>2. job.size = 0 /\ b.off = 0 /\ b.type = "52" /\ b.size = 0
  BY <1>1 DEF NoJob, Statics
<1>3. ToSet(wq) = {} /\ ToSet(toB) = {}
  BY <1>1, NothingIn
<1>4. ~Has("flag") /\ ~Has("info") /\ ~Has("update")
  BY <1>3 DEF Has
<1>5. Progress
  BY <1>1, <1>4 DEF Progress, Streaming, Writing
<1>6. Talk
  BY <1>1, <1>3, <1>4 DEF Talk, Announced, DoneApart, FlagLast
<1>7. Types /\ Serving /\ FlagMeansStored
  <2>1. Types
    <3>1. told \in BOOLEAN /\ b.type \in Chip
      BY <1>1, <1>2 DEF Chip
    <3>2. b.size <= SlotLen
      BY <1>2, FlashAssumption
    <3>3. QED
      BY <3>1, <3>2 DEF Types
  <2>2. Serving
    BY <1>1 DEF Serving
  <2>3. FlagMeansStored
    BY <1>2 DEF FlagMeansStored
  <2>4. QED
    BY <2>1, <2>2, <2>3
<1>8. Handed = 0
  BY <1>1, <1>2, <1>4 DEF Handed, Has, Unanswered
<1>9. QED
  BY <1>1, <1>2, <1>5, <1>6, <1>7, <1>8 DEF OnCourse, AsTransfer!Init

\* Every step keeps the invariant, and is one of the transfer or none of its concern.
LEMMA StepOn == Timely /\ Apart /\ Inv /\ Inv' /\ OnCourse /\ [Next]_vars => OnCourse' /\ Abstract
<1> SUFFICES ASSUME Timely, Apart, Inv, Inv', OnCourse, [Next]_vars PROVE OnCourse' /\ Abstract
  OBVIOUS
<1>1. CASE BluetoothThread
  <2>1. ~RxStale
    BY DEF Timely, RxStale, Strike
  <2>2. QED
    BY <1>1, <2>1, RxStartOn, RxInfoOn, RxSelfOn, RxDoneOn, RxDataOn, RxEmptyOn
    DEF BluetoothThread
<1>2. CASE WorkQueue
  BY <1>2, SelfInfoOn, SelfUpdateOn, FlagOn, ProcRspOn, ProcReqOn, LinkEndsOn, BluetoothParamsOn
  DEF WorkQueue
<1>3. CASE Responded \/ Ichip \/ TxAborted \/ tmr_rsp_timeout_handler
  BY <1>3, RespondedOn, IchipOn, TxAbortedOn, TimeoutOn
<1>4. CASE Central
  BY <1>4, LinkEndsOn, ConnectOn, DidUpdateValueForOn DEF Central
<1>5. CASE LinkDrops \/ Reboot \/ Boot \/ UNCHANGED vars
  BY <1>5, LinkEndsOn, RebootOn, BootOn
<1>6. CASE \E op \in {"devinf", "done"} : IchipAsks(op)
  BY <1>6, IchipAsksOn
<1>7. QED
  BY <1>1, <1>2, <1>3, <1>4, <1>5, <1>6 DEF Next

\* The invariant holds in every timely behaviour, and each step is one of the transfer.
LEMMA Course ==
  Timely /\ Apart =>
    (Spec => []OnCourse /\ AsTransfer!Init /\ [][AsTransfer!Next]_(AsTransfer!vars))
<1> SUFFICES ASSUME Timely, Apart
             PROVE  Spec => []OnCourse /\ AsTransfer!Init /\ [][AsTransfer!Next]_(AsTransfer!vars)
  OBVIOUS
<1>1. Init => Inv /\ OnCourse /\ AsTransfer!Init
  BY InitSafe, InitOn
<1>2. Inv /\ OnCourse /\ [Next]_vars => Inv' /\ OnCourse' /\ [AsTransfer!Next]_(AsTransfer!vars)
  BY StepSafe, StepOn DEF Abstract
<1>3. QED
  BY <1>1, <1>2, PTL DEF Spec

\* The mcuboot flag of the 52 is set, and success told, only for an image that
\* wk_self_update_handler has programmed from its first byte to its last: a failed write
\* or a link that drops leaves the flag alone, in whatever order the work items run.
THEOREM FlagOnlyIfStored == Timely /\ Apart => (Spec => []FlagMeansStored)
<1> SUFFICES ASSUME Timely, Apart PROVE Spec => []FlagMeansStored
  OBVIOUS
<1>1. OnCourse => FlagMeansStored
  BY DEF OnCourse
<1>2. Spec => []OnCourse
  BY Course
<1>3. QED
  BY <1>1, <1>2, PTL

\* The update over Bluetooth implements Transfer.tla: wk_self_update_handler and the ichip
\* get each block at most once and in order, and the end is told only behind the last.
\* What the target lacks then was lost to faults, at most a block to each, since
\* rsp_cb_flash_write goes on whatever the answer is.
THEOREM UpdateIsTransfer == Timely /\ Apart => (Spec => ImplementsTransfer)
<1> SUFFICES ASSUME Timely, Apart PROVE Spec => ImplementsTransfer
  OBVIOUS
<1>1. Spec => AsTransfer!Init /\ [][AsTransfer!Next]_(AsTransfer!vars)
  BY Course
<1>2. QED
  BY <1>1, PTL DEF ImplementsTransfer, AsTransfer!Spec
=============================================================================
