-------------------------- MODULE FlashServerProofs --------------------------
(***************************************************************************)
(* Proofs about the flash requests a chip serves: what the answers say is  *)
(* what the slot holds, for any sizes of words, pages and slots, any       *)
(* requests and any number of them.                                        *)
(***************************************************************************)
EXTENDS FlashServer, SequenceTheorems, TLAPS

USE ServerAssumption, FlashAssumption

\* No request asks for more pages to be erased than a uint32_t counts bytes of.
Counted == \A count \in Length : count * Page < W32

-----------------------------------------------------------------------------
(* Lemmas *)

\* A function on 1..n is a sequence of length n.
LEMMA FunctionSeq ==
  ASSUME NEW n \in Nat, NEW V, NEW f \in [1..n -> V]
  PROVE  f \in Seq(V) /\ Len(f) = n
<1>1. f \in Seq(V)
  BY SeqDef
<1>2. DOMAIN f = 1..Len(f) /\ Len(f) \in Nat /\ DOMAIN f = 1..n
  BY <1>1
<1>3. QED
  BY <1>1, <1>2

\* What flash_area_write does to each byte.
LEMMA AreaWritten ==
  ASSUME NEW V, NEW s \in [Address -> V], Mixed \in V, NEW at \in Nat, NEW data \in Seq(V),
         NEW r, r = flash_area_write(s, at, data)
  PROVE  /\ r.slot \in [Address -> V]
         /\ \A a \in Address :
              r.slot[a] = IF r.ok /\ a \in Span(at, Len(data))
                          THEN Programmed(s[a], data[a - at + 1]) ELSE s[a]
<1>1. Len(data) \in Nat /\ \A i \in 1..Len(data) : data[i] \in V
  OBVIOUS
<1>2. \A a \in Address : a \in Span(at, Len(data)) => a - at + 1 \in 1..Len(data)
  BY <1>1 DEF Address, Span
<1>3. \A a \in Address : a \in Span(at, Len(data)) => Programmed(s[a], data[a - at + 1]) \in V
  BY <1>1, <1>2 DEF Programmed
<1>4. QED
  BY <1>1, <1>3 DEF flash_area_write, Span

\* What app_flash_write does to each byte: nothing outside of the buffer, also when it
\* is refused and although the last word is filled up; and what it was asked for when
\* it succeeds.
LEMMA Written ==
  ASSUME NEW V, NEW s \in [Address -> V], Mixed \in V, Blank \in V,
         NEW at \in Nat, NEW data \in Seq(V), NEW r, r = app_flash_write(s, at, data)
  PROVE  /\ r.slot \in [Address -> V]
         /\ \A a \in Address \ Span(at, Len(data)) : r.slot[a] = s[a]
         /\ r.ok => \A a \in Address \cap Span(at, Len(data)) :
                      r.slot[a] = Programmed(s[a], data[a - at + 1])
<1> DEFINE n == Len(data)
           aligned == (n \div Word) * Word
           front == SubSeq(data, 1, aligned)
           words == flash_area_write(s, at, front)
           last == LastWord(data, aligned)
           tail == flash_area_write(words.slot, at + aligned, last)
<1>1. Word \in Nat \ {0} /\ n \in Nat /\ \A i \in 1..n : data[i] \in V
  OBVIOUS
<1>2. aligned \in Nat /\ aligned <= n /\ n < aligned + Word
  <2>1. PICK k \in Nat : k = n \div Word
    BY <1>1
  <2>2. k * Word <= n /\ k * Word \in Nat /\ n < k * Word + Word
    BY <1>1, <2>1
  <2>3. QED
    BY <2>1, <2>2
<1>3. r = IF ~words.ok \/ aligned = n THEN words ELSE tail
  BY DEF app_flash_write
<1> HIDE DEF aligned
<1>4. front \in Seq(V) /\ Len(front) = aligned /\ \A i \in 1..aligned : front[i] = data[i]
  BY <1>1, <1>2
<1> HIDE DEF front
<1>5. /\ words.slot \in [Address -> V]
      /\ \A a \in Address :
           words.slot[a] = IF words.ok /\ a \in Span(at, aligned)
                           THEN Programmed(s[a], data[a - at + 1]) ELSE s[a]
  <2>1. \A a \in Address : a \in Span(at, aligned) => front[a - at + 1] = data[a - at + 1]
    BY <1>2, <1>4 DEF Span, Address
  <2> HIDE DEF words
  <2>2. /\ words.slot \in [Address -> V]
        /\ \A a \in Address :
             words.slot[a] = IF words.ok /\ a \in Span(at, Len(front))
                             THEN Programmed(s[a], front[a - at + 1]) ELSE s[a]
    BY <1>4, AreaWritten DEF words
  <2>3. QED
    BY <1>4, <2>1, <2>2
<1> HIDE DEF words
<1>6. CASE r = words /\ (words.ok => aligned = n)
  <2>1. \A a \in Address \ Span(at, n) : a \notin Span(at, aligned)
    BY <1>1, <1>2 DEF Span, Address
  <2>2. QED
    BY <1>5, <1>6, <2>1
<1>7. CASE words.ok /\ r = tail
  <2>1. last \in Seq(V) /\ Len(last) = Word
    <3>1. last \in [1..Word -> V]
      BY <1>1, <1>2 DEF LastWord
    <3>2. QED
      BY <1>1, <3>1, FunctionSeq
  <2>2. \A i \in 1..Word : last[i] = IF aligned + i <= n THEN data[aligned + i] ELSE Blank
    BY DEF LastWord
  <2> HIDE DEF last
  <2>3. at + aligned \in Nat
    BY <1>2
  <2>4. /\ r.slot \in [Address -> V]
        /\ \A a \in Address :
             r.slot[a] = IF r.ok /\ a \in Span(at + aligned, Word)
                         THEN Programmed(words.slot[a], last[a - (at + aligned) + 1])
                         ELSE words.slot[a]
    <3>1. words.slot \in [Address -> V] /\ r = flash_area_write(words.slot, at + aligned, last)
      BY <1>5, <1>7
    <3> HIDE DEF tail
    <3> DEFINE mid == words.slot
               pos == at + aligned
    <3>2. mid \in [Address -> V] /\ pos \in Nat /\ r = flash_area_write(mid, pos, last)
      BY <2>3, <3>1
    <3> HIDE DEF tail, mid, pos
    <3>3. /\ r.slot \in [Address -> V]
          /\ \A a \in Address :
               r.slot[a] = IF r.ok /\ a \in Span(pos, Len(last))
                           THEN Programmed(mid[a], last[a - pos + 1])
                           ELSE mid[a]
      BY <2>1, <3>2, AreaWritten
    <3>4. QED
      BY <2>1, <3>3 DEF mid, pos
  <2>5. ASSUME NEW a \in Address, a \notin Span(at, n)
        PROVE  r.slot[a] = s[a]
    <3>1. a \in Nat /\ a \notin Span(at, aligned) /\ words.slot[a] = s[a]
      BY <1>1, <1>2, <1>5, <2>5 DEF Address, Span
    <3>2. CASE a \in Span(at + aligned, Word)
      <4>1. a - (at + aligned) + 1 \in 1..Word /\ ~(aligned + (a - (at + aligned) + 1) <= n)
        BY <1>1, <1>2, <2>5, <3>1, <3>2 DEF Span
      <4>2. last[a - (at + aligned) + 1] = Blank
        BY <2>2, <4>1
      <4>3. QED
        BY <2>4, <3>1, <4>2 DEF Programmed
    <3>3. CASE a \notin Span(at + aligned, Word)
      BY <2>4, <3>1, <3>3
    <3>4. QED
      BY <3>2, <3>3
  <2>6. ASSUME r.ok, NEW a \in Address, a \in Span(at, n)
        PROVE  r.slot[a] = Programmed(s[a], data[a - at + 1])
    <3>1. a \in Nat
      BY DEF Address
    <3>2. CASE a < at + aligned
      <4>1. a \in Span(at, aligned) /\ a \notin Span(at + aligned, Word)
        BY <1>1, <1>2, <2>6, <3>1, <3>2 DEF Span
      <4>2. QED
        BY <1>5, <1>7, <2>4, <4>1
    <3>3. CASE a >= at + aligned
      <4>1. /\ a \notin Span(at, aligned) /\ a \in Span(at + aligned, Word)
            /\ a - (at + aligned) + 1 \in 1..Word
            /\ aligned + (a - (at + aligned) + 1) = a - at + 1 /\ a - at + 1 <= n
        BY <1>1, <1>2, <2>6, <3>1, <3>3 DEF Span
      <4>2. last[a - (at + aligned) + 1] = data[a - at + 1]
        BY <2>2, <4>1
      <4>3. QED
        BY <1>5, <2>4, <2>6, <4>1, <4>2
    <3>4. QED
      BY <1>2, <3>1, <3>2, <3>3
  <2>7. QED
    BY <2>4, <2>5, <2>6
<1>8. QED
  BY <1>3, <1>6, <1>7

\* What the peer sends are bytes.
LEMMA PieceBytes ==
  ASSUME NEW v \in Version, NEW at \in Nat, NEW length \in Nat
  PROVE  /\ Piece(v, at, length) \in Seq(Value) /\ Len(Piece(v, at, length)) = length
         /\ \A a \in Span(at, length) : Piece(v, at, length)[a - at + 1] = <<v, a>>
<1>1. Piece(v, at, length) \in [1..length -> Value]
  BY DEF Piece, Value, Byte
<1>2. \A a \in Span(at, length) : a - at + 1 \in 1..length /\ at + (a - at + 1) - 1 = a
  BY DEF Span
<1>3. \A a \in Span(at, length) : Piece(v, at, length)[a - at + 1] = <<v, a>>
  BY <1>2 DEF Piece
<1>4. QED
  BY <1>1, <1>3, FunctionSeq

\* What app_flash_erase_page does to each byte, as long as the length does not wrap.
LEMMA Erased ==
  ASSUME NEW V, NEW s \in [Address -> V], Blank \in V, NEW at, NEW count,
         NEW r, r = app_flash_erase_page(s, at, count)
  PROVE  /\ r.slot \in [Address -> V]
         /\ ~r.ok => r.slot = s
BY DEF app_flash_erase_page, flash_area_erase

LEMMA PagesErased ==
  ASSUME NEW V, NEW s \in [Address -> V], NEW at \in Nat, NEW count \in Nat,
         NEW r, r = app_flash_erase_page(s, at, count), r.ok
  PROVE  \A a \in Address :
           r.slot[a] = IF a \in Span(at, count * Page) THEN Blank ELSE s[a]
<1> DEFINE bytes == count * Page
           n == Smaller(bytes, SlotLen)
<1>1. bytes \in Nat /\ SlotLen \in Nat
  OBVIOUS
<1> HIDE DEF bytes
<1>2. n \in Nat /\ n <= bytes /\ (n = bytes \/ n = SlotLen)
  BY <1>1 DEF Smaller
<1> HIDE DEF n
<1>3. r = flash_area_erase(s, at, n)
  BY DEF app_flash_erase_page, bytes, n
<1>4. at + n <= SlotLen
  BY <1>3 DEF flash_area_erase, InSlot
<1>5. \A a \in Address : r.slot[a] = IF a \in Span(at, n) THEN Blank ELSE s[a]
  BY <1>3 DEF flash_area_erase, Span
<1>6. \A a \in Address : a \in Span(at, n) <=> a \in Span(at, bytes)
  BY <1>1, <1>2, <1>4 DEF Span, Address
<1>7. QED
  BY <1>5, <1>6 DEF bytes

\* A number of pages that does not wrap stays as it is.
LEMMA NoWrap ==
  ASSUME NEW count \in Nat, count * Page < W32
  PROVE  ((count * Page) % W32) \div Page = count
<1>1. Page \in Nat \ {0} /\ W32 \in Nat \ {0}
  OBVIOUS
<1>2. PICK m \in Nat : m = count * Page
  BY <1>1
<1>3. m % W32 = m
  BY <1>1, <1>2
<1>4. m \div Page = count
  BY <1>1, <1>2
<1>5. QED
  BY <1>2, <1>3, <1>4

\* The CRC is computed of the bytes from the start of the bank on, each once.
LEMMA CrcCovers ==
  ASSUME NEW s, NEW at, NEW length \in Nat, NEW a \in Address, a < length
  PROVE  app_flash_crc(s, at, length)[a + 1] = s[a]
<1> DEFINE covered == ((length \div Step) * Step) + (length % Step)
<1>1. Step \in Nat \ {0} /\ a \in Nat
  BY DEF Address
<1>2. covered = length
  BY <1>1
<1> HIDE DEF covered
<1>3. ((a \div Step) * Step) + (a % Step) = a
  BY <1>1
<1>4. a + 1 \in 1..covered /\ (a + 1) - 1 = a
  BY <1>1, <1>2
<1>5. app_flash_crc(s, at, length)[a + 1]
        = Memory(s, ((((a + 1) - 1) \div Step) * Step) + (((a + 1) - 1) % Step))
  BY <1>4 DEF app_flash_crc, covered
<1>6. app_flash_crc(s, at, length)[a + 1] = Memory(s, a)
  BY <1>3, <1>4, <1>5
<1>7. QED
  BY <1>6 DEF Memory
-----------------------------------------------------------------------------
(* What each request does *)

LEMMA WriteStep ==
  ASSUME TypeOK, NEW at \in Nat, NEW length \in Nat, NEW v \in Version,
         req_cb_flash_write(at, length, v)
  PROVE  /\ slot' \in [Address -> Value] /\ known' \in [Address -> Value \cup {Unknown}]
         /\ Truthful => Truthful'
         /\ \A a \in Address \ Span(at, length) : slot'[a] = slot[a]
<1> DEFINE data == Piece(v, at, length)
           r == app_flash_write(slot, at, data)
<1>1. data \in Seq(Value) /\ Len(data) = length
      /\ \A a \in Span(at, length) : data[a - at + 1] = <<v, a>>
  BY PieceBytes
<1>2. slot' = r.slot
      /\ known' = [a \in Address |->
                     IF a \in Span(at, length)
                     THEN IF r.ok /\ known[a] # Unknown THEN Programmed(known[a], <<v, a>>) ELSE Unknown
                     ELSE known[a]]
  BY DEF req_cb_flash_write, Learn
<1>3. slot \in [Address -> Value] /\ Mixed \in Value /\ Blank \in Value
  BY DEF TypeOK, Value
<1> HIDE DEF data
<1>4. /\ r.slot \in [Address -> Value]
      /\ \A a \in Address \ Span(at, length) : r.slot[a] = slot[a]
      /\ r.ok => \A a \in Address \cap Span(at, length) :
                   r.slot[a] = Programmed(slot[a], data[a - at + 1])
  <2> HIDE DEF r
  <2>1. QED
    BY <1>1, <1>3, Written DEF r
<1> HIDE DEF r
<1>5. known' \in [Address -> Value \cup {Unknown}]
  <2>1. \A a \in Address : <<v, a>> \in Value
    BY DEF Value, Byte, Address
  <2>2. known \in [Address -> Value \cup {Unknown}]
    BY DEF TypeOK
  <2>3. \A a \in Address : Programmed(known[a], <<v, a>>) \in Value \cup {Unknown}
    BY <1>3, <2>1, <2>2 DEF Programmed
  <2>4. QED
    BY <1>2, <2>2, <2>3
<1>6. Truthful => Truthful'
  <2> SUFFICES ASSUME Truthful, NEW a \in Address, known'[a] # Unknown
               PROVE  slot'[a] = known'[a]
    BY DEF Truthful
  <2>1. CASE a \in Span(at, length)
    <3>1. r.ok /\ known[a] # Unknown /\ known'[a] = Programmed(known[a], <<v, a>>)
      BY <1>2, <2>1
    <3>2. slot'[a] = Programmed(slot[a], <<v, a>>)
      BY <1>1, <1>2, <1>4, <2>1, <3>1
    <3>3. QED
      BY <3>1, <3>2 DEF Truthful
  <2>2. CASE a \notin Span(at, length)
    BY <1>2, <1>4, <2>2 DEF Truthful
  <2>3. QED
    BY <2>1, <2>2
<1>7. QED
  BY <1>2, <1>4, <1>5, <1>6

LEMMA EraseStep ==
  ASSUME TypeOK, NEW at \in Nat, NEW count \in Nat, req_cb_flash_erase(at, count)
  PROVE  /\ slot' \in [Address -> Value] /\ known' \in [Address -> Value \cup {Unknown}]
         /\ rsp'.answer = None => slot' = slot
         /\ count * Page < W32 /\ Truthful => Truthful'
<1> DEFINE pages == ((count * Page) % W32) \div Page
           r == app_flash_erase_page(slot, at, pages)
<1>1. slot' = r.slot /\ rsp'.answer = IF r.ok THEN "ok" ELSE None
  BY DEF req_cb_flash_erase, respond
<1>2. known' = IF r.ok THEN [a \in Address |-> IF a \in Span(at, count * Page) THEN Blank ELSE known[a]]
               ELSE known
  BY DEF req_cb_flash_erase, Learn
<1>3. slot \in [Address -> Value] /\ Blank \in Value
  BY DEF TypeOK, Value
<1> HIDE DEF pages
<1>4. r.slot \in [Address -> Value] /\ (~r.ok => r.slot = slot)
  <2> HIDE DEF r
  <2>1. QED
    BY <1>3, Erased DEF r
<1>5. known' \in [Address -> Value \cup {Unknown}]
  BY <1>2, <1>3 DEF TypeOK
<1>6. ASSUME count * Page < W32, Truthful
      PROVE  Truthful'
  <2>1. pages = count
    BY <1>6, NoWrap DEF pages
  <2>2. r.ok => \A a \in Address :
                 r.slot[a] = IF a \in Span(at, count * Page) THEN Blank ELSE slot[a]
    <3> HIDE DEF r
    <3>1. QED
      BY <1>3, <2>1, PagesErased DEF r
  <2> HIDE DEF r
  <2>3. QED
    BY <1>1, <1>2, <1>4, <1>6, <2>2 DEF Truthful
<1>7. QED
  BY <1>1, <1>4, <1>5, <1>6

\* A read takes a block of the heap for good only if the flash refuses it.
LEMMA ReadStep ==
  ASSUME TypeOK, NEW at \in Nat, NEW length \in Nat, req_cb_flash_read(at, length)
  PROVE  /\ slot' = slot /\ known' \in [Address -> Value \cup {Unknown}]
         /\ Truthful => Truthful'
         /\ \/ heap' = heap /\ failed' = failed
            \/ /\ (length % W16) + Header <= heap /\ failed' = failed + 1
               /\ heap' = heap - ((length % W16) + Header)
<1> DEFINE rsp_len == length % W16
           r == app_flash_read(slot, at, length)
           got == SubSeq(r.data, 1, rsp_len)
<1>1. W16 \in Nat \ {0}
  OBVIOUS
<1>2. rsp_len \in Nat /\ rsp_len <= length
  BY <1>1
<1>3. slot' = slot
  BY DEF req_cb_flash_read
<1>4. \/ known' = known
      \/ r.ok /\ known' = [a \in Address |-> IF a \in Span(at, rsp_len) THEN got[a - at + 1] ELSE known[a]]
  BY DEF req_cb_flash_read, Learn
<1>5. \/ heap' = heap /\ failed' = failed
      \/ /\ rsp_len + Header <= heap /\ failed' = failed + 1
         /\ heap' = heap - (rsp_len + Header)
  BY DEF req_cb_flash_read
<1>6. r.ok => \A a \in Address \cap Span(at, rsp_len) : got[a - at + 1] = slot[a]
  <2> SUFFICES ASSUME r.ok PROVE \A a \in Address \cap Span(at, rsp_len) : got[a - at + 1] = slot[a]
    OBVIOUS
  <2> HIDE DEF rsp_len
  <2>1. at + length <= SlotLen /\ r.data = [i \in 1..length |-> slot[at + i - 1]]
    BY DEF app_flash_read, InSlot
  <2>2. r.data \in [1..length -> Value]
    BY <2>1 DEF TypeOK, Address
  <2>3. r.data \in Seq(Value) /\ Len(r.data) = length
    BY <2>2, FunctionSeq
  <2>4. \A i \in 1..rsp_len : got[i] = r.data[i]
    BY <1>2, <2>3
  <2> HIDE DEF got
  <2>5. \A a \in Address \cap Span(at, rsp_len) :
          a - at + 1 \in 1..rsp_len /\ a - at + 1 \in 1..length /\ at + (a - at + 1) - 1 = a
    BY <1>2 DEF Span, Address
  <2>6. QED
    BY <2>1, <2>4, <2>5
<1> HIDE DEF got, r, rsp_len
<1>7. known' \in [Address -> Value \cup {Unknown}]
  BY <1>4, <1>6 DEF TypeOK
<1>8. Truthful => Truthful'
  BY <1>3, <1>4, <1>6 DEF Truthful
<1>9. QED
  BY <1>3, <1>5, <1>7, <1>8 DEF rsp_len

LEMMA CrcStep ==
  ASSUME TypeOK, NEW at \in Nat, NEW length \in Nat, req_cb_flash_crc(at, length)
  PROVE  /\ slot' = slot /\ known' \in [Address -> Value \cup {Unknown}]
         /\ Truthful => Truthful'
<1>1. slot' = slot
  BY DEF req_cb_flash_crc
<1>2. \/ known' = known
      \/ known' = [a \in Address |->
                    IF a \in Span(0, length) THEN app_flash_crc(slot, at, length)[a + 1] ELSE known[a]]
  BY DEF req_cb_flash_crc, Learn
<1>3. \A a \in Address : a \in Span(0, length) => app_flash_crc(slot, at, length)[a + 1] = slot[a]
  <2>1. \A a \in Address : a \in Span(0, length) => a < length
    BY DEF Span, Address
  <2>2. QED
    BY <2>1, CrcCovers
<1>4. QED
  BY <1>1, <1>2, <1>3 DEF Truthful, TypeOK

-----------------------------------------------------------------------------
(* Theorems *)

\* Each step is a request, and counts as one.
LEMMA Cases ==
  ASSUME [Next]_vars
  PROVE  \/ UNCHANGED vars
         \/ /\ served < MaxRequests /\ served' = served + 1
            /\ \/ \E at \in Nat, length \in Length :
                    \/ \E v \in Version : req_cb_flash_write(at, length, v)
                    \/ req_cb_flash_erase(at, length)
                    \/ req_cb_flash_read(at, length)
                    \/ req_cb_flash_crc(at, length)
               \/ req_cb_flash_info
               \/ req_cb_flash_start
BY DEF Next, Writes, Erases, Reads, Checks, Starts

LEMMA TypedInit == Init => TypeOK
<1> SUFFICES ASSUME Init PROVE TypeOK
  OBVIOUS
<1>1. slot \in [Address -> Value]
  BY DEF Init, Value, Byte, Address
<1>2. QED
  BY <1>1 DEF Init, TypeOK

LEMMA TruthInit == Init => Truthful
BY DEF Init, Truthful

\* What every request leaves: types, and an answer for the request.
LEMMA TypedStep == TypeOK /\ [Next]_vars => TypeOK'
<1> SUFFICES ASSUME TypeOK, [Next]_vars PROVE TypeOK'
  OBVIOUS
<1>1. CASE UNCHANGED vars
  BY <1>1 DEF TypeOK, vars
<1>2. ASSUME served < MaxRequests, served' = served + 1,
             slot' \in [Address -> Value], known' \in [Address -> Value \cup {Unknown}],
             heap' \in 0..HeapSize, failed' \in Nat,
             NEW op \in {"write", "erase", "read", "crc", "info", "start"},
             NEW at \in Nat, NEW length \in Nat, NEW answer, respond(op, at, length, answer)
      PROVE  TypeOK'
  <2>1. rsp'.op = op /\ rsp'.at = at /\ rsp'.len = length
    BY <1>2 DEF respond
  <2>2. served' \in 0..MaxRequests
    BY <1>2 DEF TypeOK
  <2>3. QED
    BY <1>2, <2>1, <2>2 DEF TypeOK
<1>3. heap \in 0..HeapSize /\ failed \in Nat /\ slot \in [Address -> Value]
      /\ known \in [Address -> Value \cup {Unknown}]
  BY DEF TypeOK
<1>4. ASSUME NEW at \in Nat, NEW length \in Length, NEW v \in Version,
             served < MaxRequests, served' = served + 1, req_cb_flash_write(at, length, v)
      PROVE  TypeOK'
  <2>1. slot' \in [Address -> Value] /\ known' \in [Address -> Value \cup {Unknown}]
    BY <1>4, WriteStep
  <2>2. heap' = heap /\ failed' = failed /\ \E answer : respond("write", at, length, answer)
    BY <1>4 DEF req_cb_flash_write
  <2>3. length \in Nat
    OBVIOUS
  <2>4. QED
    BY <1>2, <1>3, <1>4, <2>1, <2>2, <2>3
<1>5. ASSUME NEW at \in Nat, NEW count \in Length,
             served < MaxRequests, served' = served + 1, req_cb_flash_erase(at, count)
      PROVE  TypeOK'
  <2>1. slot' \in [Address -> Value] /\ known' \in [Address -> Value \cup {Unknown}]
    BY <1>5, EraseStep
  <2>2. heap' = heap /\ failed' = failed /\ \E answer : respond("erase", at, count * Page, answer)
    BY <1>5 DEF req_cb_flash_erase
  <2>3. count * Page \in Nat
    OBVIOUS
  <2>4. QED
    BY <1>2, <1>3, <1>5, <2>1, <2>2, <2>3
<1>6. ASSUME NEW at \in Nat, NEW length \in Length,
             served < MaxRequests, served' = served + 1, req_cb_flash_read(at, length)
      PROVE  TypeOK'
  <2>1. /\ slot' = slot /\ known' \in [Address -> Value \cup {Unknown}]
        /\ \/ heap' = heap /\ failed' = failed
           \/ /\ (length % W16) + Header <= heap /\ failed' = failed + 1
              /\ heap' = heap - ((length % W16) + Header)
    BY <1>6, ReadStep
  <2>2. \E answer : respond("read", at, length, answer)
    BY <1>6 DEF req_cb_flash_read
  <2>3. length \in Nat /\ length % W16 \in Nat
    OBVIOUS
  <2>4. heap' \in 0..HeapSize /\ failed' \in Nat
    BY <1>3, <2>1, <2>3
  <2>5. QED
    BY <1>2, <1>3, <1>6, <2>1, <2>2, <2>3, <2>4
<1>7. ASSUME NEW at \in Nat, NEW length \in Length,
             served < MaxRequests, served' = served + 1, req_cb_flash_crc(at, length)
      PROVE  TypeOK'
  <2>1. slot' = slot /\ known' \in [Address -> Value \cup {Unknown}]
    BY <1>7, CrcStep
  <2>2. heap' = heap /\ failed' = failed /\ \E answer : respond("crc", at, length, answer)
    BY <1>7 DEF req_cb_flash_crc
  <2>3. length \in Nat
    OBVIOUS
  <2>4. QED
    BY <1>2, <1>3, <1>7, <2>1, <2>2, <2>3
<1>8. ASSUME served < MaxRequests, served' = served + 1, req_cb_flash_info \/ req_cb_flash_start
      PROVE  TypeOK'
  <2>1. /\ slot' = slot /\ known' = known /\ heap' = heap /\ failed' = failed
        /\ \E op \in {"info", "start"} : \E answer : respond(op, 0, 0, answer)
    BY <1>8 DEF req_cb_flash_info, req_cb_flash_start
  <2>2. QED
    BY <1>2, <1>3, <1>8, <2>1
<1>9. QED
  BY <1>1, <1>4, <1>5, <1>6, <1>7, <1>8, Cases

LEMMA TruthStep == Counted /\ TypeOK /\ Truthful /\ [Next]_vars => Truthful'
<1> SUFFICES ASSUME Counted, TypeOK, Truthful, [Next]_vars PROVE Truthful'
  OBVIOUS
<1>1. CASE UNCHANGED vars
  BY <1>1 DEF Truthful, vars
<1>2. ASSUME NEW at \in Nat, NEW length \in Length, NEW v \in Version, req_cb_flash_write(at, length, v)
      PROVE  Truthful'
  BY <1>2, WriteStep
<1>3. ASSUME NEW at \in Nat, NEW count \in Length, req_cb_flash_erase(at, count)
      PROVE  Truthful'
  BY <1>3, EraseStep DEF Counted
<1>4. ASSUME NEW at \in Nat, NEW length \in Length, req_cb_flash_read(at, length)
      PROVE  Truthful'
  BY <1>4, ReadStep
<1>5. ASSUME NEW at \in Nat, NEW length \in Length, req_cb_flash_crc(at, length)
      PROVE  Truthful'
  BY <1>5, CrcStep
<1>6. CASE req_cb_flash_info \/ req_cb_flash_start
  BY <1>6 DEF req_cb_flash_info, req_cb_flash_start, Truthful
<1>7. QED
  BY <1>1, <1>2, <1>3, <1>4, <1>5, <1>6, Cases

LEMMA LeakStep == TypeOK /\ LeakBounded /\ [Next]_vars => LeakBounded'
<1> SUFFICES ASSUME TypeOK, LeakBounded, [Next]_vars,
                    NEW most \in 0..(W16 - 1), \A length \in Length : length % W16 <= most
             PROVE  HeapSize - heap' <= failed' * (most + Header)
  BY DEF LeakBounded
<1> DEFINE cost == most + Header
<1>1. /\ HeapSize - heap <= failed * cost
      /\ heap \in Nat /\ failed \in Nat /\ cost \in Nat
  <2>1. HeapSize - heap <= failed * cost
    BY Zenon DEF LeakBounded
  <2>2. heap \in Nat /\ failed \in Nat
    BY DEF TypeOK
  <2>3. cost \in Nat
    OBVIOUS
  <2>4. QED
    BY <2>1, <2>2, <2>3
<1>2. CASE heap' = heap /\ failed' = failed
  BY <1>1, <1>2
<1>3. ASSUME NEW at \in Nat, NEW length \in Length, req_cb_flash_read(at, length)
      PROVE  HeapSize - heap' <= failed' * cost
  <2>1. length % W16 \in Nat /\ length % W16 <= most
    OBVIOUS
  <2>2. (length % W16) + Header <= cost
    BY <2>1
  <2>3. \/ heap' = heap /\ failed' = failed
        \/ failed' = failed + 1 /\ heap' = heap - ((length % W16) + Header)
    BY <1>3, ReadStep
  <2>4. CASE failed' = failed + 1 /\ heap' = heap - ((length % W16) + Header)
    <3> HIDE DEF cost
    <3>1. PICK lost \in Nat : lost = failed * cost
      BY <1>1
    <3>2. (failed + 1) * cost = lost + cost
      BY <1>1, <3>1
    <3>3. QED
      BY <1>1, <2>1, <2>2, <2>4, <3>1, <3>2
  <2>5. QED
    BY <1>2, <2>3, <2>4
<1>4. CASE UNCHANGED vars
  BY <1>2, <1>4 DEF vars
<1>5. ASSUME NEW at \in Nat, NEW length \in Length,
             \/ \E v \in Version : req_cb_flash_write(at, length, v)
             \/ req_cb_flash_erase(at, length)
             \/ req_cb_flash_crc(at, length)
      PROVE  heap' = heap /\ failed' = failed
  BY <1>5 DEF req_cb_flash_write, req_cb_flash_erase, req_cb_flash_crc
<1>6. CASE req_cb_flash_info \/ req_cb_flash_start
  BY <1>2, <1>6 DEF req_cb_flash_info, req_cb_flash_start
<1>7. QED
  BY <1>2, <1>3, <1>4, <1>5, <1>6, Cases

\* Every variable has its type and every answer its form.
THEOREM TypeCorrect == Spec => []TypeOK
<1>1. Init => TypeOK
  BY TypedInit
<1>2. TypeOK /\ [Next]_vars => TypeOK'
  BY TypedStep
<1>3. QED
  BY <1>1, <1>2, PTL DEF Spec

\* What a peer may conclude from the answers to its requests is what the slot of the
\* chip holds, whatever it asks for in whatever order: the padding of app_flash_write
\* hurts no neighbour, a write that is refused half-way touches only its own bytes, and
\* app_flash_crc covers each byte once.
THEOREM AnswersTrue == Counted => (Spec => []Truthful)
<1> SUFFICES ASSUME Counted PROVE Spec => []Truthful
  OBVIOUS
<1>1. Init => Truthful
  BY TruthInit
<1>2. TypeOK /\ Truthful /\ [Next]_vars => Truthful'
  BY TruthStep
<1>3. QED
  BY <1>1, <1>2, TypeCorrect, PTL DEF Spec

\* A read that is refused loses one block of the heap (req_cb_flash_read); nothing else
\* loses any of it.
THEOREM LeakCounted == Spec => []LeakBounded
<1>1. Init => LeakBounded
  <2> SUFFICES ASSUME Init, NEW most \in 0..(W16 - 1)
               PROVE  HeapSize - heap <= failed * (most + Header)
    BY DEF LeakBounded
  <2>1. HeapSize \in Nat /\ heap = HeapSize /\ failed = 0 /\ most + Header \in Nat
    BY DEF Init
  <2>2. 0 * (most + Header) = 0
    BY <2>1
  <2>3. QED
    BY <2>1, <2>2
<1>2. TypeOK /\ LeakBounded /\ [Next]_vars => LeakBounded'
  BY LeakStep
<1>3. QED
  BY <1>1, <1>2, TypeCorrect, PTL DEF Spec

\* A request that is refused leaves all bytes alone that it is not about, and all of
\* them unless it is a write.
THEOREM RefusedHarmless == Spec => RefusedStaysInside
<1> DEFINE Inside ==
      rsp'.answer = None =>
        \A a \in Address \ Span(rsp'.at, IF rsp'.op = "write" THEN rsp'.len ELSE 0) :
          slot'[a] = slot[a]
<1>1. TypeOK /\ [Next]_vars => [Inside]_vars
  <2> SUFFICES ASSUME TypeOK, [Next]_vars, ~(UNCHANGED vars) PROVE Inside
    OBVIOUS
  <2>1. ASSUME NEW at \in Nat, NEW length \in Length, NEW v \in Version, req_cb_flash_write(at, length, v)
        PROVE  Inside
    <3>1. rsp'.at = at /\ rsp'.op = "write" /\ rsp'.len = length
      BY <2>1 DEF req_cb_flash_write, respond
    <3>2. \A a \in Address \ Span(at, length) : slot'[a] = slot[a]
      BY <2>1, WriteStep
    <3>3. QED
      BY <3>1, <3>2
  <2>2. ASSUME NEW at \in Nat, NEW count \in Length, req_cb_flash_erase(at, count)
        PROVE  Inside
    BY <2>2, EraseStep
  <2>3. ASSUME NEW at \in Nat, NEW length \in Length,
               req_cb_flash_read(at, length) \/ req_cb_flash_crc(at, length)
        PROVE  Inside
    BY <2>3 DEF req_cb_flash_read, req_cb_flash_crc
  <2>4. CASE req_cb_flash_info \/ req_cb_flash_start
    BY <2>4 DEF req_cb_flash_info, req_cb_flash_start
  <2> HIDE DEF Inside
  <2>5. QED
    BY <2>1, <2>2, <2>3, <2>4, Cases
<1>2. QED
  BY <1>1, TypeCorrect, PTL DEF Spec, RefusedStaysInside

=============================================================================
