----------------------------- MODULE FlashServer -----------------------------
(***************************************************************************)
(* The flash requests a chip serves over SIMP: write, erase, read, CRC,    *)
(* information and start.  Every operation of dfu_module_52.c on the       *)
(* secondary slot is here; those of int_dfu_helper.c are the same text but *)
(* for the information, which the ichip does not serve.                    *)
(*                                                                         *)
(* The ichip uses only two of them (SerialDfu.tla); the other callbacks    *)
(* are registered and answer any peer that asks.  known is what such a     *)
(* peer may conclude from the answers it got: the point of having them is  *)
(* that it need not guess what the slot holds.                             *)
(*                                                                         *)
(* A callback runs in the system work queue and SIMP serves one request at *)
(* a time (Simp.tla), so a request and its answer are one step.            *)
(***************************************************************************)
EXTENDS AppFlash

CONSTANTS
  BankAddr,     \* fa_off, where the slot begins in the memory
  Step,         \* bytes that app_flash_crc adds at once
  HeapSize,     \* CONFIG_HEAP_MEM_POOL_SIZE
  Header,       \* what the heap needs for a block of its own
  W16, W32,     \* the values of a uint16_t and of a uint32_t
  Version,      \* of what the peer writes
  Offset,       \* at which it asks for something
  Length,       \* of what it asks for
  MaxRequests,  \* bound of the requests
  None,         \* the empty response
  Unknown       \* a byte the peer knows nothing of

ASSUME ServerAssumption ==
  /\ BankAddr \in Nat /\ BankAddr % Page = 0
  /\ Step \in Nat \ {0} /\ HeapSize \in Nat /\ Header \in Nat
  /\ W16 \in Nat \ {0} /\ W32 \in Nat \ {0} /\ W32 % Page = 0
  /\ Offset \subseteq Nat /\ Length \subseteq Nat /\ MaxRequests \in Nat
  /\ None # "ok"

VARIABLES
  slot,      \* the secondary slot
  heap,      \* bytes left of the heap
  failed,    \* history: reads that the flash refused
  known,     \* history: what the answers say of the slot
  rsp,       \* the last request and its answer
  served     \* requests so far

vars == <<slot, heap, failed, known, rsp, served>>

Byte == Version \X Nat
Value == Byte \cup {Blank, Mixed}
Span(at, length) == at..(at + length - 1)   \* addresses

\* What the peer has at address a of version v, length bytes from at on.
Piece(v, at, length) == [i \in 1..length |-> <<v, at + i - 1>>]

-----------------------------------------------------------------------------
(* Reading the slot: app_flash.c *)

\* flash_area_read, all or nothing.
app_flash_read(s, at, length) ==
  IF InSlot(at, length) THEN [ok |-> TRUE, data |-> [i \in 1..length |-> s[at + i - 1]]]
  ELSE [ok |-> FALSE, data |-> <<>>]

\* The CRC stands for the bytes it is computed of.  app_flash_crc begins at the start
\* of the bank whatever the offset, adds whole steps and then the rest, and does not
\* look where the slot ends.
Memory(s, a) == IF a \in Address THEN s[a] ELSE Unknown
app_flash_crc(s, at, length) ==
  LET steps == length \div Step
      covered == (steps * Step) + (length % Step)
  IN [k \in 1..covered |-> Memory(s, (((k - 1) \div Step) * Step) + ((k - 1) % Step))]

PageBlank(s, p) == \A a \in Span(p * Page, Page) : s[a] = Blank

\* The loop of app_flash_si_slotinfo goes on to the next page once it has found a byte
\* that is not erased, in this page or in an earlier one; an address is compared with
\* the size of the slot.
StopsAt(s, p) ==
  BankAddr + p * Page >= SlotLen \/ \A q \in 0..p : PageBlank(s, q)

app_flash_si_slotinfo(s) ==
  LET p == CHOOSE p \in 0..(SlotLen \div Page) :
             StopsAt(s, p) /\ \A q \in 0..(p - 1) : ~StopsAt(s, q)
      before == (BankAddr + p * Page - Page) % W32
  IN [bank |-> BankAddr, pages |-> SlotLen \div Page,
      first |-> IF before > BankAddr THEN before ELSE BankAddr]

-----------------------------------------------------------------------------
(* The callbacks *)

respond(op, at, length, answer) ==
  rsp' = [op |-> op, at |-> at, len |-> length, answer |-> answer]

\* What the peer concludes of the bytes in span, if they are now as val says.
Learn(span, val(_)) ==
  known' = [a \in Address |-> IF a \in span THEN val(a) ELSE known[a]]

req_cb_flash_write(at, length, v) ==
  LET data == Piece(v, at, length)
      r == app_flash_write(slot, at, data)
  IN /\ slot' = r.slot
     /\ respond("write", at, length, IF r.ok THEN "ok" ELSE None)
     /\ LET Now(a) == IF r.ok /\ known[a] # Unknown
                      THEN Programmed(known[a], <<v, a>>) ELSE Unknown
        IN Learn(Span(at, length), Now)
     /\ UNCHANGED <<heap, failed>>

\* count * 0x1000 is a uint32_t.
req_cb_flash_erase(at, count) ==
  LET r == app_flash_erase_page(slot, at, ((count * Page) % W32) \div Page)
  IN /\ slot' = r.slot
     /\ respond("erase", at, count * Page, IF r.ok THEN "ok" ELSE None)
     /\ IF r.ok THEN LET Now(a) == Blank IN Learn(Span(at, count * Page), Now)
        ELSE UNCHANGED known
     /\ UNCHANGED <<heap, failed>>

\* Mutant: does not look what k_malloc returns.
req_cb_flash_read_Unchecked(at, length) ==
  LET block == (length % W16) + Header
      r == app_flash_read(slot, at, length)
  IN /\ IF r.ok THEN UNCHANGED <<heap, failed>>
        ELSE heap' = heap - block /\ failed' = failed + 1
     /\ respond("read", at, length, None)
     /\ UNCHANGED <<slot, known>>

\* Mutant: frees the block only if there is nothing in it.
req_cb_flash_read_FreesLate(at, length) ==
  LET block == (length % W16) + Header
      r == app_flash_read(slot, at, length)
  IN /\ block <= heap
     /\ heap' = IF r.ok THEN heap - block ELSE heap
     /\ failed' = IF r.ok THEN failed ELSE failed + 1
     /\ respond("read", at, length, IF r.ok THEN r.data ELSE None)
     /\ UNCHANGED <<slot, known>>

\* The length of the response is a uint16_t.  A block that could not be filled is not
\* given back.
req_cb_flash_read(at, length) ==
  LET rsp_len == length % W16
      block == rsp_len + Header
      r == app_flash_read(slot, at, length)
      got == SubSeq(r.data, 1, rsp_len)
  IN /\ \/ /\ block <= heap /\ r.ok
           /\ respond("read", at, length, got)
           /\ LET Now(a) == got[a - at + 1] IN Learn(Span(at, rsp_len), Now)
           /\ UNCHANGED <<heap, failed>>
        \/ /\ block <= heap /\ ~r.ok
           /\ heap' = heap - block /\ failed' = failed + 1
           /\ respond("read", at, length, None)
           /\ UNCHANGED known
        \/ \* k_malloc fails: not enough is left, or others have it
           /\ respond("read", at, length, None)
           /\ UNCHANGED <<heap, failed, known>>
     /\ UNCHANGED slot

\* From a CRC of the start of the slot the peer learns whether it is what it has in mind.
req_cb_flash_crc(at, length) ==
  LET crc == app_flash_crc(slot, at, length)
  IN /\ respond("crc", at, length, crc)
     /\ IF at = 0 THEN LET Now(a) == crc[a + 1] IN Learn(Span(0, length), Now)
        ELSE UNCHANGED known
     /\ UNCHANGED <<slot, heap, failed>>

req_cb_flash_info ==
  /\ respond("info", 0, 0, app_flash_si_slotinfo(slot))
  /\ UNCHANGED <<slot, heap, failed, known>>

req_cb_flash_start ==
  /\ respond("start", 0, 0, "ok")
  /\ UNCHANGED <<slot, heap, failed, known>>

-----------------------------------------------------------------------------
(* When the chip starts the slot holds an image, as much of it as has arrived, or
   nothing. *)

Init ==
  /\ \E v \in Version, n \in Length :
       slot = [a \in Address |-> IF a < n THEN <<v, a>> ELSE Blank]
  /\ heap = HeapSize /\ failed = 0 /\ served = 0
  /\ known = [a \in Address |-> Unknown]
  /\ rsp = [op |-> "start", at |-> 0, len |-> 0, answer |-> None]

Writes == \E at \in Offset, length \in Length, v \in Version : req_cb_flash_write(at, length, v)
Erases == \E at \in Offset, count \in Length : req_cb_flash_erase(at, count)
Reads == \E at \in Offset, length \in Length : req_cb_flash_read(at, length)
Checks == \E at \in Offset, length \in Length : req_cb_flash_crc(at, length)
Starts == req_cb_flash_start

Next ==
  /\ served < MaxRequests /\ served' = served + 1
  /\ Writes \/ Erases \/ Reads \/ Checks \/ req_cb_flash_info \/ Starts

Spec == Init /\ [][Next]_vars

-----------------------------------------------------------------------------
(* Properties *)

\* The types, and what an answer looks like.
TypeOK ==
  /\ slot \in [Address -> Value] /\ known \in [Address -> Value \cup {Unknown}]
  /\ heap \in 0..HeapSize /\ failed \in Nat /\ served \in 0..MaxRequests
  /\ rsp.op \in {"write", "erase", "read", "crc", "info", "start"}
  /\ rsp.at \in Nat /\ rsp.len \in Nat

\* What the peer may conclude from the answers to all its requests is what the slot
\* holds: acknowledged writes and erases have happened as asked, also where the end of
\* a buffer is filled up to a word, a write that programs twice included; data and CRC
\* are those of the slot; and a request that is refused half-way changes nothing that
\* the peer had no reason to doubt.
Truthful == \A a \in Address : known[a] # Unknown => slot[a] = known[a]

\* A refused request changes at most the bytes it was about: none, unless it is a
\* write whose last word does not fit behind the words before it.
RefusedStaysInside ==
  [][rsp'.answer = None =>
       \A a \in Address \ Span(rsp'.at, IF rsp'.op = "write" THEN rsp'.len ELSE 0) :
         slot'[a] = slot[a]]_vars

\* Each read that the flash refuses costs the heap one block, and no other request
\* costs it anything (req_cb_flash_read frees the block it has answered from).
LeakBounded ==
  \A most \in 0..(W16 - 1) :
    (\A length \in Length : length % W16 <= most)
      => HeapSize - heap <= failed * (most + Header)
=============================================================================
