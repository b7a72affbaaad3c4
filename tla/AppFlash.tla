------------------------------ MODULE AppFlash ------------------------------
(***************************************************************************)
(* The secondary slot of a chip and the functions of app_flash.c on it.    *)
(* The file of the ichip and that of the bchip differ in comments and log  *)
(* messages only.                                                          *)
(*                                                                         *)
(* Flash is programmed by clearing bits: a byte that is not erased first   *)
(* is overwritten with a mixture of the old and the new one, and 0xFF      *)
(* changes nothing.                                                        *)
(***************************************************************************)
EXTENDS Integers, Sequences

CONSTANTS
  Word,      \* bytes programmed at once
  Page,      \* bytes erased at once
  SlotLen,   \* bytes in the slot
  Blank,     \* an erased byte, 0xFF
  Mixed      \* a byte programmed twice

ASSUME FlashAssumption ==
  /\ Word \in Nat \ {0} /\ Page \in Nat \ {0} /\ SlotLen \in Nat
  /\ Page % Word = 0 /\ SlotLen % Page = 0

Address == 0..(SlotLen - 1)

Programmed(old, new) ==
  IF new = Blank \/ new = old THEN old ELSE IF old = Blank THEN new ELSE Mixed

-----------------------------------------------------------------------------
(* The flash map of Zephyr: all or nothing, whole words, within the slot *)

InSlot(offset, length) == offset >= 0 /\ offset + length <= SlotLen

flash_area_write(slot, offset, data) ==
  IF InSlot(offset, Len(data)) /\ offset % Word = 0 /\ Len(data) % Word = 0
  THEN [ok |-> TRUE,
        slot |-> [a \in Address |-> IF a \in offset..(offset + Len(data) - 1)
                                    THEN Programmed(slot[a], data[a - offset + 1])
                                    ELSE slot[a]]]
  ELSE [ok |-> FALSE, slot |-> slot]

flash_area_erase(slot, offset, length) ==
  IF InSlot(offset, length) /\ offset % Page = 0 /\ length % Page = 0
  THEN [ok |-> TRUE,
        slot |-> [a \in Address |-> IF a \in offset..(offset + length - 1)
                                    THEN Blank ELSE slot[a]]]
  ELSE [ok |-> FALSE, slot |-> slot]

-----------------------------------------------------------------------------
(* app_flash.c *)

Smaller(a, b) == IF a < b THEN a ELSE b

\* Mutant: the last word is filled up with what is in memory.
LastWord_Garbage(data, aligned) ==
  [i \in 1..Word |-> IF aligned + i <= Len(data) THEN data[aligned + i] ELSE Mixed]

\* The end of a buffer that does not fill a word is filled up with 0xFF.
LastWord(data, aligned) ==
  [i \in 1..Word |-> IF aligned + i <= Len(data) THEN data[aligned + i] ELSE Blank]

\* app_flash_write: the whole words, then the rest if there is one.
app_flash_write(slot, offset, data) ==
  LET aligned == (Len(data) \div Word) * Word
      words == flash_area_write(slot, offset, SubSeq(data, 1, aligned))
  IN IF ~words.ok \/ aligned = Len(data) THEN words
     ELSE flash_area_write(words.slot, offset + aligned, LastWord(data, aligned))

\* Mutant: erases page after page and tells the failure afterwards.
app_flash_erase_page_OneByOne(slot, offset, count) ==
  LET inside == flash_area_erase(slot, offset, SlotLen - offset)
      all == flash_area_erase(slot, offset, Smaller(count * Page, SlotLen))
  IN IF all.ok THEN all ELSE [ok |-> FALSE, slot |-> inside.slot]

app_flash_erase_page(slot, offset, count) ==
  flash_area_erase(slot, offset, Smaller(count * Page, SlotLen))

\* app_flash_get_DevInf.  The slot is never found to be missing.
app_flash_get_DevInf == SlotLen
=============================================================================
