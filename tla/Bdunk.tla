------------------------------- MODULE Bdunk -------------------------------
(***************************************************************************)
(* BDUNK, the Mac tool (BD.swift): a Bluetooth central that has the images *)
(* and answers the notifications of the bchip.  Its methods are operators  *)
(* from the object on entry to the object on return, with what they write  *)
(* to the NUS characteristic.                                              *)
(*                                                                         *)
(* A byte of an image is named by the start of BDUNK it was sent in, the   *)
(* chip it is for and its index.                                           *)
(***************************************************************************)
EXTENDS Integers, Sequences

CONSTANTS
  Packet,   \* mtusize: bytes of an image in a packet
  Sizes     \* the sizes of images

ASSUME PacketAssumption == Packet \in Nat \ {0}
ASSUME ImageAssumption == Sizes \subseteq Nat \ {0}

Chip == {"52", "91"}
What == {"52", "91", "both"}   \* whattoupdate

\* The op codes of dfu_module_52.h that the two sides notify and write.
ToCentral == {"get", "success", "selfstart", "devinf", "cut"}
ToBchip == {"start", "info", "data", "self", "done", "empty"}

\* The packets, each with the fields that the receiver reads.
Plain(op) == [op |-> op]
Info(size, what, id) == [op |-> "info", size |-> size, what |-> what, id |-> id]
Data(bytes) == [op |-> "data", bytes |-> bytes]
DevInf(avail91, avail52) == [op |-> "devinf", avail91 |-> avail91, avail52 |-> avail52]

-----------------------------------------------------------------------------
(* The object *)

\* BDUNK starts, with the arguments of the user.  In the branch for both pre_logic
\* asks for the size of an image it has not read yet and traps; loads is a central
\* that reads it first, as the other branches do, so that the rest of the protocol
\* for both is there to be checked.
Launched(id, what, size52, size91, loads) ==
  [status |-> "on", id |-> id, what |-> what, size52 |-> size52, size91 |-> size91,
   loads |-> loads, file |-> "none", op |-> "start", idx |-> 0,
   rec |-> DevInf(0, 0), updating |-> FALSE, auto |-> TRUE]

\* adata and file_size.
Loaded(c, chip) == [c EXCEPT !.file = chip]
FileSize(c) == CASE c.file = "52" -> c.size52
                 [] c.file = "91" -> c.size91
                 [] OTHER -> 0

\* A Swift trap ends the process.
Trapped(c) == [c EXCEPT !.status = "crashed"]

Result(c, out) == [c |-> c, out |-> out]

\* writeOutgoingValue, at the end of logic.
Write(c, p) == Result(c, IF c.updating THEN <<p>> ELSE <<>>)

\* Mutant: all that is left is sent at once.
extract_Whole(c) ==
  [i \in 1..(FileSize(c) - c.idx) |-> <<c.id, c.file, c.idx + i - 1>>]

\* extract: the next packet, the last of which may be short.  The range of an
\* index past the end is inverted, which traps.
Extractable(c) == FileSize(c) > 0 /\ c.idx <= FileSize(c)

extract(c) ==
  LET end == IF FileSize(c) - c.idx >= Packet THEN c.idx + Packet ELSE FileSize(c)
  IN [i \in 1..(end - c.idx) |-> <<c.id, c.file, c.idx + i - 1>>]

\* Mutant: the size is rounded up to whole packets.
SendInfo_Rounded(c) ==
  IF c.file = "none" THEN Result(Trapped(c), <<>>)
  ELSE Write(c, Info(((FileSize(c) + Packet - 1) \div Packet) * Packet, c.what, c.id))

\* Case 1 of logic.
SendInfo(c) ==
  IF c.file = "none" THEN Result(Trapped(c), <<>>)
  ELSE Write(c, Info(FileSize(c), c.what, c.id))

\* pre_logic, with the device information last received.  process_rec_Data takes
\* the available size of the 91 for that of the 52 and the other way round.
pre_logic(c) ==
  LET loaded == IF c.what \in Chip THEN Loaded(c, c.what)
                ELSE IF c.loads THEN Loaded(c, "91") ELSE c
      avail == IF c.what = "52" THEN c.rec.avail91 ELSE c.rec.avail52
  IN IF loaded.file = "none" THEN Result(Trapped(c), <<>>)
     ELSE IF avail < FileSize(loaded) THEN Result(loaded, <<>>)
     ELSE SendInfo([loaded EXCEPT !.op = "info"])

\* Case 7 of logic: the first of two images is followed by that of the 52.
on_success(c) ==
  LET r == [c EXCEPT !.idx = 0]
  IN IF c.what = "both"
     THEN Write(Loaded([r EXCEPT !.what = "52", !.op = "self"], "52"), Plain("self"))
     ELSE Write([r EXCEPT !.auto = FALSE], Plain("done"))

\* centralManagerDidUpdateState, when the Bluetooth of the Mac is reset.
centralManagerDidUpdateState(c) == [c EXCEPT !.updating = FALSE]

\* logic, by the last op code.  yes is the answer of the user to the question
\* asked at the start.
logic(c, yes) ==
  CASE c.op = "start" ->
         IF yes THEN Write([c EXCEPT !.updating = TRUE], Plain("start"))
         ELSE Result(c, <<>>)
    [] c.op = "info" -> SendInfo(c)
    [] c.op = "get" ->
         IF Extractable(c)
         THEN Write([c EXCEPT !.idx = @ + Packet], Data(extract(c)))
         ELSE Result(Trapped(c), <<>>)
    [] c.op = "success" -> on_success(c)
    [] c.op = "selfstart" -> SendInfo([c EXCEPT !.op = "info"])
    [] c.op = "devinf" -> pre_logic(c)
    [] OTHER -> Write(c, Plain("empty"))

\* didUpdateValueFor: a notification.
Notified(c, p) ==
  logic([c EXCEPT !.op = p.op, !.rec = IF p.op = "devinf" THEN p ELSE @], TRUE)
=============================================================================
