------------------------- MODULE BleStoredProofs -------------------------
(***************************************************************************)
(* Proofs about the bytes of the update over Bluetooth: every variable of  *)
(* BleDfu.tla has its type, and what has been programmed of an image is at *)
(* the address where BDUNK has it, for all sizes of packets, blocks,       *)
(* images and slots, any number of starts of BDUNK and of faults (Timely,  *)
(* Apart).                                                                 *)
(*                                                                         *)
(* A byte is named by its image and its address, so that each place that   *)
(* holds bytes (a packet, m_cmd_buffer, the request to the ichip, a slot)  *)
(* can say which ones they are.  BleTransferProofs.tla shows where each    *)
(* place is in the image; here it holds what belongs there.                *)
(***************************************************************************)
EXTENDS BleTransferProofs, FiniteSetTheorems

Value == Byte \cup {Blank, Mixed}

-----------------------------------------------------------------------------
(* What app_flash_write does to a slot *)

\* A slot that n bytes are programmed into.
Burnt(slot, at, data, n) ==
  [a \in Address |-> IF a \in Span(at, n) THEN Programmed(slot[a], data[a - at + 1]) ELSE slot[a]]

\* flash_area_write programs all or nothing.
LEMMA AreaWritten ==
  ASSUME NEW slot, NEW at \in Nat, NEW data, Queue(data), NEW r, r = flash_area_write(slot, at, data)
  PROVE  /\ r.ok \in BOOLEAN
         /\ r.slot = IF r.ok THEN Burnt(slot, at, data, Len(data)) ELSE slot
         /\ r.ok => at + Len(data) <= SlotLen
<1>1. Len(data) \in Nat
  BY DEF Queue
<1>2. QED
  BY <1>1 DEF flash_area_write, Burnt, Span, InSlot

\* Values stay values.
LEMMA ProgrammedValue ==
  ASSUME NEW V, NEW old \in V, NEW new \in V, Mixed \in V
  PROVE  Programmed(old, new) \in V
BY DEF Programmed

\* app_flash_write programs the bytes at their addresses; what fills up the last word
\* changes nothing.
LEMMA WriteStores ==
  ASSUME NEW slot, NEW at \in Nat, NEW data, Queue(data), slot = [a \in Address |-> slot[a]],
         NEW r, r = app_flash_write(slot, at, data), r.ok
  PROVE  r.slot = Burnt(slot, at, data, Len(data)) /\ Span(at, Len(data)) \subseteq Address
<1> DEFINE aligned == (Len(data) \div Word) * Word
           front == SubSeq(data, 1, aligned)
           words == flash_area_write(slot, at, front)
           last == LastWord(data, aligned)
           tail == flash_area_write(words.slot, at + aligned, last)
<1>1. Word \in Nat \ {0} /\ SlotLen \in Nat /\ Len(data) \in Nat /\ data \in Seq(ToSet(data))
  BY SlotOfWords DEF Queue
<1>2. aligned \in Nat /\ aligned <= Len(data) /\ Len(data) < aligned + Word
  <2>1. PICK k \in Nat : k = Len(data) \div Word
    BY <1>1
  <2>2. k * Word <= Len(data) /\ k * Word \in Nat /\ Len(data) < k * Word + Word
    BY <1>1, <2>1
  <2>3. QED
    BY <2>1, <2>2
<1>3. r = IF ~words.ok \/ aligned = Len(data) THEN words ELSE tail
  BY DEF app_flash_write
<1> HIDE DEF aligned
<1>4. /\ front \in Seq(ToSet(data)) /\ Len(front) = aligned
      /\ \A i \in 1..aligned : front[i] = data[i]
  BY <1>1, <1>2
<1>5. Queue(front)
  BY <1>4, SeqOfItsOwn DEF Queue
<1> HIDE DEF front
<1>6. words.slot = IF words.ok THEN Burnt(slot, at, front, aligned) ELSE slot
  <2> HIDE DEF words
  <2>1. QED
    BY <1>4, <1>5, AreaWritten DEF words
<1>7. words.ok => at + aligned <= SlotLen
  <2> HIDE DEF words
  <2>1. QED
    BY <1>4, <1>5, AreaWritten DEF words
<1>8. Burnt(slot, at, front, aligned) = Burnt(slot, at, data, aligned)
  BY <1>1, <1>2, <1>4 DEF Burnt, Span, Address
<1> HIDE DEF words
<1>9. CASE aligned = Len(data)
  <2>1. r = words /\ words.ok
    BY <1>3, <1>9
  <2>2. r.slot = Burnt(slot, at, data, Len(data))
    BY <1>6, <1>8, <1>9, <2>1
  <2>3. Span(at, Len(data)) \subseteq Address
    BY <1>1, <1>7, <1>9, <2>1 DEF Span, Address
  <2>4. QED
    BY <2>2, <2>3
<1>10. CASE aligned # Len(data)
  <2>1. words.ok /\ r = tail
    BY <1>3, <1>10
  <2>2. Queue(last) /\ Len(last) = Word
    <3>1. last = [i \in 1..Word |-> last[i]]
      BY DEF LastWord
    <3> HIDE DEF last
    <3>2. QED
      BY <1>1, <3>1, FunctionSeq
  <2>3. \A i \in 1..Word : last[i] = IF aligned + i <= Len(data) THEN data[aligned + i] ELSE Blank
    BY DEF LastWord
  <2> HIDE DEF last
  <2>4. at + aligned \in Nat
    BY <1>2
  <2>5. /\ tail.slot = Burnt(words.slot, at + aligned, last, Word)
        /\ at + aligned + Word <= SlotLen
    <3> HIDE DEF tail
    <3>1. QED
      BY <2>1, <2>2, <2>4, AreaWritten DEF tail
  <2> HIDE DEF tail
  <2> DEFINE mid == words.slot
  <2>6. mid = Burnt(slot, at, data, aligned)
    BY <1>6, <1>8, <2>1
  <2>7. \A a \in Address : Burnt(mid, at + aligned, last, Word)[a] = Burnt(slot, at, data, Len(data))[a]
    <3> SUFFICES ASSUME NEW a \in Address
                 PROVE  Burnt(mid, at + aligned, last, Word)[a] = Burnt(slot, at, data, Len(data))[a]
      OBVIOUS
    <3>1. a \in Nat
      BY DEF Address
    <3>2. CASE a < at + aligned
      BY <1>1, <1>2, <2>6, <3>1, <3>2 DEF Burnt, Span
    <3>3. CASE a \in (at + aligned)..(at + Len(data) - 1)
      <4>1. a - (at + aligned) + 1 \in 1..Word /\ aligned + (a - (at + aligned) + 1) = a - at + 1
        BY <1>1, <1>2, <3>1, <3>3
      <4>2. last[a - (at + aligned) + 1] = data[a - at + 1]
        BY <1>1, <1>2, <2>3, <3>1, <3>3, <4>1
      <4>3. mid[a] = slot[a]
        BY <1>1, <1>2, <2>6, <3>1, <3>3 DEF Burnt, Span
      <4>4. QED
        BY <1>1, <1>2, <3>1, <3>3, <4>1, <4>2, <4>3 DEF Burnt, Span
    <3>4. CASE a >= at + Len(data)
      <4>1. mid[a] = slot[a] /\ Burnt(slot, at, data, Len(data))[a] = slot[a]
        BY <1>1, <1>2, <2>6, <3>1, <3>4 DEF Burnt, Span
      <4>2. CASE a \in Span(at + aligned, Word)
        <5>1. a - (at + aligned) + 1 \in 1..Word /\ ~(aligned + (a - (at + aligned) + 1) <= Len(data))
          BY <1>1, <1>2, <3>1, <3>4, <4>2 DEF Span
        <5>2. last[a - (at + aligned) + 1] = Blank
          BY <2>3, <5>1
        <5>3. QED
          BY <4>1, <4>2, <5>2 DEF Burnt, Programmed
      <4>3. CASE a \notin Span(at + aligned, Word)
        BY <4>1, <4>3 DEF Burnt
      <4>4. QED
        BY <4>2, <4>3
    <3>5. QED
      BY <1>1, <1>2, <3>1, <3>2, <3>3, <3>4
  <2>8. r.slot = Burnt(slot, at, data, Len(data))
    <3>1. r.slot = Burnt(mid, at + aligned, last, Word)
      BY <2>1, <2>5
    <3>2. QED
      BY <2>7, <3>1 DEF Burnt
  <2>9. Span(at, Len(data)) \subseteq Address
    BY <1>1, <1>2, <2>5 DEF Span, Address
  <2>10. QED
    BY <2>8, <2>9
<1>11. QED
  BY <1>9, <1>10

\* A slot of values stays one, whatever the write returns.
LEMMA AreaTyped ==
  ASSUME NEW V, Mixed \in V, NEW slot \in [Address -> V], NEW at \in Nat, NEW data \in Seq(V)
  PROVE  flash_area_write(slot, at, data).slot \in [Address -> V]
<1>1. \A a \in Address : a \in at..(at + Len(data) - 1) => data[a - at + 1] \in V
  BY DEF Address
<1>2. QED
  BY <1>1, ProgrammedValue DEF flash_area_write

LEMMA WriteTyped ==
  ASSUME NEW V, Mixed \in V, Blank \in V, NEW slot \in [Address -> V],
         NEW at \in Nat, NEW data \in Seq(V), NEW r, r = app_flash_write(slot, at, data)
  PROVE  /\ r.slot \in [Address -> V]
         /\ r.ok => Span(at, Len(data)) \subseteq Address
<1> DEFINE aligned == (Len(data) \div Word) * Word
           words == flash_area_write(slot, at, SubSeq(data, 1, aligned))
           last == LastWord(data, aligned)
           tail == flash_area_write(words.slot, at + aligned, last)
<1>1. Word \in Nat \ {0} /\ Len(data) \in Nat /\ Queue(data)
  BY SlotOfWords, SeqOfItsOwn DEF Queue
<1>2. aligned \in Nat /\ aligned <= Len(data)
  <2>1. PICK k \in Nat : k = Len(data) \div Word
    BY <1>1
  <2>2. k * Word <= Len(data) /\ k * Word \in Nat
    BY <1>1, <2>1
  <2>3. QED
    BY <2>1, <2>2
<1>3. r = words \/ r = tail
  BY DEF app_flash_write
<1> HIDE DEF aligned
<1>4. words.slot \in [Address -> V]
  <2>1. SubSeq(data, 1, aligned) \in Seq(V)
    BY <1>1, <1>2
  <2>2. QED
    BY <2>1, AreaTyped
<1>5. tail.slot \in [Address -> V]
  <2>1. last \in [1..Word -> V]
    BY <1>1, <1>2 DEF LastWord
  <2>2. last \in Seq(V)
    BY <1>1, <2>1, SeqDef
  <2>3. at + aligned \in Nat
    BY <1>2
  <2> HIDE DEF words, last
  <2>4. QED
    BY <1>4, <2>2, <2>3, AreaTyped
<1>6. r.ok => Span(at, Len(data)) \subseteq Address
  <2>1. slot = [a \in Address |-> slot[a]]
    OBVIOUS
  <2>2. QED
    BY <1>1, <2>1, WriteStores
<1>7. QED
  BY <1>3, <1>4, <1>5, <1>6

\* Erasing leaves values.
LEMMA EraseTyped ==
  ASSUME NEW V, Blank \in V, NEW slot \in [Address -> V], NEW at, NEW count
  PROVE  app_flash_erase_page(slot, at, count).slot \in [Address -> V]
BY DEF app_flash_erase_page, flash_area_erase

-----------------------------------------------------------------------------
(* What BDUNK says *)

\* BDUNK sends the file that it is updating, under its own start.
Names(d) == d.file # "none" => (d.file = "52" <=> d.what = "52")

\* What the packet p that d sends, and what becomes of it, e, say about the image.
Keeps(d, p, e) ==
  /\ e.id = d.id /\ (Names(d) => Names(e))
  /\ p.op \in ToBchip
  /\ p.op = "info" => p.id = d.id
  /\ p.op = "data" =>
       d.op = "get" /\ Extractable(d) /\ p.bytes = extract(d) /\ e.what = d.what

LEMMA SendInfoNames ==
  ASSUME NEW d, IsBdunk(d), NEW r, r = SendInfo(d)
  PROVE  \E p : r.out \in {<<>>, <<p>>} /\ Keeps(d, p, r.c)
<1> DEFINE p == Info(FileSize(d), d.what, d.id)
<1>1. p.op = "info" /\ p.id = d.id
  BY DEF Info
<1> HIDE DEF p
<1>2. r.c \in {d, [d EXCEPT !.status = "crashed"]} /\ r.out \in {<<>>, <<p>>}
  <2>1. CASE d.file = "none"
    BY <2>1 DEF SendInfo, Trapped, Result
  <2>2. CASE d.file # "none"
    BY <2>2, Written DEF SendInfo, p
  <2>3. QED
    BY <2>1, <2>2
<1>3. r.c.id = d.id /\ r.c.file = d.file /\ r.c.what = d.what
  BY <1>2 DEF IsBdunk, BdunkFields
<1>4. Keeps(d, p, r.c)
  BY <1>1, <1>3 DEF Keeps, Names, ToBchip
<1>5. QED
  BY <1>2, <1>4

LEMMA LogicNames ==
  ASSUME NEW d, IsBdunk(d), NEW yes \in BOOLEAN, NEW r, r = logic(d, yes)
  PROVE  \E p : r.out \in {<<>>, <<p>>} /\ Keeps(d, p, r.c)
<1> DEFINE t == [d EXCEPT !.status = "crashed"]
           empty == Plain("empty")
<1>1. t.id = d.id /\ t.file = d.file /\ t.what = d.what
  BY DEF IsBdunk, BdunkFields
<1>2. empty.op = "empty"
  BY DEF Plain
<1> HIDE DEF t, empty
<1>3. CASE d.op = "start"
  <2> DEFINE e == [d EXCEPT !.updating = TRUE]
             p == Plain("start")
  <2>1. r = IF yes THEN Write(e, p) ELSE Result(d, <<>>)
    BY <1>3 DEF logic
  <2>2. e.id = d.id /\ e.file = d.file /\ e.what = d.what /\ p.op = "start"
    BY DEF IsBdunk, BdunkFields, Plain
  <2> HIDE DEF e, p
  <2>3. r.c \in {d, e} /\ r.out \in {<<>>, <<p>>}
    BY <2>1, Written DEF Result
  <2>4. Keeps(d, p, r.c)
    BY <2>2, <2>3 DEF Keeps, Names, ToBchip
  <2>5. QED
    BY <2>3, <2>4
<1>4. CASE d.op = "info"
  BY <1>4, SendInfoNames DEF logic
<1>5. CASE d.op = "get"
  <2> DEFINE e == [d EXCEPT !.idx = d.idx + Packet]
             p == Data(extract(d))
  <2>1. r = IF Extractable(d) THEN Write(e, p) ELSE Result(t, <<>>)
    BY <1>5 DEF logic, Trapped, t
  <2>2. e.id = d.id /\ e.file = d.file /\ e.what = d.what /\ p.op = "data" /\ p.bytes = extract(d)
    BY DEF IsBdunk, BdunkFields, Data
  <2> HIDE DEF e, p
  <2>3. CASE Extractable(d)
    <3>1. r.c = e /\ r.out \in {<<>>, <<p>>}
      BY <2>1, <2>3, Written
    <3>2. Keeps(d, p, r.c)
      BY <1>5, <2>2, <2>3, <3>1 DEF Keeps, Names, ToBchip
    <3>3. QED
      BY <3>1, <3>2
  <2>4. CASE ~Extractable(d)
    <3>1. r.c = t /\ r.out = <<>>
      BY <2>1, <2>4 DEF Result
    <3>2. Keeps(d, empty, r.c)
      BY <1>1, <1>2, <3>1 DEF Keeps, Names, ToBchip
    <3>3. QED
      BY <3>1, <3>2
  <2>5. QED
    BY <2>3, <2>4
<1>6. CASE d.op = "success"
  <2> DEFINE e == [d EXCEPT !.idx = 0, !.what = "52", !.op = "self", !.file = "52"]
             f == [d EXCEPT !.idx = 0, !.auto = FALSE]
  <2>1. r = IF d.what = "both" THEN Write(e, Plain("self")) ELSE Write(f, Plain("done"))
    BY <1>6 DEF logic, on_success, Loaded, IsBdunk, BdunkFields
  <2>2. /\ e.id = d.id /\ e.file = "52" /\ e.what = "52"
        /\ f.id = d.id /\ f.file = d.file /\ f.what = d.what
    BY DEF IsBdunk, BdunkFields
  <2> HIDE DEF e, f
  <2>3. PICK p : p.op \in {"self", "done"} /\ r.c \in {e, f} /\ r.out \in {<<>>, <<p>>}
    BY <2>1, Written DEF Plain
  <2>4. Keeps(d, p, r.c)
    BY <2>2, <2>3 DEF Keeps, Names, ToBchip
  <2>5. QED
    BY <2>3, <2>4
<1>7. CASE d.op = "selfstart"
  <2> DEFINE e == [d EXCEPT !.op = "info"]
  <2>1. r = SendInfo(e)
    BY <1>7 DEF logic
  <2>2. IsBdunk(e) /\ e.id = d.id /\ e.file = d.file /\ e.what = d.what /\ e.op = "info"
    BY DEF IsBdunk, BdunkFields
  <2> HIDE DEF e
  <2>3. PICK p : r.out \in {<<>>, <<p>>} /\ Keeps(e, p, r.c)
    BY <2>1, <2>2, SendInfoNames
  <2>4. Keeps(d, p, r.c)
    BY <2>2, <2>3 DEF Keeps, Names
  <2>5. QED
    BY <2>3, <2>4
<1>8. CASE d.op = "devinf"
  <2> DEFINE loaded == IF d.what \in Chip THEN Loaded(d, d.what)
                       ELSE IF d.loads THEN Loaded(d, "91") ELSE d
             avail == IF d.what = "52" THEN d.rec.avail91 ELSE d.rec.avail52
             e == [loaded EXCEPT !.op = "info"]
  <2>1. r = IF loaded.file = "none" THEN Result(t, <<>>)
            ELSE IF avail < FileSize(loaded) THEN Result(loaded, <<>>)
            ELSE SendInfo(e)
    BY <1>8 DEF logic, pre_logic, Trapped, t
  <2>2. /\ IsBdunk(loaded) /\ loaded.id = d.id /\ loaded.what = d.what
        /\ loaded.file \in {d.file} \cup (IF d.what \in Chip THEN {d.what} ELSE {"91"})
    BY DEF Loaded, IsBdunk, BdunkFields, Chip
  <2>3. Names(d) => Names(loaded)
    BY <2>2 DEF Names, IsBdunk, What, Chip
  <2> HIDE DEF loaded, avail
  <2>4. IsBdunk(e) /\ e.id = d.id /\ e.file = loaded.file /\ e.what = loaded.what /\ e.op = "info"
    BY <2>2 DEF IsBdunk, BdunkFields
  <2> HIDE DEF e
  <2>5. CASE r = SendInfo(e)
    <3>1. PICK p : r.out \in {<<>>, <<p>>} /\ Keeps(e, p, r.c)
      BY <2>4, <2>5, SendInfoNames
    <3>2. Keeps(d, p, r.c)
      BY <2>3, <2>4, <3>1 DEF Keeps, Names
    <3>3. QED
      BY <3>1, <3>2
  <2>6. CASE r \in {Result(t, <<>>), Result(loaded, <<>>)}
    <3>1. r.c \in {t, loaded} /\ r.out = <<>>
      BY <2>6 DEF Result
    <3>2. Keeps(d, empty, r.c)
      BY <1>1, <1>2, <2>2, <2>3, <3>1 DEF Keeps, Names, ToBchip
    <3>3. QED
      BY <3>1, <3>2
  <2>7. QED
    BY <2>1, <2>5, <2>6
<1>9. CASE d.op \notin {"start", "info", "get", "success", "selfstart", "devinf"}
  <2>1. r = Write(d, empty)
    BY <1>9 DEF logic, empty
  <2>2. r.c = d /\ r.out \in {<<>>, <<empty>>}
    BY <2>1, Written
  <2>3. Keeps(d, empty, r.c)
    BY <1>2, <2>2 DEF Keeps, ToBchip
  <2>4. QED
    BY <2>2, <2>3
<1>10. QED
  BY <1>3, <1>4, <1>5, <1>6, <1>7, <1>8, <1>9

-----------------------------------------------------------------------------
(* The types *)

\* What the chip and the ichip hold.
Statics52 ==
  /\ b.off \in 0..(UInt32 - 1) /\ b.at \in 0..(UInt32 - 1) /\ b.len \in Nat /\ b.type \in Chip
  /\ b.buf \in [1..Block -> Value]

Slots == slot52 \in [Address -> Value] /\ slot91 \in [Address -> Value] /\ put \subseteq Address

\* What is under way.
Packets ==
  \A p \in ToSet(toB) : p.op \in ToBchip /\ (p.op = "data" => p.bytes \in Seq(Value))

Requests == (call # None => call \in Call) /\ slave \in {"none", "devinf", "done"}

Works == phase \in Phase /\ ToSet(wq) \subseteq Work

\* The histories, and the start of BDUNK that its image belongs to.
Flags == flag52 \in BOOLEAN /\ told \in BOOLEAN /\ heard \in BOOLEAN

Counters == starts \in 0..MaxStarts /\ faults \in 0..MaxFaults /\ c.id \in 0..MaxStarts

Kinds == Statics52 /\ Slots /\ Packets /\ Requests /\ Works /\ Flags /\ Counters

\* No stale op code is taken for another, so a step of the Bluetooth thread is one of
\* these.
LEMMA ThreadSteps ==
  ASSUME Timely, BluetoothThread
  PROVE  RxStart \/ RxInfo \/ RxSelf \/ RxDone \/ RxData \/ RxEmpty
BY DEF Timely, RxStale, Strike, BluetoothThread

\* What the steps that write no byte do to the flags.
LEMMA FlagsTyped ==
  ASSUME Timely, CallTyped, Flags, [Next]_vars
  PROVE  Flags'
<1> USE DEF Flags
<1>1. CASE BluetoothThread
  <2>1. CASE RxStart \/ RxSelf \/ RxDone \/ RxData \/ RxEmpty
    BY <2>1 DEF RxStart, RxSelf, RxDone, RxData, RxEmpty, flash, history
  <2>2. CASE RxInfo
    BY <2>2 DEF RxInfo
  <2>3. QED
    BY <1>1, <2>1, <2>2, ThreadSteps
<1>2. CASE WorkQueue
  <2>1. CASE wk_self_info_handler \/ update_bluetooth_params \/ CutEnds \/ wk_proc_req_handler
    BY <2>1 DEF wk_self_info_handler, update_bluetooth_params, CutEnds, wk_proc_req_handler,
                flash, history
  <2>2. CASE wk_self_update_handler
    BY <2>2 DEF wk_self_update_handler
  <2>3. CASE wk_update_mcuboot_flag_handler
    BY <2>3 DEF wk_update_mcuboot_flag_handler, history
  <2>4. CASE wk_proc_rsp_handler
    BY <2>4 DEF wk_proc_rsp_handler, rsp_cb_flash_erase, rsp_cb_flash_write, rsp_cb_flash_done,
                rsp_dev_fwinfo91, flash
  <2>5. QED
    BY <1>2, <2>1, <2>2, <2>3, <2>4 DEF WorkQueue
<1>3. CASE Responded \/ TxAborted
  BY <1>3 DEF Responded, TxAborted, flash, history
<1>4. CASE Ichip
  BY <1>4 DEF Ichip, req_dev_fwinfo92, req_cb_flash_erase, req_cb_flash_write, req_cb_flash_done,
              Answer
<1>5. CASE tmr_rsp_timeout_handler
  <2>1. call.op \in RequestOp
    BY <1>5 DEF tmr_rsp_timeout_handler, CallTyped
  <2>2. QED
    BY <1>5, <2>1 DEF tmr_rsp_timeout_handler, flash, RequestOp
<1>6. CASE Central
  BY <1>6 DEF Central, Launch, Connect, didUpdateValueFor, Quit, BdunkDoes, flash, history
<1>7. CASE LinkDrops \/ Reboot \/ Boot
  BY <1>7 DEF LinkDrops, Reboot, Boot, flash, history
<1>8. CASE \E op \in {"devinf", "done"} : IchipAsks(op)
  BY <1>8 DEF IchipAsks
<1>9. CASE UNCHANGED vars
  BY <1>9 DEF vars, flash, history
<1>10. QED
  BY <1>1, <1>2, <1>3, <1>4, <1>5, <1>6, <1>7, <1>8, <1>9 DEF Next


\* A packet is counted as lost, a request as refused, one fault each.
LEMMA FaultsTyped ==
  ASSUME faults \in 0..MaxFaults
  PROVE  /\ \A kind : Strike(kind) => faults' \in 0..MaxFaults
         /\ \A p : Notify(p) => faults' \in 0..MaxFaults
         /\ \A r : app_cmd_request(r) => faults' \in 0..MaxFaults
BY BoundAssumption DEF Strike, Notify, app_cmd_request

LEMMA CountersTyped ==
  ASSUME Timely, Inv, Counters, [Next]_vars
  PROVE  Counters'
<1> USE DEF Counters
<1>0. /\ \A kind : Strike(kind) => faults' \in 0..MaxFaults
      /\ \A p : Notify(p) => faults' \in 0..MaxFaults
      /\ \A r : app_cmd_request(r) => faults' \in 0..MaxFaults
  BY FaultsTyped
<1>1. CASE BluetoothThread
  <2>1. CASE RxStart
    BY <1>0, <2>1 DEF RxStart, Rx, retrieve_dev_info, history
  <2>2. CASE RxInfo
    BY <1>0, <2>2 DEF RxInfo, Rx, cmd_request_flash_erase
  <2>3. CASE RxSelf \/ RxDone \/ RxEmpty
    BY <1>0, <2>3 DEF RxSelf, RxDone, RxEmpty, Rx, history
  <2>4. CASE RxData
    BY <1>0, <2>4 DEF RxData, Rx, HandOver, cmd_request_flash_write, history
  <2>5. QED
    BY <1>1, <2>1, <2>2, <2>3, <2>4, ThreadSteps
<1>2. CASE WorkQueue
  <2>1. CASE wk_self_info_handler \/ update_bluetooth_params \/ CutEnds \/ wk_proc_req_handler
    BY <1>0, <2>1 DEF wk_self_info_handler, update_bluetooth_params, CutEnds, wk_proc_req_handler,
                      Wk, history
  <2>2. CASE wk_self_update_handler
    BY <1>0, <2>2 DEF wk_self_update_handler, Wk
  <2>3. CASE wk_update_mcuboot_flag_handler
    BY <1>0, <2>3 DEF wk_update_mcuboot_flag_handler, Wk, history
  <2>4. CASE wk_proc_rsp_handler
    BY <1>0, <2>4 DEF wk_proc_rsp_handler, rsp_cb_flash_erase, rsp_cb_flash_write,
                      rsp_cb_flash_done, rsp_dev_fwinfo91, Wk
  <2>5. QED
    BY <1>2, <2>1, <2>2, <2>3, <2>4 DEF WorkQueue
<1>3. CASE Responded \/ TxAborted
  BY <1>0, <1>3 DEF Responded, TxAborted, link, history
<1>4. CASE Ichip
  BY <1>0, <1>4 DEF Ichip, req_dev_fwinfo92, req_cb_flash_erase, req_cb_flash_write,
                    req_cb_flash_done, Answer, link
<1>5. CASE tmr_rsp_timeout_handler
  BY <1>0, <1>5 DEF tmr_rsp_timeout_handler
<1>6. CASE Central
  <2>1. ASSUME NEW what, NEW n52, NEW n91, NEW loads, Launch(what, n52, n91, loads)
        PROVE  Counters'
    <3>1. starts' = starts + 1 /\ starts < MaxStarts /\ faults' = faults
      BY <2>1 DEF Launch
    <3>2. c'.id = starts + 1
      BY <2>1 DEF Launch, Launched
    <3>3. QED
      BY <3>1, <3>2, BoundAssumption
  <2>2. CASE Quit
    <3>1. c'.id = 0 /\ starts' = starts /\ faults' \in 0..MaxFaults
      BY <1>0, <2>2 DEF Quit, Off, Launched, history
    <3>2. QED
      BY <3>1, BoundAssumption
  <2>3. ASSUME NEW yes \in BOOLEAN, Connect(yes)
        PROVE  Counters'
    <3>1. c'.id = c.id
      BY <2>3, LogicNames DEF Connect, BdunkDoes, Inv, Typed, Keeps
    <3>2. QED
      BY <2>3, <3>1 DEF Connect, BdunkDoes, history
  <2>4. CASE didUpdateValueFor
    <3> DEFINE n == Head(toC)
               d == [c EXCEPT !.op = n.op, !.rec = IF n.op = "devinf" THEN n ELSE c.rec]
    <3>1. c' = logic(d, TRUE).c
      BY <2>4 DEF didUpdateValueFor, Notified, BdunkDoes
    <3>2. IsBdunk(d) /\ d.id = c.id
      BY DEF Inv, Typed, IsBdunk, BdunkFields
    <3> HIDE DEF d
    <3>3. c'.id = c.id
      BY <3>1, <3>2, LogicNames DEF Keeps
    <3>4. QED
      BY <2>4, <3>3 DEF didUpdateValueFor, BdunkDoes, history
  <2>5. QED
    BY <1>6, <2>1, <2>2, <2>3, <2>4 DEF Central
<1>7. CASE LinkDrops
  <2>1. c'.id = c.id
    BY <1>7 DEF LinkDrops, centralManagerDidUpdateState, Inv, Typed, IsBdunk, BdunkFields
  <2>2. QED
    BY <1>0, <1>7, <2>1 DEF LinkDrops, history
<1>8. CASE Reboot \/ Boot
  BY <1>8 DEF Reboot, Boot, link, history
<1>9. CASE \E op \in {"devinf", "done"} : IchipAsks(op)
  BY <1>9 DEF IchipAsks, link
<1>10. CASE UNCHANGED vars
  BY <1>10 DEF vars, link, history
<1>11. QED
  BY <1>1, <1>2, <1>3, <1>4, <1>5, <1>6, <1>7, <1>8, <1>9, <1>10 DEF Next


\* The bytes that are collected and those that are written are values.
LEMMA BytesTyped ==
  ASSUME NEW buf \in [1..Block -> Value], NEW n \in Nat
  PROVE  Bytes(buf, n) \in Seq(Value) /\ Len(Bytes(buf, n)) = n
<1>1. Bytes(buf, n) \in [1..n -> Value]
  BY BlockAssumption DEF Bytes, Value
<1>2. Bytes(buf, n) \in Seq(Value)
  BY <1>1, SeqDef
<1>3. QED
  BY <1>2, BytesLength

LEMMA CollectedTyped ==
  ASSUME b.buf \in [1..Block -> Value], b.bufLen \in Nat, NEW bytes \in Seq(Value)
  PROVE  Collected(bytes) \in [1..Block -> Value]
<1>1. Len(bytes) \in Nat /\ Block \in Nat
  BY BlockAssumption
<1>2. \A i \in 1..Block : i \in (b.bufLen + 1)..(b.bufLen + Len(bytes)) => bytes[i - b.bufLen] \in Value
  BY <1>1
<1>3. QED
  BY <1>2 DEF Collected

\* What extract takes of a file are its bytes.
LEMMA ExtractTyped ==
  ASSUME NEW d, IsBdunk(d), HasSizes(d), d.status # "off", d.id \in 0..MaxStarts, Extractable(d)
  PROVE  extract(d) \in Seq(Value)
<1> DEFINE size == FileSize(d)
           end == IF size - d.idx >= Packet THEN d.idx + Packet ELSE size
<1>1. d.file \in Chip /\ size \in Nat /\ size <= SlotLen /\ d.idx \in Nat /\ d.idx <= size
  BY BlockAssumption, ImageAssumption DEF Extractable, FileSize, IsBdunk, HasSizes, Chip
<1>2. end \in Nat /\ end <= size /\ d.idx <= end
  BY <1>1, PacketAssumption
<1>3. extract(d) = [i \in 1..(end - d.idx) |-> <<d.id, d.file, d.idx + i - 1>>]
  BY DEF extract
<1> HIDE DEF end, size
<1>4. \A i \in 1..(end - d.idx) : d.idx + i - 1 \in 0..(SlotLen - 1)
  BY <1>1, <1>2, FlashAssumption
<1>5. extract(d) \in [1..(end - d.idx) -> Value]
  BY <1>1, <1>3, <1>4 DEF Value, Byte
<1>6. end - d.idx \in Nat
  BY <1>1, <1>2
<1>7. QED
  BY <1>5, <1>6, SeqDef

\* The number of pages is no larger than that of bytes.
LEMMA PagesTyped ==
  ASSUME NEW size \in Nat \ {0}, size <= SlotLen
  PROVE  CeilDiv(size, Page) \in 0..(UInt32 - 1)
<1>1. /\ Page \in Nat \ {0} /\ SlotLen \in Nat /\ UInt32 \in Nat
      /\ UInt32 > SlotLen + Block /\ Block \in Nat
  BY FlashAssumption, BlockAssumption
<1>2. PICK m \in Nat : m = size + Page - 1
  BY <1>1
<1>3. PICK q \in Nat : q = m \div Page /\ q * Page <= m
  BY <1>1, <1>2
<1>4. q <= size
  <2> SUFFICES ASSUME q >= size + 1 PROVE FALSE
    BY <1>3
  <2>1. q * Page >= (size + 1) * Page
    BY <1>1, <1>3
  <2>2. (size + 1) * Page = size * Page + Page /\ size * Page >= size
    BY <1>1
  <2>3. QED
    BY <1>1, <1>2, <1>3, <2>1, <2>2
<1>5. CeilDiv(size, Page) = q
  BY <1>2, <1>3 DEF CeilDiv
<1>6. QED
  BY <1>1, <1>3, <1>4, <1>5

\* A packet of the Bluetooth thread is one that BDUNK sent.
LEMMA PacketTyped ==
  ASSUME Inv, Packets, NEW op, op # "empty", Rx(op)
  PROVE  /\ op = "data" => Head(toB).bytes \in Seq(Value)
         /\ op = "info" => Head(toB).size \in Sizes
<1>1. /\ Head(toB) \in ToSet(toB) /\ Head(toB).op = op /\ PacketOk(Head(toB)) /\ conn
  BY PacketTaken DEF Rx
<1>2. op = "data" => Head(toB).bytes \in Seq(Value)
  BY <1>1 DEF Packets
<1>3. op = "info" => Head(toB).size = FileSize(c) /\ c.file # "none"
  BY <1>1 DEF PacketOk
<1>4. op = "info" => Head(toB).size \in Sizes
  BY <1>1, <1>3 DEF Inv, Typed, IsBdunk, Linked, Knows, HasSizes, FileSize, Chip
<1>5. QED
  BY <1>2, <1>4

\* A block that is complete.
LEMMA BlockDoneTyped ==
  ASSUME Inv, Statics52, Packets, RxData
  PROVE  /\ Collected(Head(toB).bytes) \in [1..Block -> Value]
         /\ b.bufLen + Len(Head(toB).bytes) \in Nat
<1>1. Rx("data")
  BY DEF RxData
<1>2. Head(toB).bytes \in Seq(Value)
  BY <1>1, PacketTyped
<1>3. b.bufLen \in Nat
  BY DEF Inv, Typed
<1>4. QED
  BY <1>2, <1>3, CollectedTyped DEF Statics52

\* The statics keep their types.
LEMMA StaticsTyped ==
  ASSUME Timely, Inv, Statics52, Packets, [Next]_vars
  PROVE  Statics52'
<1> USE DEF Statics52, ChipFields
<1>0. 0 \in 0..(UInt32 - 1) /\ UInt32 \in Nat \ {0} /\ DOMAIN b = ChipFields /\ {"52", "91"} = Chip
  BY BlockAssumption, FlashAssumption DEF Inv, Typed, Chip
<1>1. CASE BluetoothThread
  <2>1. CASE RxStart
    BY <1>0, <2>1 DEF RxStart, retrieve_dev_info
  <2>2. CASE RxInfo
    BY <1>0, <2>2 DEF RxInfo, Expecting
  <2>3. CASE RxSelf \/ RxDone
    BY <1>0, <2>3 DEF RxSelf, RxDone, Cleared
  <2>4. CASE RxData
    <3> DEFINE buf == Collected(Head(toB).bytes)
               n == b.bufLen + Len(Head(toB).bytes)
    <3>1. buf \in [1..Block -> Value] /\ n \in Nat
      BY <2>4, BlockDoneTyped
    <3>2. b' = BlockDone(buf, n) \/ b' = [b EXCEPT !.buf = buf, !.bufLen = n]
      BY <2>4 DEF RxData
    <3> HIDE DEF buf, n
    <3>3. (b.off + n) % UInt32 \in 0..(UInt32 - 1)
      BY <1>0, <3>1
    <3>4. QED
      BY <1>0, <3>1, <3>2, <3>3 DEF BlockDone
  <2>5. CASE RxEmpty
    BY <2>5 DEF RxEmpty
  <2>6. QED
    BY <1>1, <2>1, <2>2, <2>3, <2>4, <2>5, ThreadSteps
<1>2. CASE WorkQueue
  <2>1. CASE wk_self_info_handler \/ update_bluetooth_params \/ CutEnds \/ wk_update_mcuboot_flag_handler
    BY <2>1 DEF wk_self_info_handler, update_bluetooth_params, CutEnds, wk_update_mcuboot_flag_handler
  <2>2. CASE wk_self_update_handler
    BY <1>0, <2>2 DEF wk_self_update_handler, dfu_file_ready
  <2>3. CASE wk_proc_req_handler
    BY <1>0, <2>3 DEF wk_proc_req_handler, dfu_file_ready
  <2>4. CASE wk_proc_rsp_handler
    BY <1>0, <2>4 DEF wk_proc_rsp_handler, rsp_cb_flash_erase, rsp_cb_flash_write,
                      rsp_cb_flash_done, rsp_dev_fwinfo91
  <2>5. QED
    BY <1>2, <2>1, <2>2, <2>3, <2>4 DEF WorkQueue
<1>3. CASE Responded \/ TxAborted
  BY <1>3 DEF Responded, TxAborted, chip
<1>4. CASE Ichip
  BY <1>4 DEF Ichip, req_dev_fwinfo92, req_cb_flash_erase, req_cb_flash_write, req_cb_flash_done,
              Answer, chip
<1>5. CASE tmr_rsp_timeout_handler
  <2>1. call.op \in RequestOp
    BY <1>5 DEF tmr_rsp_timeout_handler, Inv, Typed, CallTyped
  <2>2. QED
    BY <1>0, <1>5, <2>1 DEF tmr_rsp_timeout_handler, RequestOp
<1>6. CASE Central
  BY <1>6 DEF Central, Launch, Connect, didUpdateValueFor, Quit, BdunkDoes, chip
<1>7. CASE LinkDrops \/ Boot
  BY <1>7 DEF LinkDrops, Boot, chip
<1>8. CASE Reboot
  BY <1>0, <1>8 DEF Reboot, Statics, Value
<1>9. CASE \E op \in {"devinf", "done"} : IchipAsks(op)
  BY <1>9 DEF IchipAsks
<1>10. CASE UNCHANGED vars
  BY <1>10 DEF vars, chip
<1>11. QED
  BY <1>1, <1>2, <1>3, <1>4, <1>5, <1>6, <1>7, <1>8, <1>9, <1>10 DEF Next

\* So do the slots: only bytes of images are programmed, within them.
LEMMA SlotsTyped ==
  ASSUME Timely, Inv, Statics52, Requests, Slots, [Next]_vars
  PROVE  Slots'
<1> USE DEF Slots
<1>0. /\ Mixed \in Value /\ Blank \in Value
      /\ OtherImage \in [Address -> Value]
  BY BoundAssumption DEF Value, OtherImage, Byte, Chip, Address
<1>1. CASE BluetoothThread
  <2>1. CASE RxStart \/ RxSelf \/ RxDone \/ RxData \/ RxEmpty
    BY <2>1 DEF RxStart, RxSelf, RxDone, RxData, RxEmpty, flash, history
  <2>2. CASE RxInfo
    BY <2>2 DEF RxInfo
  <2>3. QED
    BY <1>1, <2>1, <2>2, ThreadSteps
<1>2. CASE WorkQueue
  <2>1. CASE wk_self_info_handler \/ update_bluetooth_params \/ CutEnds \/ wk_proc_req_handler
             \/ wk_update_mcuboot_flag_handler \/ wk_proc_rsp_handler
    BY <2>1 DEF wk_self_info_handler, update_bluetooth_params, CutEnds, wk_proc_req_handler,
                wk_update_mcuboot_flag_handler, wk_proc_rsp_handler, flash, history
  <2>2. CASE wk_self_update_handler
    <3> DEFINE data == Bytes(b.buf, b.len)
               r == app_flash_write(slot52, b.at, data)
    <3>1. data \in Seq(Value) /\ Len(data) = b.len /\ b.at \in Nat
      BY BytesTyped DEF Statics52
    <3> HIDE DEF data
    <3>2. r.slot \in [Address -> Value] /\ (r.ok => Span(b.at, b.len) \subseteq Address)
      BY <1>0, <3>1, WriteTyped
    <3>3. \/ r.ok /\ slot52' = r.slot /\ put' = put \cup Span(b.at, b.len) /\ slot91' = slot91
          \/ UNCHANGED <<slot52, put, slot91>>
      BY <2>2 DEF wk_self_update_handler, data
    <3>4. QED
      BY <3>2, <3>3
  <2>3. QED
    BY <1>2, <2>1, <2>2 DEF WorkQueue
<1>3. CASE Responded \/ TxAborted
  BY <1>3 DEF Responded, TxAborted, flash, history
<1>4. CASE Ichip
  <2>1. CASE req_dev_fwinfo92 \/ req_cb_flash_done
    BY <2>1 DEF req_dev_fwinfo92, req_cb_flash_done, Answer
  <2>2. CASE req_cb_flash_erase
    <3>1. app_flash_erase_page(slot91, 0, call.at).slot \in [Address -> Value]
      BY <1>0, EraseTyped
    <3>2. QED
      BY <2>2, <3>1 DEF req_cb_flash_erase, Answer
  <2>3. CASE req_cb_flash_write
    <3> DEFINE r == app_flash_write(slot91, call.at, call.bytes)
    <3>1. call.bytes \in Seq(Value) /\ call.at \in Nat
      BY <2>3 DEF req_cb_flash_write, Answer, Unanswered, Requests, Call, Value
    <3>2. r.slot \in [Address -> Value] /\ (r.ok => Span(call.at, Len(call.bytes)) \subseteq Address)
      BY <1>0, <3>1, WriteTyped
    <3>3. /\ slot91' \in {r.slot, slot91} /\ slot52' = slot52
          /\ put' = put \/ (r.ok /\ put' = put \cup Span(call.at, Len(call.bytes)))
      BY <2>3 DEF req_cb_flash_write, Answer
    <3>4. QED
      BY <3>2, <3>3
  <2>4. QED
    BY <1>4, <2>1, <2>2, <2>3 DEF Ichip
<1>5. CASE tmr_rsp_timeout_handler
  BY <1>5 DEF tmr_rsp_timeout_handler, flash
<1>6. CASE Central
  BY <1>6 DEF Central, Launch, Connect, didUpdateValueFor, Quit, BdunkDoes, flash, history
<1>7. CASE LinkDrops \/ Boot
  BY <1>7 DEF LinkDrops, Boot, flash, history
<1>8. CASE Reboot
  BY <1>0, <1>8 DEF Reboot
<1>9. CASE \E op \in {"devinf", "done"} : IchipAsks(op)
  BY <1>0, <1>9 DEF IchipAsks
<1>10. CASE UNCHANGED vars
  BY <1>10 DEF vars, flash, history
<1>11. QED
  BY <1>1, <1>2, <1>3, <1>4, <1>5, <1>6, <1>7, <1>8, <1>9, <1>10 DEF Next

\* BDUNK adds a packet, whose bytes are those of its image.
LEMMA PacketsAdded ==
  ASSUME Inv, Packets, NEW d, IsBdunk(d), HasSizes(d), d.status # "off", d.id \in 0..MaxStarts,
         NEW yes \in BOOLEAN, BdunkDoes(logic(d, yes))
  PROVE  Packets'
<1> DEFINE r == logic(d, yes)
<1>1. PICK p : r.out \in {<<>>, <<p>>} /\ Keeps(d, p, r.c)
  BY LogicNames
<1>2. p.op = "data" => p.bytes \in Seq(Value)
  BY <1>1, ExtractTyped DEF Keeps
<1>3. p.op \in ToBchip
  BY <1>1 DEF Keeps
<1> HIDE DEF r
<1>4. toB' = <<>> \/ toB' = toB \o r.out
  BY DEF BdunkDoes, disconnected, r
<1>5. CASE toB' = <<>>
  BY <1>5, NothingIn DEF Packets
<1>6. CASE toB' = toB \o r.out
  <2>1. Queue(toB)
    BY DEF Inv, Typed
  <2>2. CASE r.out = <<>>
    BY <1>6, <2>1, <2>2 DEF Packets, Queue
  <2>3. CASE r.out = <<p>>
    <3>1. toB' = Append(toB, p)
      BY <1>6, <2>1, <2>3 DEF Queue
    <3>2. ToSet(toB') = ToSet(toB) \cup {p}
      BY <2>1, <3>1, Added
    <3>3. QED
      BY <1>2, <1>3, <3>2 DEF Packets
  <2>4. QED
    BY <1>1, <2>2, <2>3
<1>7. QED
  BY <1>4, <1>5, <1>6

LEMMA PacketsTyped ==
  ASSUME Timely, Inv, Counters, Packets, [Next]_vars
  PROVE  Packets'
<1>1. CASE toB' = toB \/ toB' = <<>>
  BY <1>1, NothingIn DEF Packets
<1>2. CASE toB # <<>> /\ toB' = Tail(toB)
  <2>1. ToSet(toB') \subseteq ToSet(toB)
    BY <1>2, TakenOff DEF Inv, Typed
  <2>2. QED
    BY <2>1 DEF Packets
<1>3. CASE \E yes \in BOOLEAN : Connect(yes)
  <2>1. PICK yes \in BOOLEAN : Connect(yes)
    BY <1>3
  <2>2. BdunkDoes(logic(c, yes)) /\ c.status = "on"
    BY <2>1 DEF Connect
  <2>3. IsBdunk(c) /\ HasSizes(c) /\ c.status # "off" /\ c.id \in 0..MaxStarts
    BY <2>2 DEF Inv, Typed, Knows, Counters
  <2>4. QED
    BY <2>2, <2>3, PacketsAdded
<1>4. CASE didUpdateValueFor
  <2> DEFINE n == Head(toC)
             d == [c EXCEPT !.op = n.op, !.rec = IF n.op = "devinf" THEN n ELSE c.rec]
  <2>1. BdunkDoes(logic(d, TRUE)) /\ toC # <<>>
    BY <1>4 DEF didUpdateValueFor, Notified
  <2>2. c.status = "on"
    BY <2>1 DEF Inv, Linked
  <2>3. /\ IsBdunk(d) /\ d.id = c.id /\ d.status = c.status
        /\ d.what = c.what /\ d.file = c.file /\ d.size52 = c.size52 /\ d.size91 = c.size91
    BY DEF Inv, Typed, IsBdunk, BdunkFields
  <2> HIDE DEF d
  <2>4. HasSizes(d) /\ d.status # "off" /\ d.id \in 0..MaxStarts
    BY <2>2, <2>3 DEF Inv, Knows, HasSizes, Counters
  <2>5. QED
    BY <2>1, <2>3, <2>4, PacketsAdded
<1>5. CASE BluetoothThread
  <2>1. toB # <<>> /\ toB' = Tail(toB)
    BY <1>5 DEF BluetoothThread, RxStart, RxInfo, RxSelf, RxDone, RxData, RxEmpty, RxStale, Rx
  <2>2. QED
    BY <1>2, <2>1
<1>6. CASE WorkQueue \/ Responded \/ Ichip \/ TxAborted
  <2>1. toB' = toB \/ toB' = <<>>
    BY <1>6 DEF WorkQueue, wk_self_info_handler, wk_self_update_handler,
       wk_update_mcuboot_flag_handler, wk_proc_rsp_handler, wk_proc_req_handler, CutEnds,
       update_bluetooth_params, Wk, disconnected, Responded, Ichip, req_dev_fwinfo92,
       req_cb_flash_erase, req_cb_flash_write, req_cb_flash_done, Answer, TxAborted, link
  <2>2. QED
    BY <1>1, <2>1
<1>7. CASE Central
  <2>1. CASE Quit \/ \E what \in What, n52 \in Sizes \cup {0}, n91 \in Sizes \cup {0}, loads \in BOOLEAN :
                       Launch(what, n52, n91, loads)
    BY <1>1, <2>1 DEF Quit, Launch, disconnected
  <2>2. QED
    BY <1>3, <1>4, <1>7, <2>1 DEF Central
<1>8. CASE tmr_rsp_timeout_handler \/ LinkDrops \/ Reboot \/ Boot \/ UNCHANGED vars
  BY <1>1, <1>8 DEF tmr_rsp_timeout_handler, LinkDrops, Reboot, Boot, disconnected, vars, link
<1>9. CASE \E op \in {"devinf", "done"} : IchipAsks(op)
  BY <1>1, <1>9 DEF IchipAsks, link
<1>10. QED
  BY <1>5, <1>6, <1>7, <1>8, <1>9 DEF Next

\* The requests that are made.
LEMMA AskTyped ==
  ASSUME NEW op \in {"devinf", "erase", "write", "done"}, NEW at \in 0..(UInt32 - 1),
         NEW bytes \in Seq(Value)
  PROVE  Ask(op, at, bytes) \in Call
BY DEF Ask, Call, Value

LEMMA RequestsTyped ==
  ASSUME Timely, Inv, Statics52, Packets, Requests, [Next]_vars
  PROVE  Requests'
<1> USE DEF Requests
<1>0. /\ \A op \in RequestOp : Ask(op, 0, <<>>) \in Call
      /\ <<>> \in Seq(Value) /\ 0 \in 0..(UInt32 - 1)
  <2>1. <<>> \in Seq(Value) /\ 0 \in 0..(UInt32 - 1)
    BY BlockAssumption, FlashAssumption
  <2>2. QED
    BY <2>1, AskTyped DEF RequestOp
<1>1. CASE BluetoothThread
  <2>1. CASE RxStart
    BY <1>0, <2>1 DEF RxStart, retrieve_dev_info, app_cmd_request, RequestOp
  <2>2. CASE RxInfo
    <3> DEFINE n == Head(toB).size
    <3>1. n \in Nat \ {0} /\ n <= SlotLen
      BY <2>2, PacketTyped, ImageAssumption, BlockAssumption DEF RxInfo
    <3>2. Ask("erase", CeilDiv(n, Page), <<>>) \in Call
      BY <1>0, <3>1, PagesTyped, AskTyped
    <3>3. QED
      BY <2>2, <3>2 DEF RxInfo, cmd_request_flash_erase, app_cmd_request
  <2>3. CASE RxSelf \/ RxDone \/ RxEmpty
    BY <2>3 DEF RxSelf, RxDone, RxEmpty, simp
  <2>4. CASE RxData
    <3> DEFINE buf == Collected(Head(toB).bytes)
               n == b.bufLen + Len(Head(toB).bytes)
    <3>1. buf \in [1..Block -> Value] /\ n \in Nat
      BY <2>4, BlockDoneTyped
    <3>2. slave' = slave /\ (call' \in {call, Ask("write", b.off, Bytes(buf, n))})
      BY <2>4 DEF RxData, HandOver, cmd_request_flash_write, app_cmd_request
    <3> HIDE DEF buf, n
    <3>3. Ask("write", b.off, Bytes(buf, n)) \in Call
      BY <3>1, BytesTyped, AskTyped DEF Statics52
    <3>4. QED
      BY <3>2, <3>3
  <2>5. QED
    BY <1>1, <2>1, <2>2, <2>3, <2>4, ThreadSteps
<1>2. CASE WorkQueue
  <2>1. CASE wk_self_info_handler \/ update_bluetooth_params \/ CutEnds
             \/ wk_update_mcuboot_flag_handler \/ wk_self_update_handler
    BY <2>1 DEF wk_self_info_handler, update_bluetooth_params, CutEnds,
                wk_update_mcuboot_flag_handler, wk_self_update_handler, simp
  <2>2. CASE wk_proc_req_handler
    BY <2>2 DEF wk_proc_req_handler
  <2>3. CASE wk_proc_rsp_handler
    BY <1>0, <2>3 DEF wk_proc_rsp_handler, rsp_cb_flash_erase, rsp_cb_flash_write,
                      rsp_cb_flash_done, rsp_dev_fwinfo91, RequestOp
  <2>4. QED
    BY <1>2, <2>1, <2>2, <2>3 DEF WorkQueue
<1>3. CASE Responded \/ TxAborted
  BY <1>3 DEF Responded, TxAborted, simp
<1>4. CASE Ichip
  <2>1. PICK op, ok : Answer(op, ok)
    BY <1>4 DEF Ichip, req_dev_fwinfo92, req_cb_flash_erase, req_cb_flash_write, req_cb_flash_done
  <2>2. QED
    BY <2>1 DEF Answer, Unanswered, Call
<1>5. CASE tmr_rsp_timeout_handler \/ LinkDrops \/ Boot \/ Reboot
  BY <1>5 DEF tmr_rsp_timeout_handler, LinkDrops, Boot, Reboot, simp
<1>6. CASE Central
  BY <1>6 DEF Central, Launch, Connect, didUpdateValueFor, Quit, BdunkDoes, simp
<1>7. CASE \E op \in {"devinf", "done"} : IchipAsks(op)
  BY <1>7 DEF IchipAsks
<1>8. CASE UNCHANGED vars
  BY <1>8 DEF vars, simp
<1>9. QED
  BY <1>1, <1>2, <1>3, <1>4, <1>5, <1>6, <1>7, <1>8 DEF Next

\* The work queue has its own work only.
LEMMA WorksTyped ==
  ASSUME Timely, Inv, Works, [Next]_vars
  PROVE  Works'
<1> USE DEF Works
<1>0. /\ \A work \in Work : Submit(work) => ToSet(wq') \subseteq Work
      /\ \A work : Wk(work) /\ wq' = Tail(wq) => ToSet(wq') \subseteq Work
      /\ \A work, next : next \in Work /\ Wk(work) /\ SubmitNext(next) => ToSet(wq') \subseteq Work
  BY Submitted, Ran DEF Inv
<1>1. {"ready", "asking", "waiting", "cutting", "boot", "halted"} = Phase
  BY DEF Phase, Sleeps
<1>2. CASE BluetoothThread
  <2>1. CASE RxStart \/ RxSelf \/ RxDone \/ RxEmpty
    BY <2>1 DEF RxStart, RxSelf, RxDone, RxEmpty, Rx
  <2>2. CASE RxInfo
    BY <1>0, <2>2 DEF RxInfo, Rx, Work
  <2>3. CASE RxData
    BY <1>0, <2>3 DEF RxData, Rx, HandOver, Work
  <2>4. QED
    BY <1>2, <2>1, <2>2, <2>3, ThreadSteps
<1>3. CASE WorkQueue
  <2>1. CASE wk_self_info_handler \/ wk_update_mcuboot_flag_handler
    BY <1>0, <1>1, <2>1 DEF wk_self_info_handler, wk_update_mcuboot_flag_handler, Wk
  <2>2. CASE update_bluetooth_params \/ CutEnds
    BY <1>1, <2>2 DEF update_bluetooth_params, CutEnds
  <2>3. CASE wk_self_update_handler
    BY <1>0, <2>3 DEF wk_self_update_handler, dfu_file_ready, Work
  <2>4. CASE wk_proc_req_handler
    BY <1>0, <2>4 DEF wk_proc_req_handler, dfu_file_ready, Work
  <2>5. CASE wk_proc_rsp_handler
    BY <1>0, <1>1, <2>5 DEF wk_proc_rsp_handler, rsp_cb_flash_erase, rsp_cb_flash_write,
                            rsp_cb_flash_done, rsp_dev_fwinfo91
  <2>6. QED
    BY <1>3, <2>1, <2>2, <2>3, <2>4, <2>5 DEF WorkQueue
<1>4. CASE Responded
  BY <1>0, <1>4 DEF Responded, Work
<1>5. CASE Ichip
  BY <1>5 DEF Ichip, req_dev_fwinfo92, req_cb_flash_erase, req_cb_flash_write, req_cb_flash_done,
              Answer, chip
<1>6. CASE TxAborted \/ LinkDrops \/ UNCHANGED vars
  BY <1>6 DEF TxAborted, LinkDrops, vars, chip
<1>7. CASE tmr_rsp_timeout_handler
  <2>1. call.op \in RequestOp
    BY <1>7 DEF tmr_rsp_timeout_handler, Inv, Typed, CallTyped
  <2>2. QED
    BY <1>1, <1>7, <2>1 DEF tmr_rsp_timeout_handler, RequestOp
<1>8. CASE Central
  BY <1>8 DEF Central, Launch, Connect, didUpdateValueFor, Quit, BdunkDoes, chip
<1>9. CASE Reboot \/ Boot
  BY <1>1, <1>9, NothingIn DEF Reboot, Boot, initalize_dfu_module
<1>10. CASE \E op \in {"devinf", "done"} : IchipAsks(op)
  BY <1>0, <1>10 DEF IchipAsks, Work
<1>11. QED
  BY <1>2, <1>3, <1>4, <1>5, <1>6, <1>7, <1>8, <1>9, <1>10 DEF Next

\* What there is at the start.
LEMMA InitTyped == Init => Kinds
<1> SUFFICES ASSUME Init PROVE Kinds
  OBVIOUS
<1>1. Statics52
  BY BlockAssumption, FlashAssumption DEF Init, Statics, Statics52, Value, Chip
<1>2. Slots
  BY BoundAssumption DEF Init, Slots, OtherImage, Value, Byte, Chip, Address
<1>3. Packets
  BY NothingIn DEF Init, Packets
<1>4. Requests
  BY DEF Init, Requests
<1>5. Works
  BY NothingIn DEF Init, Works, Phase
<1>6. Flags
  BY DEF Init, Flags
<1>7. Counters
  BY BoundAssumption DEF Init, Counters, Off, Launched
<1>8. QED
  BY <1>1, <1>2, <1>3, <1>4, <1>5, <1>6, <1>7 DEF Kinds

LEMMA StepTyped == Timely /\ Inv /\ Kinds /\ [Next]_vars => Kinds'
BY StaticsTyped, SlotsTyped, PacketsTyped, RequestsTyped, WorksTyped, FlagsTyped, CountersTyped
DEF Kinds, Inv, Typed

\* A queue without repetition is not longer than what there is to do.
LEMMA QueueBounded ==
  ASSUME Inv, Works
  PROVE  Len(wq) <= Cardinality(Work)
<1>1. Queue(wq) /\ IsInjective(wq) /\ ToSet(wq) \subseteq Work
  BY DEF Inv, Typed, Works
<1>2. Len(wq) \in Nat /\ wq \in [1..Len(wq) -> Work]
  BY <1>1 DEF Queue, ToSet
<1>3. IsFiniteSet(Work) /\ Cardinality(Work) \in Nat
  <2>1. IsFiniteSet({}) /\ \A S, x : IsFiniteSet(S) => IsFiniteSet(S \cup {x})
    BY FS_EmptySet, FS_AddElement
  <2>2. Work = (((({} \cup {"info"}) \cup {"update"}) \cup {"flag"}) \cup {"rsp"}) \cup {"req"}
    BY DEF Work
  <2>3. IsFiniteSet(Work)
    BY <2>1, <2>2
  <2>4. QED
    BY <2>3, FS_CardinalityType
<1>4. IsFiniteSet(1..Len(wq)) /\ Cardinality(1..Len(wq)) = Len(wq)
  BY <1>2, FS_Interval
<1>5. SUFFICES ASSUME Cardinality(Work) < Cardinality(1..Len(wq)) PROVE FALSE
  BY <1>2, <1>3, <1>4
<1>6. \E i, j \in 1..Len(wq) : i # j /\ wq[i] = wq[j]
  BY <1>2, <1>3, <1>4, <1>5, FS_PigeonHole
<1>7. QED
  BY <1>1, <1>2, <1>6 DEF IsInjective

LEMMA AllTyped == Inv /\ Kinds => TypeOK
<1> SUFFICES ASSUME Inv, Kinds PROVE TypeOK
  OBVIOUS
<1>1. conn \in BOOLEAN /\ phase \in Phase /\ ToSet(wq) \subseteq Work /\ Len(wq) <= Cardinality(Work)
  BY QueueBounded DEF Kinds, Works, Inv, Linked
<1>2. call \in Call \cup {None} /\ slave \in {"none", "devinf", "done"}
  BY DEF Kinds, Requests
<1>3. \A i \in DOMAIN toC : toC[i].op \in ToCentral
  BY DEF Inv, Turn, InStep, NoticeOk, ToSet
<1>4. \A i \in DOMAIN toB : toB[i].op \in ToBchip
  BY DEF Kinds, Packets, ToSet
<1>5. b.bufLen \in 0..Block
  BY BlockAssumption DEF Inv, Typed, WholePackets
<1>6. QED
  BY <1>1, <1>2, <1>3, <1>4, <1>5 DEF TypeOK, Kinds, Statics52, Slots, Flags, Counters, Value

LEMMA TypesHold == Timely => (Spec => []Inv /\ []Kinds)
<1> SUFFICES ASSUME Timely PROVE Spec => []Inv /\ []Kinds
  OBVIOUS
<1>1. Init => Inv /\ Kinds
  BY InitSafe, InitTyped
<1>2. Inv /\ Kinds /\ [Next]_vars => Inv' /\ Kinds'
  BY StepSafe, StepTyped
<1>3. QED
  BY <1>1, <1>2, PTL DEF Spec

\* Every variable has its type: among them the offsets of RxData, which are computed
\* modulo 2^32 and never leave the image, the pages that are to be erased, the bytes of a
\* packet, which extract never takes from behind the file, and the work queue, which
\* k_work_submit never fills with an item twice.
THEOREM TypeCorrect == Timely => (Spec => []TypeOK)
<1> SUFFICES ASSUME Timely PROVE Spec => []TypeOK
  OBVIOUS
<1>1. Inv /\ Kinds => TypeOK
  BY AllTyped
<1>2. Spec => []Inv /\ []Kinds
  BY TypesHold
<1>3. QED
  BY <1>1, <1>2, PTL

-----------------------------------------------------------------------------
(* Where the bytes are *)

\* The byte of the image at address a.
Img(a) == <<job.id, job.chip, a>>

\* n bytes are those of the image from address at on.
Holds(bytes, at, n) == \A i \in 1..n : bytes[i] = Img(at + i - 1)

\* What is programmed now reads as it was sent: the slot of the ichip is erased for each
\* image, that of the bchip had to be blank.
Sound == job.chip = "91" \/ job.blank
Room(slot, at) == Sound => \A a \in at..(job.size - 1) : slot[a] = Blank

\* BDUNK sends the image that the bchip expects.
SameFile == job.id = c.id /\ (job.chip = "52" <=> c.what = "52")

\* A request to erase the slot of the ichip has not been granted yet.
Erasing == call # None /\ call.op = "erase"
Erased == Erasing => call.answer = "ok"

Announces == \A p \in ToSet(toB) : p.op = "info" => p.id = c.id

Fresh == Erasing => put = {}

\* While bytes are asked for the block holds those before them, and there is room.
Streams ==
  Streaming =>
    /\ SameFile /\ Holds(b.buf, b.off, b.bufLen)
    /\ job.chip = "52" => Room(slot52, b.off)
    /\ job.chip = "91" /\ Erased => Room(slot91, b.off)
    /\ Erasing => call.at = CeilDiv(job.size, Page)

Carried == \A p \in ToSet(toB) : p.op = "data" => Holds(p.bytes, Pos, Len(p.bytes))

OwnReady ==
  Has("update") =>
    Holds(b.buf, b.at, b.len) /\ Room(slot52, b.at) /\ (conn => job.id = c.id)

PeerReady ==
  Writing =>
    /\ Holds(call.bytes, call.at, Len(call.bytes))
    /\ Room(slot91, IF Unanswered THEN call.at ELSE b.off)
    /\ conn => job.id = c.id /\ c.what # "52"

Images ==
  /\ Names(c) /\ Announces /\ Fresh /\ Streams /\ Carried /\ OwnReady /\ PeerReady
  /\ StoredInPlace

SameSlots == job' = job /\ put' = put /\ slot52' = slot52 /\ slot91' = slot91

SameBytes ==
  b'.off = b.off /\ b'.bufLen = b.bufLen /\ b'.buf = b.buf /\ b'.at = b.at /\ b'.len = b.len

\* No byte moves, and none is asked for that was not.
LEMMA ImagesKept ==
  ASSUME Images, SameSlots, SameBytes, c'.id = c.id, c'.what = c.what, Names(c'),
         conn' => conn,
         \A p \in ToSet(toB') : p \in ToSet(toB) \/ p.op \notin {"info", "data"},
         Has("update")' => Has("update"),
         Writing' => /\ Writing /\ call'.at = call.at /\ call'.bytes = call.bytes
                     /\ Unanswered' <=> Unanswered,
         Erasing' => Erasing /\ call'.at = call.at,
         Streaming' => Streaming /\ (Erased' => Erased)
  PROVE  Images'
<1> USE DEF Images, SameSlots, SameBytes
<1>1. Announces' /\ Fresh' /\ StoredInPlace'
  BY DEF Announces, Fresh, StoredInPlace, Slot
<1>2. Streams'
  BY DEF Streams, Holds, Img, SameFile, Room, Sound
<1>3. Carried'
  BY DEF Carried, Holds, Img, Pos
<1>4. OwnReady'
  BY DEF OwnReady, Holds, Img, Room, Sound
<1>5. PeerReady'
  BY DEF PeerReady, Holds, Img, Room, Sound
<1>6. QED
  BY <1>1, <1>2, <1>3, <1>4, <1>5

\* Nothing is under way at all.
LEMMA ImagesAtRest ==
  ASSUME Names(c'), StoredInPlace', Fresh',
         \A p \in ToSet(toB') : p.op \notin {"info", "data"},
         ~Streaming', ~Has("update")', ~Writing'
  PROVE  Images'
BY DEF Images, Announces, Streams, Carried, OwnReady, PeerReady

\* The link is down: what the chips have stays.
LEMMA ImagesAlone ==
  ASSUME Images, SameSlots, SameBytes, Names(c'), conn' = FALSE, toB' = <<>>,
         call' = call, wq' = wq
  PROVE  Images'
<1> USE DEF Images, SameSlots, SameBytes
<1>1. ~Streaming' /\ ToSet(toB') = {}
  BY NothingIn DEF Streaming
<1>2. Announces' /\ Fresh' /\ Streams' /\ Carried' /\ StoredInPlace'
  BY <1>1 DEF Announces, Fresh, Erasing, Streams, Carried, StoredInPlace, Slot
<1>3. OwnReady'
  BY DEF OwnReady, Has, Holds, Img, Room, Sound
<1>4. PeerReady'
  BY DEF PeerReady, Writing, Unanswered, Holds, Img, Room, Sound
<1>5. QED
  BY <1>2, <1>3, <1>4

\* Less room is needed further on.
LEMMA RoomBehind ==
  ASSUME NEW slot, NEW at \in Nat, NEW end \in Nat, at <= end, Room(slot, at), job.size \in Nat
  PROVE  Room(slot, end)
BY DEF Room

\* A piece of the image is programmed where there is room.
LEMMA PieceStored ==
  ASSUME NEW slot, NEW at \in Nat, NEW n \in Nat, NEW data, Room(slot, at), Holds(data, at, n),
         job.size \in Nat, job.size <= SlotLen, at + n <= job.size,
         NEW burnt, burnt = Burnt(slot, at, data, n)
  PROVE  /\ Sound => \A a \in Span(at, n) : burnt[a] = Img(a)
         /\ \A a \in Address : a \notin Span(at, n) => burnt[a] = slot[a]
         /\ Room(burnt, at + n)
<1>1. SlotLen \in Nat
  BY FlashAssumption
<1>2. ASSUME Sound, NEW a \in Span(at, n)
      PROVE  burnt[a] = Img(a)
  <2>1. a \in Address /\ a \in at..(job.size - 1) /\ a - at + 1 \in 1..n /\ at + (a - at + 1) - 1 = a
    BY <1>1, <1>2 DEF Span, Address
  <2>2. slot[a] = Blank
    BY <1>2, <2>1 DEF Room
  <2>3. data[a - at + 1] = Img(a)
    BY <2>1 DEF Holds
  <2>4. burnt[a] = Programmed(Blank, Img(a))
    BY <1>2, <2>1, <2>2, <2>3 DEF Burnt
  <2>5. QED
    BY <2>4 DEF Programmed
<1>3. \A a \in Address : a \notin Span(at, n) => burnt[a] = slot[a]
  BY DEF Burnt
<1>4. Room(burnt, at + n)
  <2> SUFFICES ASSUME Sound, NEW a \in (at + n)..(job.size - 1)
               PROVE  burnt[a] = Blank
    BY DEF Room
  <2>1. a \in Address /\ a \notin Span(at, n) /\ a \in at..(job.size - 1)
    BY <1>1 DEF Span, Address
  <2>2. QED
    BY <1>3, <2>1 DEF Room
<1>5. QED
  BY <1>2, <1>3, <1>4

\* A packet behind what has been collected.
LEMMA CollectedHolds ==
  ASSUME NEW bytes, NEW m \in Nat, Len(bytes) = m, b.bufLen \in Nat, b.off \in Nat,
         b.bufLen + m <= Block,
         Holds(b.buf, b.off, b.bufLen), Holds(bytes, Pos, m)
  PROVE  Holds(Collected(bytes), b.off, b.bufLen + m)
<1>1. Block \in Nat
  BY BlockAssumption
<1>2. SUFFICES ASSUME NEW i \in 1..(b.bufLen + m)
               PROVE  Collected(bytes)[i] = Img(b.off + i - 1)
  BY DEF Holds
<1>3. i \in 1..Block
  BY <1>1
<1>4. CASE i <= b.bufLen
  BY <1>3, <1>4 DEF Collected, Holds
<1>5. CASE i > b.bufLen
  <2>1. i - b.bufLen \in 1..m /\ Pos + (i - b.bufLen) - 1 = b.off + i - 1
    BY <1>5 DEF Pos
  <2>2. bytes[i - b.bufLen] = Img(b.off + i - 1)
    BY <2>1 DEF Holds
  <2>3. QED
    BY <1>3, <1>5, <2>2 DEF Collected
<1>6. QED
  BY <1>4, <1>5

\* The pages of a request to erase cover the image.
LEMMA PagesCover ==
  ASSUME NEW size \in Nat
  PROVE  CeilDiv(size, Page) \in Nat /\ CeilDiv(size, Page) * Page >= size
<1>1. Page \in Nat \ {0}
  BY FlashAssumption
<1>2. PICK m \in Nat : m = size + Page - 1
  BY <1>1
<1>3. /\ m \div Page \in Nat
      /\ m < (m \div Page) * Page + Page
  BY <1>1, <1>2
<1>4. PICK k \in Nat : k = (m \div Page) * Page
  BY <1>1, <1>3
<1>5. k >= size
  BY <1>1, <1>2, <1>3, <1>4
<1>6. QED
  BY <1>2, <1>3, <1>4, <1>5 DEF CeilDiv

-----------------------------------------------------------------------------
(* The Bluetooth thread *)

\* A packet that carries nothing of an image is taken.
LEMMA RxPlainStored ==
  ASSUME Inv, OnCourse, Images, RxStart \/ RxSelf \/ RxDone
  PROVE  Images'
<1>1. PICK op \in {"start", "self", "done"} : Rx(op)
  BY DEF RxStart, RxSelf, RxDone
<1>2. /\ c' = c /\ phase' = phase
      /\ \A q \in ToSet(toC) : q.op = "cut"
      /\ \A q \in ToSet(toB') : q.op = "empty"
      /\ ~Asking' /\ ~Has("info") /\ ~Has("update") /\ ~Calling /\ ~Writing
  BY <1>1, PacketTakenOnCourse
<1>3. wq' = wq /\ SameSlots
  BY DEF RxStart, RxSelf, RxDone, flash, history, SameSlots
<1>4. call' = call \/ call'.op = "devinf"
  BY DEF RxStart, retrieve_dev_info, app_cmd_request, Ask, RxSelf, RxDone, simp
<1>5. \A q \in ToSet(toC') : q.op # "get"
  <2>1. PICK p : p.op # "get" /\ (toC' = Sent(p) \/ toC' = toC)
    <3>1. CASE RxStart
      BY <3>1, Noted DEF RxStart, retrieve_dev_info, DevInf
    <3>2. CASE RxSelf
      BY <3>2, Noted DEF RxSelf, Plain
    <3>3. CASE RxDone
      <4>1. toC' = toC /\ Plain("cut").op # "get"
        BY <3>3 DEF RxDone, Plain
      <4>2. QED
        BY <4>1
    <3>4. QED
      BY <3>1, <3>2, <3>3
  <2>2. QED
    BY <1>2, <2>1, Added1
<1>6. ~Writing' /\ ~Erasing' /\ ~Has("update")' /\ ~Has("info")'
  BY <1>2, <1>3, <1>4 DEF Writing, Erasing, Calling, Has
<1>7. ~Streaming'
  BY <1>2, <1>5, <1>6 DEF Streaming, Erasing, Calling
<1>8. StoredInPlace' /\ Names(c')
  BY <1>2, <1>3 DEF Images, StoredInPlace, Slot, SameSlots
<1>9. QED
  BY <1>2, <1>6, <1>7, <1>8, ImagesAtRest DEF Fresh

\* Another image begins: nothing of it is there yet.
LEMMA RxInfoStored ==
  ASSUME Inv, OnCourse, Images, RxInfo
  PROVE  Images'
<1> DEFINE p == Head(toB)
<1>1. Rx("info")
  BY DEF RxInfo
<1>2. /\ c' = c /\ conn' = conn /\ conn /\ phase' = phase
      /\ p \in ToSet(toB) /\ p.op = "info" /\ PacketOk(p)
      /\ \A q \in ToSet(toC) : q.op = "cut"
      /\ \A q \in ToSet(toB') : q.op = "empty"
      /\ ~Asking' /\ ~Has("info") /\ ~Has("update") /\ ~Calling /\ ~Writing
  BY <1>1, PacketTakenOnCourse
<1>3. p.what = c.what /\ p.id = c.id /\ b.off = 0 /\ b.bufLen = 0
  BY <1>2 DEF OnCourse, Talk, Announced, Images, Announces, PacketOk, AtStart
<1>4. /\ b' = Expecting(p.size, p.what)
      /\ \/ p.what = "52" /\ Submit("info") /\ UNCHANGED <<call, faults>>
         \/ p.what # "52" /\ cmd_request_flash_erase(p.size) /\ UNCHANGED wq
      /\ job' = [chip |-> b'.type, size |-> p.size, id |-> p.id,
                 blank |-> \A a \in 0..(p.size - 1) : slot52[a] = Blank]
      /\ put' = {} /\ toC' = toC /\ slot52' = slot52
  BY DEF RxInfo
<1> HIDE DEF p
<1>5. /\ b'.off = 0 /\ b'.bufLen = 0
      /\ b'.type = IF p.what = "52" THEN "52" ELSE "91"
  BY <1>3, <1>4 DEF Expecting, Inv, Typed, ChipFields
<1>6. /\ job'.chip = b'.type /\ job'.size = p.size /\ job'.id = p.id
      /\ job'.blank <=> \A a \in 0..(p.size - 1) : slot52[a] = Blank
  BY <1>4
<1>7. /\ Has("info")' => p.what = "52"
      /\ ~Has("update")'
  BY <1>2, <1>4, Submitted DEF Inv, Has
<1>8. \/ call' = call
      \/ call' = Ask("erase", CeilDiv(p.size, Page), <<>>)
  BY <1>4 DEF cmd_request_flash_erase, app_cmd_request
<1>9. ~Writing' /\ (Erasing' => ~Erased' /\ call'.at = CeilDiv(p.size, Page))
  <2>1. CASE call' = call
    BY <1>2, <2>1 DEF Writing, Erasing, Calling
  <2>2. CASE call' = Ask("erase", CeilDiv(p.size, Page), <<>>)
    BY <2>2 DEF Writing, Erasing, Erased, Ask
  <2>3. QED
    BY <1>8, <2>1, <2>2
<1>10. SameFile'
  BY <1>2, <1>3, <1>5, <1>6 DEF SameFile
<1>11. Holds(b.buf, b.off, b.bufLen)'
  BY <1>5 DEF Holds
<1>12. job'.chip = "52" => Room(slot52, b.off)'
  BY <1>4, <1>5, <1>6 DEF Room, Sound
<1>13. Streaming' => job'.chip = "52" \/ ~Erased'
  BY <1>2, <1>4, <1>5, <1>6, <1>7, <1>9 DEF Streaming, Calling, Erasing, Erased
<1>14. Streams'
  BY <1>6, <1>9, <1>10, <1>11, <1>12, <1>13 DEF Streams
<1>15. StoredInPlace' /\ Fresh'
  BY <1>4 DEF StoredInPlace, Fresh
<1>16. Names(c')
  BY <1>2 DEF Images
<1>17. QED
  BY <1>2, <1>7, <1>9, <1>14, <1>15, <1>16
  DEF Images, Announces, Carried, OwnReady, PeerReady

\* A packet of the image is collected behind those before it, and a block that is complete
\* is handed over where it belongs.
LEMMA RxDataStored ==
  ASSUME Inv, OnCourse, Kinds, Images, RxData
  PROVE  Images'
<1> DEFINE bytes == Head(toB).bytes
           buf == Collected(bytes)
           n == b.bufLen + Len(bytes)
<1>1. Rx("data")
  BY DEF RxData
<1>2. /\ c' = c /\ conn' = conn /\ conn /\ phase' = phase
      /\ Head(toB) \in ToSet(toB) /\ Head(toB).op = "data"
      /\ \A q \in ToSet(toC) : q.op = "cut"
      /\ \A q \in ToSet(toB') : q.op = "empty"
      /\ ~Asking' /\ ~Has("info") /\ ~Has("update") /\ ~Calling /\ ~Writing
  BY <1>1, PacketTakenOnCourse
<1>3. Streaming /\ ~Erasing
  BY <1>2 DEF Streaming, Erasing, Calling
<1>4. /\ SameFile /\ Holds(b.buf, b.off, b.bufLen)
      /\ job.chip = "52" => Room(slot52, b.off)
      /\ job.chip = "91" => Room(slot91, b.off)
  BY <1>3 DEF Images, Streams, Erased
<1>5. job.chip = b.type /\ b.type \in Chip
  BY <1>3 DEF OnCourse, Types, Progress, Going, Expected
<1>6. /\ Len(bytes) \in Nat /\ n <= Block /\ n \in Nat /\ b.off + n <= b.size
      /\ b.off \in Nat /\ b.bufLen \in Nat /\ b.size \in Nat /\ b.size <= SlotLen
  <2>1. b.bufLen \in Nat /\ b.off \in Nat /\ b.size \in Nat
    BY DEF Inv, Typed
  <2>2. /\ Len(bytes) \in Nat /\ n <= Block /\ Pos + Len(bytes) <= b.size /\ b.size <= SlotLen
    BY <1>2, PacketFits
  <2>3. QED
    BY <2>1, <2>2 DEF Pos
<1>7. Holds(buf, b.off, n)
  <2>1. Holds(bytes, Pos, Len(bytes))
    BY <1>2 DEF Images, Carried
  <2>2. PICK m : m = Len(bytes)
    OBVIOUS
  <2>3. m \in Nat /\ b.bufLen + m <= Block /\ Holds(bytes, Pos, m)
    BY <1>6, <2>1, <2>2
  <2>4. QED
    BY <1>4, <1>6, <2>2, <2>3, CollectedHolds
<1>8. SameSlots
  BY DEF RxData, flash, history, SameSlots
<1>9. IF n = Block \/ n = (b.size - b.off + UInt32) % UInt32
      THEN b' = BlockDone(buf, n) /\ HandOver(buf, n)
      ELSE /\ b' = [b EXCEPT !.buf = buf, !.bufLen = n]
           /\ Notify(Plain("get"))
           /\ UNCHANGED <<wq, call>>
  BY DEF RxData
<1> HIDE DEF buf, n, bytes
<1>10. StoredInPlace' /\ Names(c')
  BY <1>2, <1>8 DEF Images, StoredInPlace, Slot, SameSlots
<1>11. \A data, at, k : Holds(data, at, k)' <=> Holds(data, at, k)
  BY <1>8 DEF Holds, Img, SameSlots
<1>12. CASE b' = BlockDone(buf, n) /\ HandOver(buf, n)
  <2>1. /\ b'.at = b.off /\ b'.len = n /\ b'.buf = buf
    BY <1>12 DEF BlockDone, Inv, Typed, ChipFields
  <2>2. toC' = toC
    BY <1>12 DEF HandOver
  <2>3. CASE b.type = "52" /\ Submit("update") /\ call' = call
    <3>1. ~Has("info")'
      BY <1>2, <2>3, Submitted DEF Inv, Has
    <3>2. ~Writing' /\ ~Erasing' /\ ~Calling'
      BY <1>2, <1>3, <2>3 DEF Writing, Erasing, Calling
    <3>3. ~Streaming'
      BY <1>2, <2>2, <3>1, <3>2 DEF Streaming
    <3>4. Holds(b.buf, b.at, b.len)'
      BY <1>7, <1>11, <2>1
    <3>5. Room(slot52, b.at)'
      BY <1>4, <1>5, <1>8, <2>1, <2>3 DEF Room, Sound, SameSlots
    <3>6. job'.id = c'.id
      BY <1>2, <1>4, <1>8 DEF SameFile, SameSlots
    <3>7. QED
      BY <1>2, <1>10, <3>2, <3>3, <3>4, <3>5, <3>6
      DEF Images, Announces, Fresh, Streams, Carried, OwnReady, PeerReady
  <2>4. CASE b.type # "52" /\ app_cmd_request(Ask("write", b.off, Bytes(buf, n))) /\ UNCHANGED wq
    <3>1. ~Has("info")' /\ ~Has("update")'
      BY <1>2, <2>4 DEF Has
    <3>2. call' = call \/ call' = Ask("write", b.off, Bytes(buf, n))
      BY <2>4 DEF app_cmd_request
    <3>3. /\ ~Erasing' /\ (Calling' => call'.op = "write")
          /\ Writing' => call'.at = b.off /\ call'.bytes = Bytes(buf, n) /\ Unanswered'
      <4>1. CASE call' = call
        BY <1>2, <1>3, <4>1 DEF Writing, Erasing, Calling
      <4>2. CASE call' = Ask("write", b.off, Bytes(buf, n))
        BY <4>2 DEF Writing, Erasing, Calling, Unanswered, Ask
      <4>3. QED
        BY <3>2, <4>1, <4>2
    <3>4. ~Streaming'
      BY <1>2, <2>2, <3>1, <3>3 DEF Streaming
    <3>5. PeerReady'
      <4> SUFFICES ASSUME Writing' PROVE PeerReady'
        BY DEF PeerReady
      <4>1. call'.at = b.off /\ call'.bytes = Bytes(buf, n) /\ Unanswered'
        BY <3>3
      <4>2. Len(call'.bytes) = n
        BY <1>6, <4>1, BytesLength
      <4>3. Holds(Bytes(buf, n), b.off, n)
        BY <1>6, <1>7, BlockAssumption DEF Holds, Bytes
      <4>4. Holds(call.bytes, call.at, Len(call.bytes))'
        BY <1>11, <4>1, <4>2, <4>3
      <4>5. Room(slot91, call.at)'
        BY <1>4, <1>5, <1>8, <2>4, <4>1 DEF Room, Sound, SameSlots, Chip
      <4>6. job'.id = c'.id /\ c'.what # "52"
        BY <1>2, <1>4, <1>5, <1>8, <2>4 DEF SameFile, SameSlots
      <4>7. QED
        BY <4>1, <4>4, <4>5, <4>6 DEF PeerReady
    <3>6. QED
      BY <1>2, <1>10, <3>1, <3>3, <3>4, <3>5
      DEF Images, Announces, Fresh, Streams, Carried, OwnReady
  <2>5. QED
    BY <1>5, <1>12, <2>3, <2>4 DEF HandOver, cmd_request_flash_write, Chip
<1>13. CASE b' = [b EXCEPT !.buf = buf, !.bufLen = n] /\ UNCHANGED <<wq, call>>
  <2>1. b'.off = b.off /\ b'.buf = buf /\ b'.bufLen = n
    BY <1>13 DEF Inv, Typed, ChipFields
  <2>2. ~Has("update")' /\ ~Writing' /\ ~Erasing'
    BY <1>2, <1>3, <1>13 DEF Has, Writing, Erasing, Calling
  <2>3. SameFile' /\ Holds(b.buf, b.off, b.bufLen)'
    BY <1>2, <1>4, <1>7, <1>8, <1>11, <2>1 DEF SameFile, SameSlots
  <2>4. /\ job'.chip = "52" => Room(slot52, b.off)'
        /\ job'.chip = "91" => Room(slot91, b.off)'
    BY <1>4, <1>8, <2>1 DEF Room, Sound, SameSlots
  <2>5. Streams'
    BY <2>2, <2>3, <2>4 DEF Streams
  <2>6. QED
    BY <1>2, <1>10, <2>2, <2>5 DEF Images, Announces, Fresh, Carried, OwnReady, PeerReady
<1>14. QED
  BY <1>9, <1>12, <1>13

\* An empty packet changes nothing.
LEMMA RxEmptyStored ==
  ASSUME Inv, Images, RxEmpty
  PROVE  Images'
<1>1. /\ c' = c /\ conn' = conn /\ phase' = phase /\ toB # <<>> /\ toB' = Tail(toB) /\ toC' = toC
      /\ b' = b /\ wq' = wq /\ call' = call /\ SameSlots
  BY DEF RxEmpty, Rx, simp, flash, history, SameSlots
<1>2. ToSet(toB') \subseteq ToSet(toB)
  BY <1>1, TakenOff DEF Inv, Typed
<1>3. Streaming' => Streaming
  BY <1>1, <1>2 DEF Streaming, Asking, Has, Calling
<1>4. QED
  BY <1>1, <1>2, <1>3, ImagesKept
  DEF Images, Names, SameBytes, Has, Writing, Unanswered, Erasing, Erased

-----------------------------------------------------------------------------
(* SIMP and the ichip *)

\* While a request is under way no byte is asked for but by that to erase.
LEMMA AskedAlone ==
  ASSUME Inv, Calling, Streaming
  PROVE  Erasing
BY CallingAlone DEF Streaming, Erasing, Calling

\* The ichip erases, or does not: the pages that it was told cover the image.
LEMMA ErasedStored ==
  ASSUME Inv, OnCourse, Images, req_cb_flash_erase
  PROVE  Images'
<1> DEFINE r == app_flash_erase_page(slot91, 0, call.at)
<1>1. /\ c' = c /\ conn' = conn /\ toC' = toC /\ toB' = toB /\ b' = b /\ phase' = phase /\ wq' = wq
      /\ job' = job /\ put' = put /\ slot52' = slot52
      /\ Unanswered /\ call.op = "erase"
      /\ \/ slot91' = r.slot /\ call' = [call EXCEPT !.answer = IF r.ok THEN "ok" ELSE "empty"]
         \/ slot91' = slot91 /\ call' = [call EXCEPT !.answer = "empty"]
  BY DEF req_cb_flash_erase, Answer, link, chip
<1>2. Erasing /\ Calling /\ put = {}
  BY <1>1 DEF Erasing, Calling, Unanswered, Images, Fresh
<1>3. /\ call'.op = "erase" /\ call'.at = call.at
      /\ call'.answer = "ok" => slot91' = r.slot /\ r.ok
  BY <1>1, <1>2 DEF Inv, Typed, CallTyped, Erasing
<1>4. ~Writing' /\ ~Has("update")'
  BY <1>1, <1>2, <1>3, CallingAlone DEF Writing, Has
<1>5. \A p \in ToSet(toB') : p.op = "empty"
  BY <1>1, <1>2, CallingAlone
<1>6. StoredInPlace' /\ Fresh' /\ Names(c')
  BY <1>1, <1>2 DEF StoredInPlace, Fresh, Images
<1>7. Streams'
  <2> SUFFICES ASSUME Streaming' PROVE Streams'
    BY DEF Streams
  <2>1. Streaming
    BY <1>1, <1>2 DEF Streaming
  <2>2. /\ SameFile /\ Holds(b.buf, b.off, b.bufLen)
        /\ job.chip = "52" => Room(slot52, b.off)
        /\ call.at = CeilDiv(job.size, Page)
    BY <1>2, <2>1 DEF Images, Streams
  <2>3. (SameFile /\ Holds(b.buf, b.off, b.bufLen) /\ (job.chip = "52" => Room(slot52, b.off)))'
    BY <1>1, <2>2 DEF SameFile, Holds, Img, Room, Sound
  <2>4. /\ b.size = job.size /\ b.size \in Nat /\ b.size <= SlotLen /\ b.off \in Nat
    BY <2>1 DEF OnCourse, Types, Progress, Going, Expected, Inv, Typed
  <2>5. ASSUME slot91' = r.slot, r.ok
        PROVE  Room(slot91, b.off)'
    <3> DEFINE length == Smaller(call.at * Page, SlotLen)
    <3>1. call.at * Page >= job.size /\ call.at \in Nat
      BY <2>2, <2>4, PagesCover
    <3>2. Page \in Nat /\ SlotLen \in Nat
      BY FlashAssumption
    <3>3. length >= job.size /\ length \in Int
      <4>1. PICK m \in Nat : m = call.at * Page
        BY <3>1, <3>2
      <4>2. QED
        BY <2>4, <3>1, <3>2, <4>1 DEF Smaller
    <3>4. r = flash_area_erase(slot91, 0, length)
      BY DEF app_flash_erase_page
    <3> HIDE DEF length, r
    <3>5. \A a \in Address : a \in 0..(length - 1) => r.slot[a] = Blank
      BY <2>5, <3>3, <3>4 DEF flash_area_erase
    <3>6. \A a \in b.off..(job.size - 1) : r.slot[a] = Blank
      BY <2>4, <3>2, <3>3, <3>5 DEF Address
    <3>7. QED
      BY <1>1, <2>5, <3>6 DEF Room
  <2>6. Erased' => Room(slot91, b.off)'
    <3>1. Erasing'
      BY <1>1, <1>2, CallingAlone DEF Streaming, Asking, Has, Calling, Erasing
    <3>2. QED
      BY <1>3, <2>5, <3>1 DEF Erased
  <2>7. QED
    BY <1>1, <1>3, <2>2, <2>3, <2>6 DEF Streams
<1>8. QED
  BY <1>4, <1>5, <1>6, <1>7 DEF Images, Announces, Carried, OwnReady, PeerReady

\* The ichip writes a block where there is room for it, or none of it.
LEMMA WrittenStored ==
  ASSUME Inv, OnCourse, Kinds, Images, req_cb_flash_write
  PROVE  Images'
<1> DEFINE n == Len(call.bytes)
           r == app_flash_write(slot91, call.at, call.bytes)
<1>1. /\ c' = c /\ conn' = conn /\ toC' = toC /\ toB' = toB /\ b' = b /\ phase' = phase /\ wq' = wq
      /\ job' = job /\ slot52' = slot52
      /\ Unanswered /\ call.op = "write"
      /\ \E ok : call' = [call EXCEPT !.answer = IF ok THEN "ok" ELSE "empty"]
      /\ \/ slot91' = r.slot /\ put' = IF r.ok THEN put \cup Span(call.at, n) ELSE put
         \/ slot91' = slot91 /\ put' = put
  BY DEF req_cb_flash_write, Answer, link, chip
<1>2. Writing
  BY <1>1 DEF Writing, Unanswered
<1>3. /\ Calling /\ ~Has("update") /\ job.chip = "91" /\ job.size = b.size
      /\ n \in 1..Block /\ call.at \in Nat /\ call.at % Word = 0
      /\ call.at + n = b.off /\ b.off <= b.size /\ b.size <= SlotLen /\ Queue(call.bytes)
  BY <1>2, BlockUnderWay
<1>4. /\ Holds(call.bytes, call.at, n) /\ Room(slot91, call.at)
      /\ conn => job.id = c.id /\ c.what # "52"
  BY <1>1, <1>2 DEF Images, PeerReady
<1>5. /\ call'.op = "write" /\ call'.at = call.at /\ call'.bytes = call.bytes /\ call'.answer # "none"
  BY <1>1, <1>2 DEF Inv, Typed, CallTyped, Writing
<1>6. b.size \in Nat /\ b.off \in Nat
  BY DEF Inv, Typed
<1>7. r.ok
  <2>1. call.at + n <= SlotLen
    BY <1>3, <1>6, FlashAssumption
  <2>2. QED
    BY <1>3, <2>1, WriteSucceeds
<1>8. slot91' = Burnt(slot91, call.at, call.bytes, n) \/ slot91' = slot91
  <2>1. slot91 = [a \in Address |-> slot91[a]]
    BY DEF Kinds, Slots
  <2>2. QED
    BY <1>1, <1>3, <1>7, <2>1, WriteStores
<1>9. put' = put \/ (put' = put \cup Span(call.at, n) /\ slot91' = Burnt(slot91, call.at, call.bytes, n))
  <2>1. slot91 = [a \in Address |-> slot91[a]]
    BY DEF Kinds, Slots
  <2>2. QED
    BY <1>1, <1>3, <1>7, <2>1, WriteStores
<1> DEFINE burnt == Burnt(slot91, call.at, call.bytes, n)
<1>10. /\ Sound => \A a \in Span(call.at, n) : burnt[a] = Img(a)
       /\ \A a \in Address : a \notin Span(call.at, n) => burnt[a] = slot91[a]
       /\ Room(burnt, call.at + n)
  <2>1. PICK m \in Nat : m = n /\ Holds(call.bytes, call.at, m)
    BY <1>3, <1>4
  <2>2. call.at + m <= job.size
    BY <1>3, <1>6, <2>1
  <2>3. QED
    BY <1>3, <1>4, <1>6, <2>1, <2>2, PieceStored
<1> HIDE DEF burnt, n
<1>11. Room(slot91', b.off)
  BY <1>3, <1>4, <1>6, <1>8, <1>10, RoomBehind DEF burnt
<1>12. StoredInPlace'
  <2>1. Sound /\ put \subseteq Address
    BY <1>3 DEF Sound, Kinds, Slots
  <2>2. \A a \in put : slot91[a] = Img(a)
    BY <1>3 DEF Images, StoredInPlace, Slot, Img
  <2>3. \A a \in put' : slot91'[a] = Img(a)
    BY <1>8, <1>9, <1>10, <2>1, <2>2 DEF burnt
  <2>4. QED
    BY <1>1, <1>3, <2>3 DEF StoredInPlace, Slot, Img
<1>13. ~Erasing' /\ ~Streaming'
  BY <1>1, <1>3, <1>5, CallingAlone DEF Erasing, Streaming, Asking, Has, Calling
<1>14. \A p \in ToSet(toB') : p.op = "empty"
  BY <1>1, <1>3, CallingAlone
<1>15. PeerReady'
  <2>1. Holds(call.bytes, call.at, Len(call.bytes))'
    BY <1>1, <1>4, <1>5 DEF Holds, Img, n
  <2>2. Room(slot91, b.off)'
    BY <1>1, <1>11 DEF Room, Sound
  <2>3. QED
    BY <1>1, <1>4, <1>5, <2>1, <2>2 DEF PeerReady, Unanswered
<1>16. QED
  BY <1>1, <1>3, <1>12, <1>13, <1>14, <1>15
  DEF Images, Announces, Fresh, Streams, Carried, OwnReady, Has, Names

LEMMA IchipStored ==
  ASSUME Inv, OnCourse, Kinds, Images, Ichip
  PROVE  Images'
<1>1. CASE req_dev_fwinfo92 \/ req_cb_flash_done
  <2>1. /\ c' = c /\ conn' = conn /\ toC' = toC /\ toB' = toB /\ b' = b /\ phase' = phase /\ wq' = wq
        /\ SameSlots /\ Unanswered /\ call.op \in {"devinf", "done"}
        /\ \E ok : call' = [call EXCEPT !.answer = IF ok THEN "ok" ELSE "empty"]
    BY <1>1 DEF req_dev_fwinfo92, req_cb_flash_done, Answer, link, chip, SameSlots
  <2>2. call'.op = call.op
    BY <2>1 DEF Inv, Typed, CallTyped, Unanswered
  <2>3. ~Writing' /\ ~Erasing' /\ ~Erasing
    BY <2>1, <2>2 DEF Writing, Erasing
  <2>4. Streaming' => Streaming
    BY <2>1, <2>3 DEF Streaming, Asking, Has, Calling, Erasing
  <2>5. QED
    BY <2>1, <2>3, <2>4, ImagesKept DEF Images, Names, SameBytes, Has, Erased
<1>2. QED
  BY <1>1, ErasedStored, WrittenStored DEF Ichip

\* A response arrives, or a request never left.
LEMMA AnsweredStored ==
  ASSUME Inv, Images, Responded \/ TxAborted
  PROVE  Images'
<1>1. /\ c' = c /\ conn' = conn /\ toC' = toC /\ toB' = toB /\ b' = b /\ phase' = phase /\ SameSlots
      /\ call' = call \/ (call' = None /\ call # None)
      /\ wq' = wq \/ Submit("rsp")
  BY DEF Responded, TxAborted, Unanswered, link, chip, simp, flash, history, SameSlots
<1>2. /\ Has("info")' => Has("info")
      /\ Has("update")' => Has("update")
  BY <1>1, Submitted DEF Inv, Has
<1>3. /\ Writing' => Writing /\ call' = call
      /\ Erasing' => Erasing /\ call' = call
      /\ Calling' => call' = call
  BY <1>1 DEF Writing, Erasing, Calling
<1>4. Streaming' => Streaming /\ (Erased' => Erased)
  <2>1. CASE call' = call
    BY <1>1, <1>2, <2>1 DEF Streaming, Asking, Calling, Erased, Erasing
  <2>2. CASE call' = None /\ call # None
    BY <1>1, <1>2, <2>2, AskedAlone, CallingAlone DEF Streaming, Asking, Calling, Erased, Erasing
  <2>3. QED
    BY <1>1, <2>1, <2>2
<1>5. QED
  BY <1>1, <1>2, <1>3, <1>4, ImagesKept DEF Images, Names, SameBytes, Unanswered

\* The end of a serial update is the end of what the slot held.
LEMMA IchipAsksStored ==
  ASSUME Timely, Inv, Images, NEW op, IchipAsks(op)
  PROVE  Images'
<1>1. /\ c' = c /\ conn' = conn /\ toC' = toC /\ toB' = toB /\ b' = b /\ phase' = phase /\ call' = call
      /\ slot91' = slot91 /\ Submit("req") /\ call = None /\ wq = <<>> /\ ~conn
      /\ \/ put' = {}
         \/ UNCHANGED <<slot52, job, put>>
  BY DEF IchipAsks, Timely, Quiet, Idle, link
<1>2. ToSet(wq') = {"req"}
  BY <1>1, Submitted, NothingIn DEF Inv
<1>3. /\ ~Has("update")' /\ ~Streaming' /\ ~Writing' /\ ~Erasing' /\ toB' = <<>>
  BY <1>1, <1>2 DEF Has, Streaming, Writing, Erasing, Inv, Linked
<1>4. StoredInPlace' /\ Fresh'
  BY <1>1, <1>3 DEF Images, StoredInPlace, Slot, Fresh
<1>5. QED
  BY <1>1, <1>3, <1>4, ImagesAtRest, NothingIn DEF Images, Names

\* A block is over: the next packet is asked for, or the end told.
LEMMA BlockToldStored ==
  ASSUME Inv, OnCourse, Images, Writing, c' = c, conn' = conn, toB' = toB, phase' = phase, SameSlots,
         Has("info")' => Has("info"), Has("update")' => Has("update"),
         IF b.off = b.size
         THEN /\ toC' = Sent(Plain("success")) \/ toC' = toC
              /\ call' = None \/ call'.op = "done"
         ELSE /\ toC' = Sent(Plain("get")) \/ toC' = toC
              /\ SameBytes /\ call' = None
  PROVE  Images'
<1>1. /\ Calling /\ ~Has("update") /\ job.chip = "91" /\ job.size = b.size
      /\ Len(call.bytes) \in 1..Block /\ call.at \in Nat /\ call.at + Len(call.bytes) = b.off
  BY BlockUnderWay
<1>2. /\ ~Asking /\ ~Has("info")
      /\ \A q \in ToSet(toC) : q.op = "cut"
      /\ \A q \in ToSet(toB') : q.op = "empty"
  BY <1>1, CallingAlone
<1>3. ~Has("info")' /\ ~Has("update")' /\ ~Asking' /\ ~Calling' /\ ~Writing' /\ ~Erasing'
  BY <1>1, <1>2 DEF Asking, Calling, Writing, Erasing
<1>4. StoredInPlace' /\ Names(c') /\ Fresh'
  BY <1>3 DEF Images, StoredInPlace, Slot, SameSlots, Fresh
<1>5. CASE b.off = b.size
  <2> DEFINE p == Plain("success")
  <2>1. p.op = "success" /\ (toC' = Sent(p) \/ toC' = toC)
    BY <1>5 DEF Plain
  <2> HIDE DEF p
  <2>2. \A q \in ToSet(toC') : q.op # "get"
    BY <1>2, <2>1, Added1
  <2>3. ~Streaming'
    BY <1>2, <1>3, <2>2 DEF Streaming
  <2>4. QED
    BY <1>2, <1>3, <1>4, <2>3, ImagesAtRest
<1>6. CASE b.off # b.size
  <2>1. b'.off = b.off /\ b'.bufLen = b.bufLen /\ b'.buf = b.buf
    BY <1>6 DEF SameBytes
  <2>2. ASSUME conn PROVE SameFile /\ b.bufLen = 0
    BY <1>1, <2>2 DEF Images, PeerReady, SameFile, Inv, Turn, InStep, WorkOk, Writing, BlockHanded
  <2>3. Room(slot91, b.off)
    <3>1. b.off \in Nat /\ b.size \in Nat
      BY DEF Inv, Typed
    <3>2. PICK at \in Nat : at <= b.off /\ Room(slot91, at)
      BY <1>1, <3>1 DEF Images, PeerReady
    <3>3. QED
      BY <1>1, <3>1, <3>2, RoomBehind
  <2>4. Streams'
    <3> SUFFICES ASSUME Streaming' PROVE Streams'
      BY DEF Streams
    <3>1. conn /\ SameFile'
      BY <2>2 DEF Streaming, SameFile, SameSlots
    <3>2. Holds(b.buf, b.off, b.bufLen)'
      BY <2>1, <2>2, <3>1 DEF Holds
    <3>3. Room(slot91, b.off)'
      BY <2>1, <2>3 DEF Room, Sound, SameSlots
    <3>4. QED
      BY <1>1, <1>3, <3>1, <3>2, <3>3 DEF Streams, SameSlots
  <2>5. QED
    BY <1>2, <1>3, <1>4, <2>4 DEF Images, Announces, Carried, OwnReady, PeerReady
<1>7. QED
  BY <1>5, <1>6

\* A request is over that was no block.
LEMMA OverStored ==
  ASSUME Inv, OnCourse, Images, c' = c, conn' = conn, toB' = toB, SameSlots, SameBytes,
         call # None, call.op # "write", call' = None,
         \A q \in ToSet(toC') : q \in ToSet(toC) \/ q.op # "get",
         Asking' => Asking \/ (call.op = "erase" /\ call.answer = "ok"),
         Has("info")' => Has("info"), Has("update")' => Has("update")
  PROVE  Images'
<1>1. ~Writing' /\ ~Erasing' /\ ~Calling'
  BY DEF Writing, Erasing, Calling
<1>2. Streaming' => Streaming /\ Erased
  <2> SUFFICES ASSUME Streaming' PROVE Streaming /\ Erased
    OBVIOUS
  <2>1. conn
    BY DEF Streaming
  <2>2. CASE call.op = "done"
    BY <1>1, <2>1, <2>2 DEF Streaming, Erased, Erasing
  <2>3. CASE call.op # "done"
    <3>1. Calling
      BY <2>3 DEF Calling
    <3>2. /\ ~Asking /\ ~Has("info") /\ ~Has("update")
          /\ \A q \in ToSet(toC) : q.op = "cut"
          /\ \A q \in ToSet(toB) : q.op = "empty"
      BY <3>1, CallingAlone
    <3>3. Asking'
      BY <1>1, <3>2 DEF Streaming
    <3>4. QED
      BY <2>1, <3>1, <3>2, <3>3 DEF Streaming, Erased
  <2>4. QED
    BY <2>2, <2>3
<1>3. QED
  BY <1>1, <1>2, ImagesKept DEF Images, Names

\* The timer of SIMP gives up.
LEMMA TimeoutStored ==
  ASSUME Inv, OnCourse, Images, tmr_rsp_timeout_handler
  PROVE  Images'
<1>1. /\ c' = c /\ conn' = conn /\ toB' = toB /\ wq' = wq
      /\ call # None /\ call' = None /\ SameSlots
  BY DEF tmr_rsp_timeout_handler, flash, SameSlots
<1>2. /\ Has("info")' => Has("info")
      /\ Has("update")' => Has("update")
  BY <1>1 DEF Has
<1>3. call.op \in RequestOp
  BY <1>1 DEF Inv, Typed, CallTyped
<1>4. CASE call.op \in {"erase", "done"}
  <2>1. phase' \in {phase, "halted"} /\ toC' = toC /\ b' = b
    BY <1>4 DEF tmr_rsp_timeout_handler
  <2>2. (Asking' => Asking) /\ SameBytes
    BY <2>1 DEF Asking, SameBytes
  <2>3. QED
    BY <1>1, <1>2, <1>4, <2>1, <2>2, OverStored
<1>5. CASE call.op = "write"
  <2>1. /\ toC' = IF b.off = b.size THEN Sent(Plain("success"))
                  ELSE IF b.off > 0 THEN Sent(Plain("get")) ELSE toC
        /\ b' = [b EXCEPT !.off = IF b.off = b.size THEN 0 ELSE b.off]
        /\ phase' = phase
    BY <1>5 DEF tmr_rsp_timeout_handler
  <2>2. Writing
    BY <1>1, <1>5 DEF Writing
  <2>3. CASE b.off = b.size
    BY <1>1, <1>2, <2>1, <2>2, <2>3, BlockToldStored
  <2>4. CASE b.off # b.size
    <3>1. SameBytes
      BY <2>1, <2>4 DEF SameBytes, Inv, Typed, ChipFields
    <3>2. QED
      BY <1>1, <1>2, <2>1, <2>2, <2>4, <3>1, BlockToldStored
  <2>5. QED
    BY <2>3, <2>4
<1>6. CASE call.op = "devinf"
  <2>1. PICK n \in Garbage : b' = [b EXCEPT !.avail91 = n] /\ toC' = Sent(DevInf(n, b.avail52))
    BY <1>6 DEF tmr_rsp_timeout_handler
  <2>2. phase' = phase /\ SameBytes
    BY <1>6, <2>1 DEF tmr_rsp_timeout_handler, SameBytes, Inv, Typed, ChipFields
  <2>3. PICK p : p.op = "devinf" /\ toC' = Sent(p)
    BY <2>1 DEF DevInf
  <2>4. \A q \in ToSet(toC') : q \in ToSet(toC) \/ q.op # "get"
    BY <2>3, Added1
  <2>5. Asking' => Asking
    BY <2>2 DEF Asking
  <2>6. QED
    BY <1>1, <1>2, <1>6, <2>2, <2>4, <2>5, OverStored
<1>7. QED
  BY <1>3, <1>4, <1>5, <1>6 DEF RequestOp

-----------------------------------------------------------------------------
(* The work queue *)

LEMMA SelfInfoStored ==
  ASSUME Inv, Images, wk_self_info_handler
  PROVE  Images'
<1>1. /\ Wk("info") /\ wq' = Tail(wq) /\ c' = c /\ conn' = conn /\ toC' = toC /\ toB' = toB
      /\ b' = b /\ call' = call /\ SameSlots
  BY DEF wk_self_info_handler, Wk, simp, flash, history, SameSlots
<1>2. Has("info") /\ ~Has("info")' /\ (Has("update")' <=> Has("update"))
  BY <1>1, Worked
<1>3. Streaming' => Streaming
  BY <1>1, <1>2 DEF Streaming
<1>4. QED
  BY <1>1, <1>2, <1>3, ImagesKept
  DEF Images, Names, SameBytes, Writing, Unanswered, Erasing, Erased

LEMMA BluetoothParamsStored ==
  ASSUME Inv, Images, update_bluetooth_params
  PROVE  Images'
<1>1. /\ c' = c /\ conn' = conn /\ toB' = toB /\ b' = b /\ wq' = wq /\ call' = call
      /\ phase' = "ready" /\ SameSlots
  BY DEF update_bluetooth_params, simp, flash, history, SameSlots
<1>2. /\ ~Asking' /\ (Calling' <=> Calling)
      /\ Has("info")' <=> Has("info")
      /\ Has("update")' <=> Has("update")
  BY <1>1 DEF Asking, Calling, Has
<1>3. Streaming' => Streaming
  <2>1. CASE phase = "asking"
    BY <1>1, <2>1 DEF Streaming, Asking
  <2>2. CASE phase # "asking"
    BY <1>1, <1>2, <2>2 DEF Streaming, update_bluetooth_params
  <2>3. QED
    BY <2>1, <2>2
<1>4. QED
  BY <1>1, <1>2, <1>3, ImagesKept
  DEF Images, Names, SameBytes, Writing, Unanswered, Erasing, Erased

\* A block of its own image is written where there is room for it, or nothing is.
LEMMA SelfUpdateStored ==
  ASSUME Inv, OnCourse, Kinds, Images, wk_self_update_handler
  PROVE  Images'
<1> DEFINE bytes == Bytes(b.buf, b.len)
           r == app_flash_write(slot52, b.at, bytes)
<1>1. /\ Wk("update") /\ c' = c /\ conn' = conn /\ toB' = toB /\ phase' = phase
      /\ call' = call /\ slot91' = slot91 /\ job' = job
  BY DEF wk_self_update_handler, Wk, simp
<1>2. Has("update") /\ OwnBlock
  BY <1>1, Ran DEF Inv, OnCourse, Progress
<1>3. /\ b.size = job.size /\ job.chip = "52" /\ b.at \in Nat /\ b.len \in 1..Block
      /\ b.at + b.len = b.off /\ b.off <= b.size /\ b.size <= SlotLen
      /\ b.off \in Nat /\ b.size \in Nat /\ (conn => c.what = "52")
  BY <1>2 DEF OwnBlock, Expected, Piece, OnCourse, Types, Inv, Typed
<1>4. /\ ~Asking /\ ~Has("info") /\ ~Calling
      /\ \A q \in ToSet(toC) : q.op = "cut"
      /\ \A q \in ToSet(toB') : q.op = "empty"
  BY <1>1, <1>2, TurnOf DEF Inv, Turn, Only, MacsTurn, PacketsTurn
<1>5. ~Asking' /\ ~Calling' /\ ~Writing' /\ ~Erasing'
  BY <1>1, <1>4 DEF Asking, Calling, Writing, Erasing
<1>6. Holds(b.buf, b.at, b.len) /\ Room(slot52, b.at) /\ (conn => job.id = c.id)
  BY <1>2 DEF Images, OwnReady
<1>7. Queue(bytes) /\ Len(bytes) = b.len /\ Holds(bytes, b.at, b.len)
  <2>1. Queue(bytes) /\ Len(bytes) = b.len
    BY <1>3, BlockAssumption, BytesLength
  <2>2. \A i \in 1..b.len : bytes[i] = b.buf[i]
    BY <1>3, BlockAssumption DEF Bytes
  <2> HIDE DEF bytes
  <2>3. QED
    BY <1>6, <2>1, <2>2 DEF Holds
<1>8. r.ok => r.slot = Burnt(slot52, b.at, bytes, b.len)
  <2>1. slot52 = [a \in Address |-> slot52[a]]
    BY DEF Kinds, Slots
  <2> HIDE DEF bytes
  <2>2. QED
    BY <1>3, <1>7, <2>1, WriteStores
<1>9. \/ r.ok /\ slot52' = r.slot /\ put' = put \cup Span(b.at, b.len)
         /\ IF b.off = b.size
            THEN Notify(Plain("success")) /\ dfu_file_ready(0)
            ELSE Notify(Plain("get")) /\ wq' = Tail(wq) /\ b' = b
      \/ wq' = Tail(wq) /\ UNCHANGED <<b, toC, slot52, put>>
  BY DEF wk_self_update_handler
<1> DEFINE burnt == Burnt(slot52, b.at, bytes, b.len)
<1>10. /\ Sound => \A a \in Span(b.at, b.len) : burnt[a] = Img(a)
       /\ \A a \in Address : a \notin Span(b.at, b.len) => burnt[a] = slot52[a]
       /\ Room(burnt, b.off)
  <2>1. b.len \in Nat /\ b.at + b.len <= job.size
    BY <1>3, BlockAssumption
  <2> HIDE DEF bytes
  <2>2. PICK at \in Nat, n \in Nat : at = b.at /\ n = b.len
    BY <1>3, <2>1
  <2>3. QED
    BY <1>3, <1>6, <1>7, <2>1, <2>2, PieceStored
<1> HIDE DEF burnt, bytes, r
<1>11. CASE r.ok /\ slot52' = r.slot /\ put' = put \cup Span(b.at, b.len)
            /\ IF b.off = b.size
               THEN Notify(Plain("success")) /\ dfu_file_ready(0)
               ELSE Notify(Plain("get")) /\ wq' = Tail(wq) /\ b' = b
  <2>1. slot52' = burnt
    BY <1>8, <1>11 DEF burnt
  <2>2. StoredInPlace'
    <3>1. put \subseteq Address
      BY DEF Kinds, Slots
    <3>2. Sound => \A a \in put : slot52[a] = Img(a)
      BY <1>3 DEF Images, StoredInPlace, Slot, Img, Sound
    <3>3. Sound => \A a \in put' : slot52'[a] = Img(a)
      BY <1>10, <1>11, <2>1, <3>1, <3>2
    <3>4. QED
      BY <1>1, <1>3, <3>3 DEF StoredInPlace, Slot, Img, Sound
  <2>3. Names(c') /\ Fresh'
    BY <1>1, <1>5 DEF Images, Fresh
  <2>4. CASE b.off = b.size
    <3> DEFINE p == Plain("success")
    <3>1. p.op = "success" /\ (toC' = Sent(p) \/ toC' = toC)
      BY <1>11, <2>4, Noted DEF Plain
    <3> HIDE DEF p
    <3>2. \A q \in ToSet(toC') : q.op # "get"
      BY <1>4, <3>1, Added1
    <3>3. ToSet(wq') = (ToSet(wq) \ {"update"}) \cup {"flag"}
      BY <1>1, <1>11, <2>4, Ran DEF dfu_file_ready, Inv
    <3>4. ~Has("info")' /\ ~Has("update")'
      BY <1>4, <3>3 DEF Has
    <3>5. ~Streaming'
      BY <1>4, <1>5, <3>2, <3>4 DEF Streaming
    <3>6. QED
      BY <1>4, <1>5, <2>2, <2>3, <3>4, <3>5, ImagesAtRest
  <2>5. CASE b.off # b.size
    <3>1. wq' = Tail(wq) /\ b' = b
      BY <1>11, <2>5
    <3>2. ~Has("update")'
      BY <1>1, <3>1, Worked
    <3>3. ASSUME conn PROVE SameFile /\ b.bufLen = 0
      BY <1>2, <1>3, <1>6, <3>3 DEF SameFile, Inv, Turn, InStep, WorkOk, BlockHanded
    <3>4. Streams'
      <4> SUFFICES ASSUME Streaming' PROVE Streams'
        BY DEF Streams
      <4>1. conn /\ SameFile'
        BY <1>1, <3>3 DEF Streaming, SameFile
      <4>2. Holds(b.buf, b.off, b.bufLen)'
        BY <3>1, <3>3, <4>1 DEF Holds
      <4>3. Room(slot52, b.off)'
        BY <1>1, <1>10, <2>1, <3>1 DEF Room, Sound
      <4>4. QED
        BY <1>1, <1>3, <1>5, <4>1, <4>2, <4>3 DEF Streams
    <3>5. QED
      BY <1>4, <1>5, <2>2, <2>3, <3>2, <3>4 DEF Images, Announces, Carried, OwnReady, PeerReady
  <2>6. QED
    BY <2>4, <2>5
<1>12. CASE wq' = Tail(wq) /\ UNCHANGED <<b, toC, slot52, put>>
  <2>1. ~Has("info")' /\ ~Has("update")'
    BY <1>1, <1>4, <1>12, Worked
  <2>2. ~Streaming'
    BY <1>4, <1>5, <1>12, <2>1 DEF Streaming
  <2>3. StoredInPlace' /\ Names(c') /\ Fresh'
    BY <1>1, <1>5, <1>12 DEF Images, StoredInPlace, Slot, Fresh
  <2>4. QED
    BY <1>4, <1>5, <2>1, <2>2, <2>3, ImagesAtRest
<1>13. QED
  BY <1>9, <1>11, <1>12

LEMMA FlagStored ==
  ASSUME Inv, Images, wk_update_mcuboot_flag_handler
  PROVE  Images'
<1>1. /\ Wk("flag") /\ wq' = Tail(wq) /\ c' = c /\ conn' = conn /\ toB' = toB /\ b' = b
      /\ call' = call /\ phase' = "cutting" /\ Notify(Plain("cut")) /\ SameSlots
  BY DEF wk_update_mcuboot_flag_handler, Wk, simp, history, SameSlots
<1>2. (Has("info")' <=> Has("info")) /\ (Has("update")' <=> Has("update"))
  BY <1>1, Worked
<1> DEFINE p == Plain("cut")
<1>3. p.op = "cut" /\ (toC' = Sent(p) \/ toC' = toC)
  BY <1>1, Noted DEF Plain
<1> HIDE DEF p
<1>4. \A q \in ToSet(toC') : q \in ToSet(toC) \/ q.op = "cut"
  BY <1>3, Added1
<1>5. Streaming' => Streaming
  BY <1>1, <1>2, <1>4 DEF Streaming, Calling, Asking
<1>6. QED
  BY <1>1, <1>2, <1>5, ImagesKept
  DEF Images, Names, SameBytes, Writing, Unanswered, Erasing, Erased

\* The response callbacks.
LEMMA ProcRspStored ==
  ASSUME Inv, OnCourse, Images, wk_proc_rsp_handler
  PROVE  Images'
<1>1. /\ Wk("rsp") /\ wq' = Tail(wq) /\ c' = c /\ conn' = conn /\ toB' = toB /\ SameSlots
  BY DEF wk_proc_rsp_handler, Wk, flash, SameSlots
<1>2. /\ Has("rsp") /\ ~Asking
      /\ Has("info")' <=> Has("info")
      /\ Has("update")' <=> Has("update")
  BY <1>1, Worked
<1>3. call # None
  BY <1>2 DEF Inv, Pending
<1>4. CASE rsp_cb_flash_erase
  <2>1. /\ call.op = "erase" /\ call' = None /\ b' = b /\ toC' = toC
        /\ Asking' => call.answer = "ok"
    BY <1>4 DEF rsp_cb_flash_erase, Asking
  <2>2. QED
    BY <1>1, <1>2, <1>3, <2>1, OverStored DEF SameBytes
<1>5. CASE rsp_cb_flash_write
  <2>1. Writing /\ phase' = phase
    BY <1>3, <1>5 DEF rsp_cb_flash_write, Writing
  <2>2. CASE b.off = b.size
    <3>1. /\ toC' = Sent(Plain("success")) \/ toC' = toC
          /\ call' \in {None, Ask("done", 0, <<>>)}
      BY <1>5, <2>2, Noted DEF rsp_cb_flash_write
    <3>2. call' = None \/ call'.op = "done"
      BY <3>1 DEF Ask
    <3>3. QED
      BY <1>1, <1>2, <2>1, <2>2, <3>1, <3>2, BlockToldStored
  <2>3. CASE b.off # b.size
    <3>1. /\ SameBytes /\ call' = None
          /\ toC' = Sent(Plain("get")) \/ toC' = toC
      BY <1>5, <2>3, Noted DEF rsp_cb_flash_write, SameBytes
    <3>2. QED
      BY <1>1, <1>2, <2>1, <2>3, <3>1, BlockToldStored
  <2>4. QED
    BY <2>2, <2>3
<1>6. CASE rsp_cb_flash_done
  <2>1. call.op = "done" /\ call' = None /\ toC' = toC /\ b' = b /\ phase' = phase
    BY <1>6 DEF rsp_cb_flash_done
  <2>2. QED
    BY <1>1, <1>2, <1>3, <2>1, OverStored DEF SameBytes, Asking
<1>7. CASE rsp_dev_fwinfo91
  <2>1. call.op = "devinf" /\ phase' = phase /\ call' = None
    BY <1>7 DEF rsp_dev_fwinfo91
  <2>2. PICK n \in Garbage : b' = [b EXCEPT !.avail91 = n] /\ Notify(DevInf(n, b.avail52))
    BY <1>7 DEF rsp_dev_fwinfo91
  <2>3. PICK p : p.op = "devinf" /\ (toC' = Sent(p) \/ toC' = toC)
    BY <2>2, Noted DEF DevInf
  <2>4. \A q \in ToSet(toC') : q \in ToSet(toC) \/ q.op # "get"
    BY <2>3, Added1
  <2>5. SameBytes
    BY <2>2 DEF SameBytes, Inv, Typed, ChipFields
  <2>6. QED
    BY <1>1, <1>2, <1>3, <2>1, <2>4, <2>5, OverStored DEF Asking
<1>8. QED
  BY <1>4, <1>5, <1>6, <1>7 DEF wk_proc_rsp_handler

\* The end of a serial update: there is no link, and no block of its own image.
LEMMA ProcReqStored ==
  ASSUME Inv, OnCourse, Images, wk_proc_req_handler
  PROVE  Images'
<1>1. /\ Wk("req") /\ c' = c /\ conn' = conn /\ toC' = toC /\ toB' = toB /\ phase' = phase
      /\ call' = call /\ SameSlots
  BY DEF wk_proc_req_handler, Wk, flash, history, SameSlots
<1>2. /\ Writing' <=> Writing
      /\ Erasing' <=> Erasing
      /\ Unanswered' <=> Unanswered
      /\ Calling' <=> Calling
  BY <1>1 DEF Writing, Erasing, Unanswered, Calling
<1>3. CASE slave = "done"
  <2>1. call = None /\ ~conn /\ toB = <<>>
    BY <1>3 DEF OnCourse, Serving, Inv, Linked
  <2>2. dfu_file_ready(b.off)
    BY <1>3 DEF wk_proc_req_handler
  <2>3. SameBytes
    BY <2>2 DEF dfu_file_ready, SameBytes, Inv, Typed, ChipFields
  <2>4. ToSet(wq') = (ToSet(wq) \ {"req"}) \cup {"flag"}
    BY <1>1, <2>2, Ran DEF dfu_file_ready, Inv
  <2>5. Has("update")' => Has("update")
    BY <2>4 DEF Has
  <2>6. ~Streaming'
    BY <1>1, <2>1 DEF Streaming
  <2>7. QED
    BY <1>1, <1>2, <2>1, <2>3, <2>5, <2>6, ImagesKept DEF Images, Names
<1>4. CASE slave # "done"
  <2>1. wq' = Tail(wq) /\ b' = b
    BY <1>4 DEF wk_proc_req_handler
  <2>2. (Has("info")' <=> Has("info")) /\ (Has("update")' <=> Has("update"))
    BY <1>1, <2>1, Worked
  <2>3. Streaming' => Streaming
    BY <1>1, <1>2, <2>2 DEF Streaming, Asking
  <2>4. QED
    BY <1>1, <1>2, <2>1, <2>2, <2>3, ImagesKept DEF Images, Names, SameBytes, Erased
<1>5. QED
  BY <1>3, <1>4

-----------------------------------------------------------------------------
(* The link and BDUNK *)

\* The link is cut, drops, or ends with BDUNK, which may start again.
LEMMA LinkEndsStored ==
  ASSUME Inv, Images,
         \/ CutEnds \/ LinkDrops \/ Quit
         \/ \E what \in What, n52 \in Sizes \cup {0}, n91 \in Sizes \cup {0}, loads \in BOOLEAN :
              Launch(what, n52, n91, loads)
  PROVE  Images'
<1>1. CASE CutEnds
  BY <1>1, ImagesAlone
  DEF CutEnds, disconnected, simp, flash, history, SameSlots, SameBytes, Images, Names
<1>2. CASE LinkDrops
  <2>1. c'.file = c.file /\ c'.what = c.what
    BY <1>2 DEF LinkDrops, centralManagerDidUpdateState, Inv, Typed, IsBdunk, BdunkFields
  <2>2. Names(c')
    BY <2>1 DEF Images, Names
  <2>3. QED
    BY <1>2, <2>2, ImagesAlone
    DEF LinkDrops, disconnected, chip, simp, flash, history, SameSlots, SameBytes
<1>3. CASE Quit
  <2>1. Names(c')
    BY <1>3 DEF Quit, Off, Launched, Names
  <2>2. QED
    BY <1>3, <2>1, ImagesAlone
    DEF Quit, disconnected, chip, simp, flash, history, SameSlots, SameBytes
<1>4. ASSUME NEW what, NEW n52, NEW n91, NEW loads, Launch(what, n52, n91, loads)
      PROVE  Images'
  <2>1. c.status \in {"off", "crashed"} /\ conn' = conn /\ toB' = toB
    BY <1>4 DEF Launch
  <2>2. conn' = FALSE /\ toB' = <<>>
    BY <2>1 DEF Inv, Linked
  <2>3. Names(c')
    BY <1>4 DEF Launch, Launched, Names
  <2>4. QED
    BY <1>4, <2>2, <2>3, ImagesAlone DEF Launch, chip, simp, flash, SameSlots, SameBytes
<1>5. QED
  BY <1>1, <1>2, <1>3, <1>4

\* After a reset the bchip expects nothing.
LEMMA RebootStored ==
  ASSUME Images, Reboot
  PROVE  Images'
<1>1. /\ c' = c /\ conn' = FALSE /\ toB' = <<>> /\ wq' = <<>> /\ call' = None /\ put' = {}
  BY DEF Reboot, disconnected
<1>2. ToSet(toB') = {} /\ ToSet(wq') = {}
  BY <1>1, NothingIn
<1>3. ~Streaming' /\ ~Has("update")' /\ ~Writing'
  BY <1>1, <1>2 DEF Streaming, Has, Writing
<1>4. StoredInPlace' /\ Fresh' /\ Names(c')
  BY <1>1 DEF StoredInPlace, Fresh, Images, Names
<1>5. QED
  BY <1>2, <1>3, <1>4, ImagesAtRest

LEMMA BootStored ==
  ASSUME Images, Boot \/ UNCHANGED vars
  PROVE  Images'
<1>1. /\ c' = c /\ conn' = conn /\ toC' = toC /\ toB' = toB /\ b' = b /\ wq' = wq /\ call' = call
      /\ SameSlots /\ (phase' = phase \/ phase' = "ready")
  BY DEF Boot, initalize_dfu_module, vars, link, chip, simp, flash, history, SameSlots
<1>2. Streaming' => Streaming
  BY <1>1 DEF Streaming, Asking, Has, Calling
<1>3. QED
  BY <1>1, <1>2, ImagesKept
  DEF Images, Names, SameBytes, Has, Writing, Unanswered, Erasing, Erased

\* BDUNK takes the next packet from the file that the bchip expects, where it expects it.
LEMMA ExtractHolds ==
  ASSUME Inv, OnCourse, Images, Streaming, Abreast, NEW d, Names(d), d.file = c.file,
         d.what = c.what, d.id = c.id, d.idx = c.idx, d.size52 = c.size52, d.size91 = c.size91
  PROVE  Holds(extract(d), Pos, Len(extract(d)))
<1>1. /\ d.file \in Chip /\ d.idx = Pos /\ d.idx \in Nat /\ FileSize(d) = b.size /\ d.idx <= b.size
      /\ b.size \in Nat
  BY DEF Abreast, Matched, FileSize, Inv, Typed, IsBdunk
<1>2. d.id = job.id /\ d.file = job.chip
  <2>1. SameFile /\ job.chip \in Chip
    BY DEF Images, Streams, OnCourse, Types, Progress, Going, Expected
  <2>2. QED
    BY <1>1, <2>1 DEF SameFile, Names, Chip
<1> DEFINE n == Smaller(Packet, FileSize(d) - d.idx)
<1>3. Len(extract(d)) = n
  BY <1>1, Extracted
<1>4. \A i \in 1..n : extract(d)[i] = <<d.id, d.file, d.idx + i - 1>>
  BY <1>1, PacketAssumption DEF extract, Smaller
<1> HIDE DEF n
<1>5. QED
  BY <1>1, <1>2, <1>3, <1>4 DEF Holds, Img

\* BDUNK answers, or begins when nothing is under way.
LEMMA BdunkStored ==
  ASSUME Inv, OnCourse, Images, NEW d, NEW r, NEW p, Names(d), d.id = c.id, d.what = c.what,
         d.op = "get" => /\ Streaming
                         /\ Holds(extract(d), Pos, Len(extract(d))),
         r.out \in {<<>>, <<p>>}, Keeps(d, p, r.c), BdunkDoes(r),
         r.c.status # "crashed" => \A q \in ToSet(toC') : q.op = "cut",
         \A q \in ToSet(toB) : q.op = "empty",
         ~Asking, ~Has("info"), ~Has("update"), ~Calling
  PROVE  Images'
<1>1. /\ c' = r.c /\ b' = b /\ phase' = phase /\ wq' = wq /\ call' = call /\ SameSlots
      /\ Names(c') /\ c'.id = c.id
  BY DEF BdunkDoes, chip, simp, flash, history, SameSlots, Keeps
<1>2. CASE r.c.status = "crashed"
  BY <1>1, <1>2, ImagesAlone DEF BdunkDoes, disconnected, SameBytes
<1>3. CASE r.c.status # "crashed"
  <2>1. toB' = toB \o r.out
    BY <1>3 DEF BdunkDoes
  <2>2. \A q \in ToSet(toB') : q.op = "empty" \/ q = p
    <3>1. Queue(toB) /\ Lone(toB, "empty")
      BY DEF Inv, Typed, Turn, OneTurn
    <3>2. QED
      BY <2>1, <3>1, PacketSent
  <2>3. /\ ~Asking' /\ ~Has("info")' /\ ~Has("update")' /\ ~Calling' /\ ~Writing'
        /\ ~Erasing /\ ~Erasing'
    BY <1>1 DEF Asking, Has, Calling, Writing, Erasing
  <2>4. Announces'
    BY <1>1, <2>2 DEF Announces, Keeps
  <2>5. \A data, at, k : Holds(data, at, k)' <=> Holds(data, at, k)
    BY <1>1 DEF Holds, Img, SameSlots
  <2>6. Carried'
    <3> SUFFICES ASSUME NEW q \in ToSet(toB'), q.op = "data"
                 PROVE  Holds(q.bytes, Pos, Len(q.bytes))'
      BY DEF Carried
    <3>1. q = p /\ q.bytes = extract(d) /\ d.op = "get"
      BY <2>2 DEF Keeps
    <3>2. Holds(q.bytes, Pos, Len(q.bytes))
      BY <3>1
    <3>3. QED
      BY <1>1, <2>5, <3>2 DEF Pos
  <2>7. Streams'
    <3> SUFFICES ASSUME Streaming' PROVE Streams'
      BY DEF Streams
    <3>1. p.op = "data"
      BY <1>3, <2>2, <2>3 DEF Streaming, Calling
    <3>2. Streaming /\ c'.what = c.what
      BY <1>1, <3>1 DEF Keeps
    <3>3. /\ SameFile /\ Holds(b.buf, b.off, b.bufLen)
          /\ job.chip = "52" => Room(slot52, b.off)
          /\ job.chip = "91" => Room(slot91, b.off)
      BY <2>3, <3>2 DEF Images, Streams, Erased
    <3>4. /\ SameFile' /\ Holds(b.buf, b.off, b.bufLen)'
          /\ job'.chip = "52" => Room(slot52, b.off)'
          /\ job'.chip = "91" => Room(slot91, b.off)'
      BY <1>1, <2>5, <3>2, <3>3 DEF SameFile, Room, Sound, SameSlots
    <3>5. QED
      BY <2>3, <3>4 DEF Streams
  <2>8. StoredInPlace' /\ Fresh'
    BY <1>1, <2>3 DEF Images, StoredInPlace, Slot, SameSlots, Fresh
  <2>9. QED
    BY <1>1, <2>3, <2>4, <2>6, <2>7, <2>8 DEF Images, OwnReady, PeerReady
<1>4. QED
  BY <1>2, <1>3

LEMMA ConnectStored ==
  ASSUME Timely, Inv, OnCourse, Images, NEW yes \in BOOLEAN, Connect(yes)
  PROVE  Images'
<1> DEFINE r == logic(c, yes)
<1>1. /\ c.status = "on" /\ ~conn /\ phase = "ready" /\ Quiet /\ c.idx = 0
      /\ BdunkDoes(r) /\ (r.c.status = "crashed" \/ toC' = <<>>)
  BY DEF Connect, Timely
<1>2. wq = <<>> /\ call = None /\ toB = <<>>
  BY <1>1 DEF Quiet, Idle, Inv, Linked
<1>3. /\ ToSet(wq) = {} /\ ToSet(toB) = {}
      /\ toC' = <<>> => ToSet(toC') = {}
  BY <1>2, NothingIn
<1>4. ~Asking /\ ~Has("info") /\ ~Has("update") /\ ~Calling
  BY <1>1, <1>2, <1>3 DEF Asking, Has, Calling
<1>5. IsBdunk(c) /\ c.op # "get" /\ Names(c)
  BY <1>1 DEF Inv, Typed, Knows, Expects, Linked, Images
<1>6. PICK p : r.out \in {<<>>, <<p>>} /\ Keeps(c, p, r.c)
  BY <1>5, LogicNames
<1> HIDE DEF r
<1>7. QED
  BY <1>1, <1>2, <1>3, <1>4, <1>5, <1>6, BdunkStored

\* BDUNK answers a notification.
LEMMA DidUpdateValueForStored ==
  ASSUME Inv, OnCourse, Images, didUpdateValueFor
  PROVE  Images'
<1> DEFINE n == Head(toC)
           d == [c EXCEPT !.op = n.op, !.rec = IF n.op = "devinf" THEN n ELSE c.rec]
           r == logic(d, TRUE)
<1>1. toC # <<>> /\ BdunkDoes(r) /\ (r.c.status = "crashed" \/ toC' = Tail(toC))
  BY DEF didUpdateValueFor, Notified
<1>2. conn /\ c.status = "on"
  BY <1>1 DEF Inv, Linked
<1>3. /\ n \in ToSet(toC) /\ ToSet(Tail(toC)) \subseteq ToSet(toC)
      /\ n.op # "cut" => \A q \in ToSet(Tail(toC)) : q.op = "cut"
  BY <1>1, TakenOff DEF Inv, Typed, Turn, OneTurn
<1>4. n.op = "get" => Abreast /\ Streaming
  BY <1>2, <1>3 DEF Inv, Turn, InStep, NoticeOk, Streaming
<1> HIDE DEF n
<1>5. /\ IsBdunk(d) /\ d.op = n.op /\ d.what = c.what /\ d.status = c.status
      /\ d.id = c.id /\ d.file = c.file /\ d.idx = c.idx
      /\ d.size52 = c.size52 /\ d.size91 = c.size91
  BY DEF Inv, Typed, IsBdunk, BdunkFields
<1> HIDE DEF d
<1>6. Names(d)
  BY <1>5 DEF Images, Names
<1>7. PICK p : r.out \in {<<>>, <<p>>} /\ Keeps(d, p, r.c)
  <2>1. PICK yes \in BOOLEAN : r = logic(d, yes)
    OBVIOUS
  <2> HIDE DEF r
  <2>2. \E p : r.out \in {<<>>, <<p>>} /\ Keeps(d, p, r.c)
    BY <1>5, <2>1, LogicNames
  <2>3. QED
    BY <2>2
<1>8. CASE n.op # "cut"
  <2>1. /\ ~Asking /\ ~Has("info") /\ ~Has("update") /\ ~Calling
        /\ \A q \in ToSet(toB) : q.op = "empty"
    BY <1>3, <1>8, TurnOf DEF Inv, Turn, Only, MacsTurn, PacketsTurn
  <2>2. d.op = "get" => Streaming /\ Holds(extract(d), Pos, Len(extract(d)))
    BY <1>4, <1>5, <1>6, ExtractHolds
  <2> HIDE DEF r
  <2>3. r.c.status # "crashed" => \A q \in ToSet(toC') : q.op = "cut"
    BY <1>1, <1>3, <1>8
  <2>4. QED
    BY <1>1, <1>5, <1>6, <1>7, <2>1, <2>2, <2>3, BdunkStored
<1>9. CASE n.op = "cut"
  <2>1. r = Write(d, Plain("empty"))
    BY <1>5, <1>9 DEF logic
  <2> DEFINE e == Plain("empty")
  <2>2. r.c = d /\ r.out \in {<<>>, <<e>>} /\ e.op = "empty"
    BY <2>1, Written DEF Plain
  <2> HIDE DEF r, e
  <2>3. /\ c' = d /\ b' = b /\ phase' = phase /\ wq' = wq /\ call' = call /\ SameSlots
        /\ conn' = TRUE /\ toB' = toB \o r.out /\ toC' = Tail(toC)
    BY <1>1, <1>2, <1>5, <2>2 DEF BdunkDoes, connected, chip, simp, flash, history, SameSlots
  <2>4. \A q \in ToSet(toB') : q \in ToSet(toB) \/ q.op = "empty"
    BY <2>2, <2>3, PacketSent DEF Inv, Typed, Turn, OneTurn
  <2>5. Streaming' => Streaming
    BY <1>2, <1>3, <2>3, <2>4 DEF Streaming, Asking, Has, Calling
  <2>6. QED
    BY <1>2, <1>5, <1>6, <2>3, <2>4, <2>5, ImagesKept
    DEF SameBytes, Has, Writing, Unanswered, Erasing, Erased
<1>10. QED
  BY <1>8, <1>9

-----------------------------------------------------------------------------
(* The theorem *)

LEMMA InitStored == Init => Images
<1> SUFFICES ASSUME Init PROVE Images
  OBVIOUS
<1>1. conn = FALSE /\ toB = <<>> /\ wq = <<>> /\ call = None /\ put = {} /\ c = Off
  BY DEF Init
<1>2. ToSet(toB) = {} /\ ToSet(wq) = {}
  BY <1>1, NothingIn
<1>3. ~Streaming /\ ~Has("update") /\ ~Writing
  BY <1>1, <1>2 DEF Streaming, Has, Writing
<1>4. StoredInPlace /\ Fresh /\ Names(c)
  BY <1>1 DEF StoredInPlace, Fresh, Names, Off, Launched
<1>5. QED
  BY <1>2, <1>3, <1>4 DEF Images, Announces, Streams, Carried, OwnReady, PeerReady

\* Every step leaves the bytes where they belong.
LEMMA StepStored == Timely /\ Inv /\ OnCourse /\ Kinds /\ Images /\ [Next]_vars => Images'
<1> SUFFICES ASSUME Timely, Inv, OnCourse, Kinds, Images, [Next]_vars PROVE Images'
  OBVIOUS
<1>1. CASE BluetoothThread
  BY <1>1, ThreadSteps, RxPlainStored, RxInfoStored, RxDataStored, RxEmptyStored
<1>2. CASE WorkQueue
  BY <1>2, SelfInfoStored, SelfUpdateStored, FlagStored, ProcRspStored, ProcReqStored,
     LinkEndsStored, BluetoothParamsStored DEF WorkQueue
<1>3. CASE Responded \/ Ichip \/ TxAborted \/ tmr_rsp_timeout_handler
  BY <1>3, AnsweredStored, IchipStored, TimeoutStored
<1>4. CASE Central
  BY <1>4, LinkEndsStored, ConnectStored, DidUpdateValueForStored DEF Central
<1>5. CASE LinkDrops \/ Reboot \/ Boot \/ UNCHANGED vars
  BY <1>5, LinkEndsStored, RebootStored, BootStored
<1>6. CASE \E op \in {"devinf", "done"} : IchipAsks(op)
  BY <1>6, IchipAsksStored
<1>7. QED
  BY <1>1, <1>2, <1>3, <1>4, <1>5, <1>6 DEF Next

\* What is programmed of an image is at the address where BDUNK has it, in the slot of the
\* chip that it is for: the packets that RxData collects in m_cmd_buffer, the blocks that
\* wk_self_update_handler and the ichip write, and the offset that goes with them stay
\* together, whatever fails, is refused or lost, and whenever the link drops.  The ichip
\* erases enough pages before; the slot of the 52, which nobody erases, must have been blank.
THEOREM InPlace == Timely /\ Apart => (Spec => []StoredInPlace)
<1> SUFFICES ASSUME Timely, Apart PROVE Spec => []StoredInPlace
  OBVIOUS
<1>1. Init => Inv /\ OnCourse /\ Kinds /\ Images
  BY InitSafe, InitOn, InitTyped, InitStored
<1>2. Inv /\ OnCourse /\ Kinds /\ Images /\ [Next]_vars => Inv' /\ OnCourse' /\ Kinds' /\ Images'
  BY StepSafe, StepOn, StepTyped, StepStored
<1>3. Images => StoredInPlace
  BY DEF Images
<1>4. QED
  BY <1>1, <1>2, <1>3, PTL DEF Spec
=============================================================================
