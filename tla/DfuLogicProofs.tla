--------------------------- MODULE DfuLogicProofs ---------------------------
(***************************************************************************)
(* Proofs about DfuLogic.tla, for all sizes of images and slots and any    *)
(* number of updates and failures, as long as no update is asked for while *)
(* another is under way.                                                   *)
(***************************************************************************)
EXTENDS DfuLogic, TLAPS

USE SizeAssumption, BoundAssumption

-----------------------------------------------------------------------------
(* The inductive invariant *)

Has(work) == work \in ToSet(dfu.queue)

Sleeping == nap.queue # "no" \/ nap.sms

\* What drives an update on is in one place only: a work item, a sleep, a download
\* or a transfer.  (The mcuboot flag of a 91 image may be set at any time.)
OneActivity ==
  /\ Has("helper") \/ Sleeping \/ Has("serial") \/ line # "idle" =>
       ~Has("http") /\ ~Has("flag") /\ fota = "none"
  /\ Has("helper") \/ Sleeping => ~Has("serial") /\ line = "idle"
  /\ Has("helper") => ~Sleeping
  /\ nap.sms => nap.queue = "no"
  /\ Has("serial") => line = "idle"
  /\ Has("http") => fota = "none"

\* The statics and the slot tell of the image that is under way.
TellsImage ==
  /\ Has("http") => dfu.type = dfu.file
  /\ fota # "none" => dfu.type = fota
  /\ Has("flag") /\ dfu.type = "52" =>
       slot.image = "52" /\ fota = "none" /\ ~Has("http")
  /\ Has("serial") \/ line = "out" => slot = [image |-> "52", flag |-> FALSE]
  /\ nap.queue = "done52" => dfu.more = "91"

SlotOf(image) == IF image = "52" THEN Slot52 ELSE Slot91

\* No available size is too large, and none is forgotten before the download.
SizesKnown ==
  /\ status = "lost" => "status" \in faults
  /\ "status" \notin faults =>
       /\ \A i \in Image : dfu.avail[i] <= SlotOf(i)
       /\ Has("http") => dfu.size[dfu.file] < SlotOf(dfu.file)
       /\ fota # "none" => dfu.size[fota] < SlotOf(fota)

IInv == TypeOK /\ OneActivity /\ TellsImage /\ SizesKnown

-----------------------------------------------------------------------------
(* The work queue *)

\* An element is appended to a sequence.
LEMMA Appended ==
  ASSUME NEW T, NEW s \in Seq(T), NEW x \in T
  PROVE  /\ Append(s, x) \in Seq(T)
         /\ ToSet(Append(s, x)) = ToSet(s) \cup {x}
         /\ IsInjective(s) /\ x \notin ToSet(s) => IsInjective(Append(s, x))
<1>1. /\ Append(s, x) \in Seq(T)
      /\ DOMAIN s = 1..Len(s) /\ DOMAIN Append(s, x) = 1..(Len(s) + 1)
      /\ \A i \in 1..Len(s) : Append(s, x)[i] = s[i]
      /\ Append(s, x)[Len(s) + 1] = x
      /\ Len(s) \in Nat
  OBVIOUS
<1> DEFINE a == Append(s, x)
<1> HIDE DEF a
<1>2. ToSet(a) = ToSet(s) \cup {x}
  BY <1>1 DEF ToSet, a
<1>3. IsInjective(s) /\ x \notin ToSet(s) => IsInjective(a)
  BY <1>1 DEF ToSet, IsInjective, a
<1>4. QED
  BY <1>1, <1>2, <1>3 DEF a

\* The first element of a sequence is taken off.
LEMMA TakenOff ==
  ASSUME NEW T, NEW s \in Seq(T), s # <<>>, IsInjective(s)
  PROVE  /\ Tail(s) \in Seq(T)
         /\ ToSet(Tail(s)) = ToSet(s) \ {Head(s)}
         /\ Head(s) \in ToSet(s)
         /\ IsInjective(Tail(s))
<1>1. /\ Tail(s) \in Seq(T)
      /\ Len(s) \in Nat \ {0}
      /\ DOMAIN s = 1..Len(s) /\ DOMAIN Tail(s) = 1..(Len(s) - 1)
      /\ \A i \in 1..(Len(s) - 1) : Tail(s)[i] = s[i + 1]
      /\ Head(s) = s[1]
  OBVIOUS
<1> DEFINE t == Tail(s)
           h == Head(s)
<1> HIDE DEF t, h
<1>2. h \in ToSet(s)
  BY <1>1 DEF ToSet, h
<1>3. IsInjective(t)
  BY <1>1 DEF IsInjective, t
<1>4. ToSet(t) = ToSet(s) \ {h}
  <2>1. \A y \in ToSet(t) : y \in ToSet(s) /\ y # h
    <3> SUFFICES ASSUME NEW i \in 1..(Len(s) - 1) PROVE t[i] \in ToSet(s) /\ t[i] # h
      BY <1>1 DEF ToSet, t
    <3>1. i + 1 \in DOMAIN s /\ 1 \in DOMAIN s /\ i + 1 # 1
      BY <1>1
    <3>2. QED
      BY <1>1, <3>1 DEF ToSet, IsInjective, t, h
  <2>2. \A y \in ToSet(s) : y # h => y \in ToSet(t)
    <3> SUFFICES ASSUME NEW i \in 1..Len(s), s[i] # h PROVE s[i] \in ToSet(t)
      BY <1>1 DEF ToSet
    <3>1. i # 1
      BY <1>1 DEF h
    <3>2. i - 1 \in DOMAIN t /\ t[i - 1] = s[i]
      BY <1>1, <3>1 DEF t
    <3>3. QED
      BY <3>2 DEF ToSet
  <2>3. QED
    BY <2>1, <2>2
<1>5. QED
  BY <1>1, <1>2, <1>3, <1>4 DEF t, h

\* The statics have their types and no work item is pending twice.
Statics(d) == d \in Dfu /\ IsInjective(d.queue)

\* Two values of the statics agree in everything but the queue.
SameButQueue(d, e) ==
  /\ e.more = d.more /\ e.type = d.type /\ e.channel = d.channel /\ e.file = d.file
  /\ e.downloading = d.downloading /\ e.size = d.size /\ e.avail = d.avail

\* What Submit does.
LEMMA Submitted ==
  ASSUME NEW d, Statics(d), NEW work \in Work, NEW e, e = Submit(d, work)
  PROVE  /\ Statics(e) /\ SameButQueue(d, e)
         /\ ToSet(e.queue) = ToSet(d.queue) \cup {work}
<1>1. CASE work \in ToSet(d.queue)
  BY <1>1 DEF Submit, SameButQueue
<1>2. CASE work \notin ToSet(d.queue)
  <2>1. e = [d EXCEPT !.queue = Append(d.queue, work)]
    BY <1>2 DEF Submit
  <2>2. d.queue \in Seq(Work)
    BY DEF Statics, Dfu
  <2> DEFINE q == Append(d.queue, work)
  <2>3. /\ q \in Seq(Work) /\ IsInjective(q)
        /\ ToSet(q) = ToSet(d.queue) \cup {work}
    BY <1>2, <2>2, Appended DEF Statics
  <2> HIDE DEF q
  <2>4. e = [d EXCEPT !.queue = q]
    BY <2>1 DEF q
  <2>5. e \in Dfu /\ e.queue = q /\ SameButQueue(d, e)
    BY <2>3, <2>4 DEF Statics, Dfu, SameButQueue
  <2>6. QED
    BY <2>3, <2>5 DEF Statics
<1>3. QED
  BY <1>1, <1>2

\* What is left when the first work item is taken off the queue.
LEMMA RestOfQueue ==
  ASSUME TypeOK, NEW work, Run(work)
  PROVE  /\ Statics(Rest) /\ SameButQueue(dfu, Rest)
         /\ ToSet(Rest.queue) = ToSet(dfu.queue) \ {work}
         /\ Has(work)
<1> DEFINE q == Tail(dfu.queue)
<1>1. /\ q \in Seq(Work) /\ IsInjective(q)
      /\ ToSet(q) = ToSet(dfu.queue) \ {work}
      /\ Has(work)
  BY TakenOff DEF TypeOK, Dfu, Run, Has
<1> HIDE DEF q
<1>2. Rest = [dfu EXCEPT !.queue = q]
  BY DEF Rest, q
<1>3. Rest \in Dfu /\ Rest.queue = q /\ SameButQueue(dfu, Rest)
  BY <1>1, <1>2 DEF TypeOK, Dfu, SameButQueue
<1>4. QED
  BY <1>1, <1>3 DEF Statics

-----------------------------------------------------------------------------
(* The functions *)

\* A decision submits at most a download, of an image that fits, and makes the type
\* that of the image.
LEMMA LogikHandler ==
  ASSUME NEW d, Statics(d), NEW e, e = logik_handler(d)
  PROVE  /\ Statics(e) /\ e.size = d.size /\ e.avail = d.avail
         /\ ToSet(d.queue) \subseteq ToSet(e.queue)
         /\ ToSet(e.queue) \subseteq ToSet(d.queue) \cup {"http"}
         /\ "http" \in ToSet(e.queue) \ ToSet(d.queue) =>
              /\ e.file \in Image /\ e.type = e.file
              /\ d.size[e.file] < d.avail[e.file]
              /\ d.more = "91" => e.file = "91"
<1>1. CASE d.more = "none" \/ ~Fits(d)
  BY <1>1 DEF logik_handler
<1>2. CASE ~(d.more = "none" \/ ~Fits(d))
  <2> DEFINE image == Next52Or91(d)
             rest == IF d.more = "both" THEN "91" ELSE "none"
             d1 == [d EXCEPT !.type = image, !.more = rest]
             d2 == [d1 EXCEPT !.channel = "http"]
             d3 == Submit(d2, "http")
             d4 == [d3 EXCEPT !.file = image, !.downloading = TRUE]
  <2>1. /\ image \in Image /\ rest \in Update
        /\ d.more = "91" => image = "91"
        /\ d.size[image] < d.avail[image]
    <3>1. image \in Image /\ rest \in Update /\ (d.more = "91" => image = "91")
      BY DEF Next52Or91, Image, Update
    <3>2. d.size[image] \in Nat /\ d.avail[image] \in Nat
      BY <3>1 DEF Statics, Dfu
    <3>3. QED
      BY <1>2, <3>1, <3>2 DEF Fits
  <2>2. e = IF d2.downloading THEN d2 ELSE d4
    BY <1>2 DEF logik_handler, http_download_start, http_client_download
  <2> HIDE DEF image, rest
  <2>3. /\ d2 \in Dfu /\ d2.queue = d.queue /\ d2.size = d.size /\ d2.avail = d.avail
        /\ d2.type = image
    BY <2>1 DEF Statics, Dfu
  <2> HIDE DEF d2
  <2>4. Statics(d2)
    BY <2>3 DEF Statics
  <2>5. /\ Statics(d3) /\ SameButQueue(d2, d3)
        /\ ToSet(d3.queue) = ToSet(d.queue) \cup {"http"}
    BY <2>3, <2>4, Submitted DEF Work
  <2> HIDE DEF d3
  <2>6. /\ d4 \in Dfu /\ d4.queue = d3.queue /\ d4.size = d.size /\ d4.avail = d.avail
        /\ d4.type = image /\ d4.file = image
    BY <2>1, <2>3, <2>5 DEF Statics, SameButQueue, Dfu
  <2>7. CASE d2.downloading
    BY <2>2, <2>3, <2>4, <2>7
  <2>8. CASE ~d2.downloading
    <3>1. Statics(d4)
      BY <2>5, <2>6 DEF Statics
    <3>2. QED
      BY <2>1, <2>2, <2>5, <2>6, <2>8, <3>1
  <2>9. QED
    BY <2>7, <2>8
<1>3. QED
  BY <1>1, <1>2

\* A 91 image is taken to be in the slot.
LEMMA FlashDone92 ==
  ASSUME NEW d, Statics(d), NEW e, e = flash_done_92(d)
  PROVE  /\ Statics(e) /\ e.type = "91" /\ e.file = d.file /\ e.more = d.more
         /\ e.size = d.size /\ e.avail = d.avail
         /\ ToSet(e.queue) = ToSet(d.queue) \cup {"flag"}
<1> DEFINE d1 == [d EXCEPT !.type = "91", !.channel = "serial"]
<1>1. /\ d1 \in Dfu /\ d1.queue = d.queue /\ d1.size = d.size /\ d1.avail = d.avail
      /\ d1.type = "91" /\ d1.channel = "serial" /\ d1.file = d.file /\ d1.more = d.more
  BY DEF Statics, Dfu, Image
<1> HIDE DEF d1
<1>2. Statics(d1)
  BY <1>1 DEF Statics
<1>3. e = Submit(d1, "flag")
  BY <1>1 DEF flash_done_92, dfu_file_ready, d1
<1>4. QED
  BY <1>1, <1>2, <1>3, Submitted DEF Work, SameButQueue

\* The sizes that are found out are not too large.
LEMMA MeasuredSizes ==
  ASSUME NEW d, Statics(d), NEW e, e = Measured(d)
  PROVE  /\ Statics(e) /\ e.queue = d.queue /\ e.more = d.more /\ e.type = d.type
         /\ e.file = d.file /\ e.size = d.size
         /\ \A i \in Image : d.avail[i] <= SlotOf(i) => e.avail[i] <= SlotOf(i)
<1> DEFINE a == [i \in Image |-> IF d.avail[i] # 0 THEN d.avail[i]
                               ELSE IF i = "52" THEN Placeholder ELSE Slot91]
<1>1. d.avail \in [Image -> Nat]
  BY DEF Statics, Dfu
<1>2. a \in [Image -> Nat] /\ \A i \in Image : d.avail[i] <= SlotOf(i) => a[i] <= SlotOf(i)
  BY <1>1 DEF SlotOf, Image
<1>3. e = [d EXCEPT !.avail = a]
  BY DEF Measured
<1> HIDE DEF a
<1>4. /\ e \in Dfu /\ e.queue = d.queue /\ e.more = d.more /\ e.type = d.type
      /\ e.file = d.file /\ e.size = d.size /\ e.avail = a
  BY <1>2, <1>3 DEF Statics, Dfu
<1>5. QED
  BY <1>2, <1>4 DEF Statics

-----------------------------------------------------------------------------
(* Each step keeps the invariant *)

\* A fault is one of those listed, and faults are not forgotten.
LEMMA Struck ==
  ASSUME TypeOK, NEW kind \in Fault, Strike(kind)
  PROVE  faults' \in SUBSET Fault /\ faults \subseteq faults' /\ kind \in faults'
BY DEF TypeOK, Strike

\* get_device_status does no more to the statics than Measured.
LEMMA DeviceStatus ==
  ASSUME TypeOK, NEW d, get_device_status(d)
  PROVE  /\ dfu' = Measured(d) /\ status' \in {status, "asked"}
         /\ faults' \in SUBSET Fault /\ faults \subseteq faults'
<1>1. CASE d.avail["52"] = 0 /\ status = "none"
  BY <1>1, Struck DEF get_device_status, Fault, TypeOK
<1>2. CASE ~(d.avail["52"] = 0 /\ status = "none")
  BY <1>2 DEF get_device_status, TypeOK
<1>3. QED
  BY <1>1, <1>2

\* Nothing is pending in an empty queue.
LEMMA NothingPending ==
  ASSUME NEW q, q = <<>>
  PROVE  ToSet(q) = {}
BY DEF ToSet

\* An update is stored.
LEMMA StoredTypes ==
  ASSUME Statics(dfu), NEW u \in Update \ {"none"}, NEW size \in [Image -> Nat],
         NEW e, e = Stored(u, size)
  PROVE  /\ Statics(e) /\ e.queue = dfu.queue /\ e.type = dfu.type /\ e.file = dfu.file
         /\ e.avail = dfu.avail
<1> DEFINE d == dfu
           sz == [i \in Image |-> IF i \in Images(u) THEN size[i] ELSE d.size[i]]
<1>1. sz \in [Image -> Nat]
  BY DEF Statics, Dfu
<1> HIDE DEF sz
<1>2. e = [d EXCEPT !.more = u, !.size = sz]
  BY DEF sz, Stored
<1>3. e \in Dfu /\ e.queue = d.queue /\ e.type = d.type /\ e.file = d.file /\ e.avail = d.avail
  BY <1>1, <1>2 DEF Statics, Dfu
<1>4. QED
  BY <1>3 DEF Statics

\* The initial states.
LEMMA InitSafe == Init => IInv
<1> SUFFICES ASSUME Init PROVE IInv
  OBVIOUS
<1> USE DEF Init
<1>1. dfu \in Dfu
  BY DEF Dfu, Image, Update
<1>2. IsInjective(dfu.queue)
  BY DEF IsInjective
<1>3. TypeOK
  <2>1. nap \in Nap
    BY DEF Nap
  <2>2. slot \in Slot
    BY DEF Slot
  <2>3. sent \in BOOLEAN /\ want \in SUBSET Image /\ faults \in SUBSET Fault
    OBVIOUS
  <2>4. /\ phase \in {"boot", "up", "half", "bare", "halted"}
        /\ status \in {"none", "asked", "lost"}
        /\ fota \in Image \cup {"none"} /\ line \in {"idle", "out", "in"}
        /\ asks \in 0..MaxAsks
    OBVIOUS
  <2> HIDE DEF Init
  <2>5. QED
    BY <1>1, <1>2, <2>1, <2>2, <2>3, <2>4 DEF TypeOK
<1>4. ToSet(dfu.queue) = {}
  BY NothingPending
<1>5. OneActivity /\ TellsImage
  BY <1>4 DEF OneActivity, TellsImage, Has, Sleeping
<1>6. SizesKnown
  BY <1>4 DEF SizesKnown, Has, SlotOf, Image
<1>7. QED
  BY <1>3, <1>5, <1>6 DEF IInv

\* Starting, with or without LTE.
LEMMA BootSafe ==
  ASSUME IInv, Boot
  PROVE  IInv'
<1>1. /\ phase' \in {"up", "half", "bare"}
      /\ faults' \in SUBSET Fault /\ faults \subseteq faults'
  BY Struck DEF IInv, TypeOK, Boot, initalize_dfu_module, http_client_init,
     http_client_connect, Fault
<1>2. UNCHANGED <<dfu, nap, status, fota, slot, line, want, sent, asks>>
  BY DEF Boot, history
<1>3. QED
  BY <1>1, <1>2 DEF IInv, TypeOK, OneActivity, TellsImage, SizesKnown, Has, Sleeping

\* An update asked for by SMS.
LEMMA SmsSafe ==
  ASSUME ~Overlap, IInv, NEW u \in Update \ {"none"}, NEW size \in [Image -> Sizes],
         sms_callback(u, size)
  PROVE  IInv'
<1> DEFINE d == parse_sms(u, size)
<1>1. Statics(dfu) /\ TypeOK
  BY DEF IInv, TypeOK, Statics
<1>2. size \in [Image -> Nat]
  OBVIOUS
<1>3. /\ Statics(d) /\ d.queue = dfu.queue /\ d.type = dfu.type /\ d.file = dfu.file
      /\ d.avail = dfu.avail
  BY <1>1, <1>2, StoredTypes DEF parse_sms
<1> HIDE DEF d
<1>4. /\ dfu' = Measured(d) /\ status' \in {status, "asked"}
      /\ faults' \in SUBSET Fault /\ faults \subseteq faults'
  BY <1>1, DeviceStatus DEF sms_callback, d
<1>5. /\ Statics(dfu') /\ dfu'.queue = dfu.queue
      /\ \A i \in Image : dfu.avail[i] <= SlotOf(i) => dfu'.avail[i] <= SlotOf(i)
  BY <1>3, <1>4, MeasuredSizes
<1>6. /\ dfu.queue = <<>> /\ fota = "none" /\ line = "idle" /\ nap.queue = "no"
      /\ asks < MaxAsks
  BY DEF sms_callback, MayAsk, Quiet
<1>7. /\ nap' = [nap EXCEPT !.sms = TRUE] /\ asks' = asks + 1 /\ want' = {} /\ sent' = FALSE
      /\ UNCHANGED <<phase, fota, slot, line>>
  BY DEF sms_callback
<1>8. ToSet(dfu'.queue) = {}
  BY <1>5, <1>6, NothingPending
<1>9. nap' \in Nap /\ nap'.queue = "no"
  BY <1>1, <1>6, <1>7 DEF TypeOK, Nap
<1>10. TypeOK'
  <2>1. sent' \in BOOLEAN /\ want' \in SUBSET Image
    BY <1>7
  <2>2. asks' \in 0..MaxAsks
    BY <1>1, <1>6, <1>7 DEF TypeOK
  <2>3. UNCHANGED <<phase, fota, slot, line>>
    BY <1>7
  <2>4. QED
    BY <1>1, <1>4, <1>5, <1>9, <2>1, <2>2, <2>3 DEF TypeOK, Statics
<1>11. OneActivity' /\ TellsImage'
  BY <1>6, <1>7, <1>8, <1>9 DEF OneActivity, TellsImage, Has, Sleeping
<1>12. SizesKnown'
  BY <1>4, <1>5, <1>6, <1>7, <1>8 DEF IInv, SizesKnown, Has
<1>13. QED
  BY <1>10, <1>11, <1>12 DEF IInv

\* An update asked for with the button or by the timer.
LEMMA ButtonSafe ==
  ASSUME ~Overlap, IInv, button_handler
  PROVE  IInv'
<1>1. Statics(dfu) /\ TypeOK
  BY DEF IInv, TypeOK, Statics
<1>2. /\ Statics(dfu') /\ SameButQueue(dfu, dfu')
      /\ ToSet(dfu'.queue) = ToSet(dfu.queue) \cup {"helper"}
  BY <1>1, Submitted DEF button_handler, Work
<1>3. /\ dfu.queue = <<>> /\ fota = "none" /\ line = "idle" /\ nap.queue = "no" /\ ~nap.sms
      /\ asks < MaxAsks
  BY DEF button_handler, MayAsk, Quiet
<1>4. asks' = asks + 1 /\ UNCHANGED <<phase, nap, status, fota, slot, line, sent, want, faults>>
  BY DEF button_handler
<1>5. ToSet(dfu'.queue) = {"helper"}
  BY <1>2, <1>3, NothingPending
<1>6. TypeOK'
  BY <1>1, <1>2, <1>3, <1>4 DEF TypeOK, Statics
<1>7. OneActivity' /\ TellsImage'
  BY <1>3, <1>4, <1>5 DEF OneActivity, TellsImage, Has, Sleeping
<1>8. SizesKnown'
  BY <1>2, <1>3, <1>4, <1>5 DEF IInv, SizesKnown, Has, SameButQueue
<1>9. QED
  BY <1>6, <1>7, <1>8 DEF IInv

\* The bchip begins to write a 91 image.
LEMMA BleBeginsSafe ==
  ASSUME ~Overlap, IInv, BleBegins
  PROVE  IInv'
<1>1. /\ dfu.queue = <<>> /\ fota = "none" /\ line = "idle" /\ nap.queue = "no" /\ ~nap.sms
      /\ asks < MaxAsks
  BY DEF BleBegins, MayAsk, Quiet
<1>2. /\ asks' = asks + 1 /\ line' = "in" /\ want' = {"91"}
      /\ UNCHANGED <<phase, dfu, nap, status, fota, sent, faults>>
  BY DEF BleBegins, module
<1>3. slot' \in Slot
  <2>1. slot.flag \in BOOLEAN
    BY DEF IInv, TypeOK, Slot
  <2>2. PICK flag \in BOOLEAN : slot' = [image |-> "part", flag |-> flag]
    BY <2>1 DEF BleBegins, Overwritten
  <2>3. QED
    BY <2>2 DEF Slot
<1>4. ToSet(dfu.queue) = {}
  BY <1>1, NothingPending
<1>5. TypeOK'
  BY <1>1, <1>2, <1>3 DEF IInv, TypeOK, Image
<1>6. OneActivity' /\ TellsImage'
  BY <1>1, <1>2, <1>4 DEF OneActivity, TellsImage, Has, Sleeping
<1>7. SizesKnown'
  BY <1>2 DEF IInv, SizesKnown, Has
<1>8. QED
  BY <1>5, <1>6, <1>7 DEF IInv

-----------------------------------------------------------------------------
(* ... the work items ... *)

\* The sleep that follows askserver.
LEMMA AskserverSafe ==
  ASSUME IInv, askserver
  PROVE  IInv'
<1>1. Statics(dfu) /\ TypeOK
  BY DEF IInv, TypeOK, Statics
<1>2. PICK u \in Update \ {"none"} : get_device_status([serverresp(u) EXCEPT !.queue = Tail(@)])
  BY DEF askserver
<1> DEFINE d == serverresp(u)
           d1 == [d EXCEPT !.queue = Tail(@)]
<1>3. /\ Statics(d) /\ d.queue = dfu.queue /\ d.type = dfu.type /\ d.file = dfu.file
      /\ d.avail = dfu.avail
  BY <1>1, StoredTypes DEF serverresp
<1> HIDE DEF d
<1>4. /\ dfu.queue # <<>> /\ nap.queue = "no" /\ Head(dfu.queue) = "helper"
      /\ dfu.queue \in Seq(Work)
  BY <1>1 DEF askserver, Run, Statics, Dfu
<1> DEFINE q == Tail(dfu.queue)
<1>5. /\ q \in Seq(Work) /\ IsInjective(q) /\ ToSet(q) = ToSet(dfu.queue) \ {"helper"}
      /\ "helper" \in ToSet(dfu.queue)
  BY <1>1, <1>4, TakenOff DEF Statics
<1> HIDE DEF q
<1>6. d1 = [d EXCEPT !.queue = q]
  BY <1>3 DEF q
<1>7. /\ Statics(d1) /\ d1.queue = q /\ d1.avail = dfu.avail
  BY <1>3, <1>5, <1>6 DEF Statics, Dfu
<1> HIDE DEF d1
<1>8. /\ dfu' = Measured(d1) /\ status' \in {status, "asked"}
      /\ faults' \in SUBSET Fault /\ faults \subseteq faults'
  BY <1>1, <1>2, DeviceStatus DEF d, d1
<1>9. /\ Statics(dfu') /\ dfu'.queue = q
      /\ \A i \in Image : dfu.avail[i] <= SlotOf(i) => dfu'.avail[i] <= SlotOf(i)
  BY <1>7, <1>8, MeasuredSizes
<1>10. /\ nap' = [nap EXCEPT !.queue = "ask"] /\ want' = {} /\ sent' = FALSE
       /\ UNCHANGED <<phase, fota, slot, line, asks>>
  BY DEF askserver
<1>11. /\ ~nap.sms /\ fota = "none" /\ line = "idle"
       /\ ToSet(q) \cap {"helper", "http", "flag", "serial"} = {}
  BY <1>5 DEF IInv, OneActivity, Has, Sleeping
<1>12. nap' \in Nap /\ nap'.queue = "ask" /\ nap'.sms = nap.sms
  BY <1>1, <1>10 DEF TypeOK, Nap
<1>13. TypeOK'
  <2>1. sent' \in BOOLEAN /\ want' \in SUBSET Image
    BY <1>10
  <2>2. UNCHANGED <<phase, fota, slot, line, asks>>
    BY <1>10
  <2>3. QED
    BY <1>1, <1>8, <1>9, <1>12, <2>1, <2>2 DEF TypeOK, Statics
<1>14. OneActivity' /\ TellsImage'
  <2>1. /\ nap'.queue = "ask" /\ ~nap'.sms
        /\ fota' = "none" /\ line' = "idle"
        /\ ~Has("helper")' /\ ~Has("http")' /\ ~Has("flag")' /\ ~Has("serial")'
    BY <1>9, <1>10, <1>11, <1>12 DEF Has
  <2>2. QED
    BY <2>1 DEF OneActivity, TellsImage, Sleeping
<1>15. SizesKnown'
  BY <1>8, <1>9, <1>10, <1>11 DEF IInv, SizesKnown, Has
<1>16. QED
  BY <1>13, <1>14, <1>15 DEF IInv

\* The size of the slot of the bchip arrives.
LEMMA DeviceInfoSafe ==
  ASSUME IInv, rsp_dev_fwinfo52
  PROVE  IInv'
<1>1. TypeOK
  BY DEF IInv
<1>2. /\ Statics(Rest) /\ SameButQueue(dfu, Rest)
      /\ ToSet(Rest.queue) = ToSet(dfu.queue) \ {"devinf"}
  BY <1>1, RestOfQueue DEF rsp_dev_fwinfo52
<1> DEFINE r == Rest
<1> HIDE DEF r
<1>3. /\ Statics(dfu') /\ dfu'.queue = r.queue /\ dfu'.type = dfu.type /\ dfu'.file = dfu.file
      /\ dfu'.more = dfu.more /\ dfu'.size = dfu.size
      /\ \A i \in Image : dfu'.avail[i] = dfu.avail[i] \/ (i = "52" /\ dfu'.avail[i] = Slot52)
  <2>1. CASE phase = "up"
    <3> DEFINE a == [r.avail EXCEPT !["52"] = Slot52]
    <3>1. dfu' = [r EXCEPT !.avail = a]
      BY <2>1 DEF rsp_dev_fwinfo52, req_dev_fwinfo52, r
    <3>2. r.avail \in [Image -> Nat] /\ r.avail = dfu.avail
      BY <1>2 DEF r, Statics, Dfu, SameButQueue
    <3>3. a \in [Image -> Nat] /\ \A i \in Image : a[i] = dfu.avail[i] \/ (i = "52" /\ a[i] = Slot52)
      BY <3>2
    <3> HIDE DEF a
    <3>4. /\ dfu' \in Dfu /\ dfu'.queue = r.queue /\ dfu'.type = r.type /\ dfu'.file = r.file
          /\ dfu'.more = r.more /\ dfu'.size = r.size /\ dfu'.avail = a
      BY <1>2, <3>1, <3>3 DEF r, Statics, Dfu
    <3>5. QED
      BY <1>2, <3>3, <3>4 DEF Statics, SameButQueue, r
  <2>2. CASE phase # "up"
    BY <1>2, <2>2 DEF rsp_dev_fwinfo52, SameButQueue, r
  <2>3. QED
    BY <2>1, <2>2
<1>4. UNCHANGED <<phase, nap, status, fota, slot, line, want, faults, sent, asks>>
  BY DEF rsp_dev_fwinfo52, history
<1>5. TypeOK'
  BY <1>1, <1>3, <1>4 DEF TypeOK, Statics
<1>6. \A w \in {"helper", "http", "flag", "serial"} : w \in ToSet(dfu'.queue) <=> w \in ToSet(dfu.queue)
  BY <1>2, <1>3 DEF r
<1>7. OneActivity' /\ TellsImage'
  BY <1>3, <1>4, <1>6 DEF IInv, OneActivity, TellsImage, Has, Sleeping
<1>8. SizesKnown'
  BY <1>3, <1>4, <1>6 DEF IInv, SizesKnown, Has, SlotOf
<1>9. QED
  BY <1>5, <1>7, <1>8 DEF IInv

\* A download begins, or fails to.
LEMMA DownloadSafe ==
  ASSUME IInv, http_download_handler
  PROVE  IInv'
<1>1. TypeOK
  BY DEF IInv
<1>2. /\ Statics(dfu') /\ SameButQueue(dfu, dfu')
      /\ ToSet(dfu'.queue) = ToSet(dfu.queue) \ {"http"} /\ Has("http")
  BY <1>1, RestOfQueue DEF http_download_handler
<1>3. /\ fota = "none" /\ dfu.type = dfu.file /\ dfu.type \in Image
      /\ ~Has("helper") /\ ~Sleeping /\ ~Has("serial") /\ line = "idle"
      /\ Has("flag") => dfu.type = "91"
  <2>1. dfu.type \in Image
    BY <1>1 DEF TypeOK, Dfu
  <2>2. QED
    BY <1>2, <2>1 DEF IInv, OneActivity, TellsImage, Image
<1>4. UNCHANGED <<nap, status, line, sent, asks>> /\ phase' \in {phase, "halted"}
  BY DEF http_download_handler, history
<1>5. /\ fota' \in {"none", dfu.file} /\ slot' \in Slot
      /\ want' \in SUBSET Image /\ faults' \in SUBSET Fault /\ faults \subseteq faults'
  <2>1. CASE fota' = dfu.file /\ Overwritten /\ NoStrike
    <3>1. slot.flag \in BOOLEAN
      BY <1>1 DEF TypeOK, Slot
    <3>2. PICK flag \in BOOLEAN : slot' = [image |-> "part", flag |-> flag]
      BY <2>1, <3>1 DEF Overwritten
    <3>3. slot' \in Slot
      BY <3>2 DEF Slot
    <3>4. QED
      BY <1>1, <2>1, <3>3 DEF TypeOK, NoStrike
  <2>2. CASE (StrikeUpdate("start") \/ NoStrike) /\ UNCHANGED <<fota, slot>>
    BY <1>1, <1>3, <2>2, Struck DEF StrikeUpdate, NoStrike, TypeOK, Fault
  <2>3. QED
    BY <2>1, <2>2 DEF http_download_handler
<1>6. TypeOK'
  BY <1>1, <1>2, <1>3, <1>4, <1>5 DEF TypeOK, Statics
<1>7. OneActivity' /\ TellsImage'
  BY <1>2, <1>3, <1>4, <1>5 DEF IInv, OneActivity, TellsImage, Has, Sleeping, SameButQueue, Image
<1>8. SizesKnown'
  BY <1>2, <1>3, <1>4, <1>5 DEF IInv, SizesKnown, Has, SameButQueue
<1>9. QED
  BY <1>6, <1>7, <1>8 DEF IInv

\* The mcuboot flag is removed or set.
LEMMA FlagSafe ==
  ASSUME IInv, wk_update_mcuboot_flag_handler
  PROVE  IInv'
<1>1. TypeOK
  BY DEF IInv
<1> DEFINE r == Rest
<1>2. /\ Statics(r) /\ SameButQueue(dfu, r)
      /\ ToSet(r.queue) = ToSet(dfu.queue) \ {"flag"} /\ Has("flag")
  BY <1>1, RestOfQueue DEF wk_update_mcuboot_flag_handler
<1>3. UNCHANGED <<phase, nap, status, fota, line, want, faults, sent, asks>>
  BY DEF wk_update_mcuboot_flag_handler, history
<1>4. ~Has("helper") /\ ~Sleeping /\ ~Has("serial") /\ line = "idle"
  BY <1>2 DEF IInv, OneActivity
<1>5. slot.image \in Image \cup {"part"}
  BY <1>1 DEF TypeOK, Slot
<1>6. CASE dfu.type = "52"
  <2>1. slot' = [image |-> "52", flag |-> FALSE] /\ fota = "none" /\ ~Has("http")
    <3>1. slot.image = "52" /\ fota = "none" /\ ~Has("http")
      BY <1>2, <1>6 DEF IInv, TellsImage
    <3>2. QED
      BY <1>1, <1>6, <3>1 DEF wk_update_mcuboot_flag_handler, app_flash_erase_from_end, TypeOK, Slot
  <2>2. dfu' = Submit(r, "serial")
    BY <1>6 DEF wk_update_mcuboot_flag_handler
  <2> HIDE DEF r
  <2>3. /\ Statics(dfu') /\ SameButQueue(r, dfu')
        /\ ToSet(dfu'.queue) = (ToSet(dfu.queue) \ {"flag"}) \cup {"serial"}
    BY <1>2, <2>2, Submitted DEF Work
  <2>4. slot' \in Slot
    BY <2>1 DEF Slot, Image
  <2>5. TypeOK'
    BY <1>1, <1>3, <2>3, <2>4 DEF TypeOK, Statics
  <2>6. OneActivity'
    BY <1>3, <1>4, <2>1, <2>3 DEF IInv, OneActivity, Has, Sleeping
  <2>7. TellsImage'
    BY <1>2, <1>3, <1>4, <2>1, <2>3 DEF IInv, TellsImage, Has, Sleeping, SameButQueue
  <2>8. SizesKnown'
    BY <1>2, <1>3, <2>1, <2>3 DEF IInv, SizesKnown, Has, SameButQueue
  <2>9. QED
    BY <2>5, <2>6, <2>7, <2>8 DEF IInv
<1>7. CASE dfu.type # "52"
  <2>1. dfu' = r /\ slot' \in Slot
    <3>1. dfu' = r /\ slot' = [slot EXCEPT !.flag = TRUE]
      BY <1>7 DEF wk_update_mcuboot_flag_handler
    <3>2. QED
      BY <1>1, <3>1 DEF TypeOK, Slot
  <2> HIDE DEF r
  <2>2. TypeOK'
    BY <1>1, <1>2, <1>3, <2>1 DEF TypeOK, Statics
  <2>3. OneActivity'
    BY <1>2, <1>3, <1>4, <2>1 DEF IInv, OneActivity, Has, Sleeping
  <2>4. TellsImage'
    BY <1>2, <1>3, <1>4, <1>7, <2>1 DEF IInv, TellsImage, Has, Sleeping, SameButQueue
  <2>5. SizesKnown'
    BY <1>2, <1>3, <2>1 DEF IInv, SizesKnown, Has, SameButQueue
  <2>6. QED
    BY <2>2, <2>3, <2>4, <2>5 DEF IInv
<1>8. QED
  BY <1>6, <1>7

\* The transfer to the bchip begins, or is refused.
LEMMA SerialSafe ==
  ASSUME IInv, wk_serial_dfu_handler
  PROVE  IInv'
<1>1. TypeOK
  BY DEF IInv
<1> DEFINE r == Rest
<1>2. /\ Statics(r) /\ SameButQueue(dfu, r)
      /\ ToSet(r.queue) = ToSet(dfu.queue) \ {"serial"} /\ Has("serial")
  BY <1>1, RestOfQueue DEF wk_serial_dfu_handler
<1>3. PICK n \in Sizes : dfu' = [r EXCEPT !.size["52"] = n]
  BY DEF wk_serial_dfu_handler
<1> HIDE DEF r
<1> DEFINE sz == [r.size EXCEPT !["52"] = n]
<1>4. r.size \in [Image -> Nat] /\ n \in Nat
  BY <1>2 DEF Statics, Dfu
<1>5. sz \in [Image -> Nat] /\ dfu' = [r EXCEPT !.size = sz]
  BY <1>3, <1>4
<1> HIDE DEF sz
<1>6. /\ Statics(dfu') /\ dfu'.queue = r.queue /\ dfu'.type = dfu.type /\ dfu'.file = dfu.file
      /\ dfu'.more = dfu.more /\ dfu'.avail = dfu.avail
  BY <1>2, <1>5 DEF Statics, Dfu, SameButQueue
<1>7. UNCHANGED <<phase, nap, status, fota, slot, faults, sent, asks>>
  BY DEF wk_serial_dfu_handler, history
<1>8. line' \in {line, "out"} /\ want' \in SUBSET Image
  BY <1>1 DEF wk_serial_dfu_handler, TypeOK
<1>9. /\ ~Has("helper") /\ ~Sleeping /\ line = "idle" /\ fota = "none"
      /\ ~Has("http") /\ ~Has("flag") /\ slot = [image |-> "52", flag |-> FALSE]
  BY <1>2 DEF IInv, OneActivity, TellsImage
<1>10. TypeOK'
  BY <1>1, <1>6, <1>7, <1>8 DEF TypeOK, Statics
<1>11. OneActivity' /\ TellsImage'
  BY <1>2, <1>6, <1>7, <1>8, <1>9 DEF OneActivity, TellsImage, Has, Sleeping
<1>12. SizesKnown'
  BY <1>2, <1>6, <1>7, <1>9 DEF IInv, SizesKnown, Has
<1>13. QED
  BY <1>10, <1>11, <1>12 DEF IInv

-----------------------------------------------------------------------------
(* ... what the bchip, the timers and the other parts report ... *)

\* The answer about the slot of the bchip is there.
LEMMA AnsweredSafe ==
  ASSUME IInv, Answered
  PROVE  IInv'
<1>1. TypeOK /\ Statics(dfu)
  BY DEF IInv, TypeOK, Statics
<1>2. /\ Statics(dfu') /\ SameButQueue(dfu, dfu')
      /\ ToSet(dfu'.queue) = ToSet(dfu.queue) \cup {"devinf"}
  BY <1>1, Submitted DEF Answered, Work
<1>3. status' = "none" /\ UNCHANGED <<phase, nap, fota, slot, line, want, faults, sent, asks>>
  BY DEF Answered, history
<1>4. \A w \in {"helper", "http", "flag", "serial"} : w \in ToSet(dfu'.queue) <=> w \in ToSet(dfu.queue)
  BY <1>2
<1>5. TypeOK'
  BY <1>1, <1>2, <1>3 DEF TypeOK, Statics
<1>6. OneActivity' /\ TellsImage' /\ SizesKnown'
  BY <1>2, <1>3, <1>4
  DEF IInv, OneActivity, TellsImage, SizesKnown, Has, Sleeping, SameButQueue
<1>7. QED
  BY <1>5, <1>6 DEF IInv

\* It is lost.
LEMMA LostSafe ==
  ASSUME IInv, Lost
  PROVE  IInv'
<1>1. faults' \in SUBSET Fault /\ faults \subseteq faults' /\ "status" \in faults'
  BY Struck DEF IInv, Lost, Fault
<1>2. status' = "lost" /\ UNCHANGED <<phase, dfu, nap, fota, slot, line, want, sent, asks>>
  BY DEF Lost, module, history
<1>3. QED
  BY <1>1, <1>2 DEF IInv, TypeOK, OneActivity, TellsImage, SizesKnown, Has, Sleeping

\* The request for it times out.
LEMMA StatusTimeoutSafe ==
  ASSUME IInv, StatusTimeout
  PROVE  IInv'
<1>1. TypeOK /\ Statics(dfu) /\ "status" \in faults
  BY DEF IInv, TypeOK, Statics, SizesKnown, StatusTimeout
<1>2. /\ Statics(dfu') /\ dfu'.queue = dfu.queue /\ dfu'.type = dfu.type
      /\ dfu'.file = dfu.file /\ dfu'.more = dfu.more
  <2>1. CASE phase = "up"
    <3>1. PICK n \in Garbage : dfu' = [dfu EXCEPT !.avail["52"] = n]
      BY <2>1 DEF StatusTimeout
    <3>2. n \in Nat
      BY DEF Garbage
    <3> DEFINE a == [dfu.avail EXCEPT !["52"] = n]
    <3>3. a \in [Image -> Nat] /\ dfu' = [dfu EXCEPT !.avail = a]
      BY <1>1, <3>1, <3>2 DEF Statics, Dfu
    <3> HIDE DEF a
    <3>4. QED
      BY <1>1, <3>3 DEF Statics, Dfu
  <2>2. CASE phase # "up"
    BY <1>1, <2>2 DEF StatusTimeout
  <2>3. QED
    BY <2>1, <2>2
<1>3. status' = "none" /\ UNCHANGED <<phase, nap, fota, slot, line, want, faults, sent, asks>>
  BY DEF StatusTimeout, history
<1>4. TypeOK'
  BY <1>1, <1>2, <1>3 DEF TypeOK, Statics
<1>5. OneActivity' /\ TellsImage' /\ SizesKnown'
  BY <1>1, <1>2, <1>3 DEF IInv, OneActivity, TellsImage, SizesKnown, Has, Sleeping
<1>6. QED
  BY <1>4, <1>5 DEF IInv

\* What is wanted stays a set of images.
LEMMA DecidedType ==
  ASSUME want \in SUBSET Image, NEW d, Statics(d)
  PROVE  Decided(d) \in SUBSET Image
BY DEF Decided, Images, Statics, Dfu, Update, Image

\* The SMS thread decides after its sleep.
LEMMA WakeSmsSafe ==
  ASSUME IInv, WakeSms
  PROVE  IInv'
<1>1. TypeOK /\ Statics(dfu)
  BY DEF IInv, TypeOK, Statics
<1>2. /\ Statics(dfu') /\ dfu'.size = dfu.size /\ dfu'.avail = dfu.avail
      /\ ToSet(dfu.queue) \subseteq ToSet(dfu'.queue)
      /\ ToSet(dfu'.queue) \subseteq ToSet(dfu.queue) \cup {"http"}
      /\ "http" \in ToSet(dfu'.queue) \ ToSet(dfu.queue) =>
           /\ dfu'.file \in Image /\ dfu'.type = dfu'.file
           /\ dfu.size[dfu'.file] < dfu.avail[dfu'.file]
  BY <1>1, LogikHandler DEF WakeSms
<1>3. /\ nap' = [nap EXCEPT !.sms = FALSE] /\ nap.sms
      /\ UNCHANGED <<phase, status, fota, slot, line, faults, sent, asks>>
  BY DEF WakeSms, history
<1>4. /\ ~Has("helper") /\ ~Has("http") /\ ~Has("flag") /\ ~Has("serial")
      /\ fota = "none" /\ line = "idle" /\ nap.queue = "no"
  BY <1>3 DEF IInv, OneActivity, Sleeping
<1>5. nap' \in Nap /\ nap'.queue = "no" /\ nap'.sms = FALSE
  BY <1>1, <1>3, <1>4 DEF TypeOK, Nap
<1>6. want' \in SUBSET Image
  BY <1>1, DecidedType DEF WakeSms, TypeOK
<1>7. TypeOK'
  BY <1>1, <1>2, <1>3, <1>5, <1>6 DEF TypeOK, Statics
<1>8. /\ ~Has("helper")' /\ ~Has("flag")' /\ ~Has("serial")' /\ fota' = "none" /\ line' = "idle"
  BY <1>2, <1>3, <1>4 DEF Has
<1>9. OneActivity'
  BY <1>5, <1>8 DEF OneActivity, Sleeping
<1>10. TellsImage'
  BY <1>2, <1>4, <1>5, <1>8 DEF TellsImage, Has
<1>11. SizesKnown'
  <2>1. /\ status' = "lost" => "status" \in faults'
        /\ "status" \notin faults' => \A i \in Image : dfu'.avail[i] <= SlotOf(i)
    BY <1>2, <1>3 DEF IInv, SizesKnown
  <2>2. "status" \notin faults' /\ Has("http")' => dfu'.size[dfu'.file] < SlotOf(dfu'.file)
    <3> SUFFICES ASSUME "status" \notin faults', Has("http")'
                 PROVE  dfu'.size[dfu'.file] < SlotOf(dfu'.file)
      OBVIOUS
    <3> DEFINE f == dfu'.file
    <3>1. f \in Image /\ dfu.size[f] < dfu.avail[f]
      BY <1>2, <1>4 DEF Has
    <3>2. dfu.size[f] \in Nat /\ dfu.avail[f] \in Nat /\ SlotOf(f) \in Nat
      BY <1>1, <3>1 DEF Statics, Dfu, SlotOf
    <3>3. dfu.avail[f] <= SlotOf(f)
      BY <1>3, <3>1 DEF IInv, SizesKnown
    <3> HIDE DEF f
    <3>4. dfu.size[f] < SlotOf(f)
      BY <3>1, <3>2, <3>3
    <3>5. QED
      BY <1>2, <3>4 DEF f
  <2>3. QED
    BY <1>8, <2>1, <2>2 DEF SizesKnown
<1>12. QED
  BY <1>7, <1>9, <1>10, <1>11 DEF IInv

\* Once a 91 image is taken to be in the slot, the flag is pending, and perhaps the
\* download of a 91 image.
LEMMA TakenFor91 ==
  ASSUME IInv, NEW d, Statics(d), dfu' = flash_done_92(d),
         d.size = dfu.size,
         \A i \in Image : dfu.avail[i] <= SlotOf(i) => d.avail[i] <= SlotOf(i),
         ToSet(d.queue) \subseteq {"devinf", "http", "flag"},
         "http" \in ToSet(d.queue) => d.file = "91" /\ d.size["91"] < d.avail["91"],
         nap'.queue = "no", ~nap'.sms, line' = "idle", fota' = "none",
         status' \in {status, "asked"}, faults \subseteq faults'
  PROVE  Statics(dfu') /\ OneActivity' /\ TellsImage' /\ SizesKnown'
<1>1. /\ Statics(dfu') /\ dfu'.type = "91" /\ dfu'.file = d.file /\ dfu'.size = d.size
      /\ dfu'.avail = d.avail /\ ToSet(dfu'.queue) = ToSet(d.queue) \cup {"flag"}
  BY FlashDone92
<1>2. ~Has("helper")' /\ ~Has("serial")' /\ (Has("http")' <=> "http" \in ToSet(d.queue))
  BY <1>1 DEF Has
<1>3. OneActivity'
  BY <1>2 DEF OneActivity, Sleeping
<1>4. TellsImage'
  BY <1>1, <1>2 DEF TellsImage
<1>5. SizesKnown'
  <2>1. "91" \in Image /\ d.size["91"] \in Nat /\ d.avail["91"] \in Nat /\ SlotOf("91") \in Nat
    BY DEF Statics, Dfu, Image, SlotOf
  <2>2. "status" \notin faults' => \A i \in Image : dfu'.avail[i] <= SlotOf(i)
    BY <1>1 DEF IInv, SizesKnown
  <2>3. "status" \notin faults' /\ Has("http")' => dfu'.size["91"] < SlotOf("91")
    BY <1>1, <1>2, <2>1, <2>2
  <2>4. status' = "lost" => "status" \in faults'
    BY DEF IInv, SizesKnown
  <2>5. QED
    BY <1>1, <1>2, <2>2, <2>3, <2>4 DEF SizesKnown
<1>6. QED
  BY <1>1, <1>3, <1>4, <1>5

\* The work queue decides after its sleep.
LEMMA WakeQueueSafe ==
  ASSUME IInv, WakeQueue
  PROVE  IInv'
<1>1. TypeOK /\ Statics(dfu)
  BY DEF IInv, TypeOK, Statics
<1> DEFINE d == logik_handler(dfu)
<1>2. /\ Statics(d) /\ d.size = dfu.size /\ d.avail = dfu.avail
      /\ ToSet(dfu.queue) \subseteq ToSet(d.queue)
      /\ ToSet(d.queue) \subseteq ToSet(dfu.queue) \cup {"http"}
      /\ "http" \in ToSet(d.queue) \ ToSet(dfu.queue) =>
           /\ d.file \in Image /\ d.type = d.file
           /\ dfu.size[d.file] < dfu.avail[d.file]
           /\ dfu.more = "91" => d.file = "91"
  BY <1>1, LogikHandler
<1>3. dfu' = IF nap.queue = "ask" THEN d ELSE flash_done_92(d)
  BY DEF WakeQueue
<1> HIDE DEF d
<1>4. /\ nap' = [nap EXCEPT !.queue = "no"] /\ nap.queue # "no"
      /\ UNCHANGED <<phase, status, fota, slot, line, faults, sent, asks>>
  BY DEF WakeQueue, history
<1>5. /\ ~Has("helper") /\ ~Has("http") /\ ~Has("flag") /\ ~Has("serial")
      /\ fota = "none" /\ line = "idle" /\ ~nap.sms
  BY <1>4 DEF IInv, OneActivity, Sleeping
<1>6. nap' \in Nap /\ nap'.queue = "no" /\ nap'.sms = nap.sms
  BY <1>1, <1>4 DEF TypeOK, Nap
<1>7. want' \in SUBSET Image
  BY <1>1, DecidedType DEF WakeQueue, TypeOK
<1>8. Statics(dfu') => TypeOK'
  BY <1>1, <1>4, <1>6, <1>7 DEF TypeOK, Statics
<1>9. ToSet(d.queue) \subseteq {"devinf", "http"}
  <2>1. ToSet(dfu.queue) \subseteq Work
    BY <1>1 DEF ToSet, Statics, Dfu
  <2>2. QED
    BY <1>2, <1>5, <2>1 DEF Has, Work
<1>10. CASE nap.queue = "ask"
  <2>1. dfu' = d
    BY <1>3, <1>10
  <2>2. /\ ~Has("helper")' /\ ~Has("flag")' /\ ~Has("serial")' /\ fota' = "none" /\ line' = "idle"
    BY <1>4, <1>5, <1>9, <2>1 DEF Has
  <2>3. OneActivity'
    BY <1>5, <1>6, <2>2 DEF OneActivity, Sleeping
  <2>4. TellsImage'
    BY <1>2, <1>5, <1>6, <2>1, <2>2 DEF TellsImage, Has
  <2>5. "status" \notin faults' /\ Has("http")' => dfu'.size[dfu'.file] < SlotOf(dfu'.file)
    <3> SUFFICES ASSUME "status" \notin faults', Has("http")'
                 PROVE  d.size[d.file] < SlotOf(d.file)
      BY <2>1
    <3> DEFINE f == d.file
    <3>1. f \in Image /\ dfu.size[f] < dfu.avail[f]
      BY <1>2, <1>5, <2>1 DEF Has
    <3>2. dfu.size[f] \in Nat /\ dfu.avail[f] \in Nat /\ SlotOf(f) \in Nat
      BY <1>1, <3>1 DEF Statics, Dfu, SlotOf
    <3>3. dfu.avail[f] <= SlotOf(f)
      BY <1>4, <3>1 DEF IInv, SizesKnown
    <3> HIDE DEF f
    <3>4. dfu.size[f] < SlotOf(f)
      BY <3>1, <3>2, <3>3
    <3>5. QED
      BY <1>2, <3>4 DEF f
  <2>6. SizesKnown'
    BY <1>2, <1>4, <2>1, <2>2, <2>5 DEF IInv, SizesKnown
  <2>7. QED
    BY <1>2, <1>8, <2>1, <2>3, <2>4, <2>6 DEF IInv
<1>11. CASE nap.queue # "ask"
  <2>1. dfu.more = "91"
    <3>1. nap.queue \in {"no", "ask", "done52"}
      BY <1>1 DEF TypeOK, Nap
    <3>2. QED
      BY <1>4, <1>11, <3>1 DEF IInv, TellsImage
  <2>2. "http" \in ToSet(d.queue) => d.file = "91" /\ d.size["91"] < d.avail["91"]
    BY <1>2, <1>5, <2>1 DEF Has
  <2>3. Statics(dfu') /\ OneActivity' /\ TellsImage' /\ SizesKnown'
    <3>1. dfu' = flash_done_92(d)
      BY <1>3, <1>11
    <3>2. /\ nap'.queue = "no" /\ ~nap'.sms /\ line' = "idle" /\ fota' = "none"
          /\ status' \in {status, "asked"} /\ faults \subseteq faults'
      BY <1>4, <1>5, <1>6
    <3>3. ToSet(d.queue) \subseteq {"devinf", "http", "flag"}
      BY <1>9
    <3>4. QED
      BY <1>2, <2>2, <3>1, <3>2, <3>3, TakenFor91
  <2>4. QED
    BY <1>8, <2>3 DEF IInv
<1>12. QED
  BY <1>10, <1>11

\* While a transfer runs nothing else does.
LEMMA LineAlone ==
  ASSUME IInv, line # "idle"
  PROVE  ToSet(dfu.queue) \subseteq {"devinf"} /\ fota = "none" /\ ~Sleeping
<1>1. ToSet(dfu.queue) \subseteq Work
  BY DEF IInv, TypeOK, Dfu, ToSet
<1>2. /\ ~Has("helper") /\ ~Has("http") /\ ~Has("flag") /\ ~Has("serial")
      /\ fota = "none" /\ ~Sleeping
  BY DEF IInv, OneActivity
<1>3. QED
  BY <1>1, <1>2 DEF Has, Work

\* The transfer of the 52 image has ended.
LEMMA SerialDoneSafe ==
  ASSUME IInv, SerialDone
  PROVE  IInv'
<1>1. TypeOK /\ Statics(dfu)
  BY DEF IInv, TypeOK, Statics
<1>2. /\ ToSet(dfu.queue) \subseteq {"devinf"} /\ fota = "none"
      /\ nap.queue = "no" /\ ~nap.sms
  BY LineAlone DEF SerialDone, Sleeping
<1>3. line' = "idle" /\ UNCHANGED <<phase, fota, slot, want, asks>>
  BY DEF SerialDone
<1>4. sent' \in BOOLEAN
  BY DEF SerialDone
<1>5. CASE dfu.more = "91"
  <2>1. nap' = [nap EXCEPT !.queue = "done52"] /\ get_device_status(dfu)
    BY <1>5 DEF SerialDone
  <2>2. /\ dfu' = Measured(dfu) /\ status' \in {status, "asked"}
        /\ faults' \in SUBSET Fault /\ faults \subseteq faults'
    BY <1>1, <2>1, DeviceStatus
  <2>3. /\ Statics(dfu') /\ dfu'.queue = dfu.queue /\ dfu'.more = dfu.more
        /\ \A i \in Image : dfu.avail[i] <= SlotOf(i) => dfu'.avail[i] <= SlotOf(i)
    BY <1>1, <2>2, MeasuredSizes
  <2>4. nap' \in Nap /\ nap'.queue = "done52" /\ nap'.sms = nap.sms
    BY <1>1, <2>1 DEF TypeOK, Nap
  <2>5. TypeOK'
    BY <1>1, <1>3, <1>4, <2>2, <2>3, <2>4 DEF TypeOK, Statics
  <2>6. /\ ~Has("helper")' /\ ~Has("http")' /\ ~Has("flag")' /\ ~Has("serial")'
        /\ fota' = "none" /\ line' = "idle" /\ ~nap'.sms
    BY <1>2, <1>3, <2>3, <2>4 DEF Has
  <2>7. OneActivity' /\ TellsImage'
    BY <1>5, <2>3, <2>6 DEF OneActivity, TellsImage, Sleeping
  <2>8. SizesKnown'
    BY <2>2, <2>3, <2>6 DEF IInv, SizesKnown
  <2>9. QED
    BY <2>5, <2>7, <2>8 DEF IInv
<1>6. CASE dfu.more # "91"
  <2>1. dfu' = flash_done_92(dfu) /\ UNCHANGED <<nap, status, faults>>
    BY <1>6 DEF SerialDone
  <2>2. Statics(dfu') /\ OneActivity' /\ TellsImage' /\ SizesKnown'
    BY <1>1, <1>2, <1>3, <2>1, TakenFor91
  <2>3. TypeOK'
    BY <1>1, <1>3, <1>4, <2>1, <2>2 DEF TypeOK, Statics
  <2>4. QED
    BY <2>2, <2>3 DEF IInv
<1>7. QED
  BY <1>5, <1>6

\* The request that ends it times out.
LEMMA SerialDoneTimeoutSafe ==
  ASSUME IInv, SerialDoneTimeout
  PROVE  IInv'
<1>1. TypeOK /\ Statics(dfu)
  BY DEF IInv, TypeOK, Statics
<1>2. /\ ToSet(dfu.queue) \subseteq {"devinf"} /\ fota = "none"
      /\ nap.queue = "no" /\ ~nap.sms
  <2>1. line # "idle"
    BY DEF SerialDoneTimeout
  <2>2. /\ ToSet(dfu.queue) \subseteq {"devinf"} /\ fota = "none" /\ ~Sleeping
    BY <2>1, LineAlone
  <2>3. QED
    BY <2>2 DEF Sleeping
<1>3. line' = "idle" /\ UNCHANGED <<nap, status, fota, slot, sent, asks>>
  BY DEF SerialDoneTimeout, history
<1>4. want' \in SUBSET Image /\ faults' \in SUBSET Fault /\ faults \subseteq faults'
  BY <1>1, Struck DEF SerialDoneTimeout, StrikeUpdate, Fault
<1>5. phase' \in {phase, "halted"}
  BY DEF SerialDoneTimeout
<1>6. Statics(dfu') => TypeOK'
  BY <1>1, <1>3, <1>4, <1>5 DEF TypeOK, Statics
<1>7. CASE UNCHANGED dfu
  <2>1. OneActivity' /\ TellsImage' /\ SizesKnown'
    BY <1>2, <1>3, <1>4, <1>7
    DEF IInv, OneActivity, TellsImage, SizesKnown, Has, Sleeping
  <2>2. QED
    BY <1>1, <1>6, <1>7, <2>1 DEF IInv
<1>8. CASE dfu.more # "91" /\ dfu' = flash_done_92(dfu)
  <2>1. Statics(dfu') /\ OneActivity' /\ TellsImage' /\ SizesKnown'
    BY <1>1, <1>2, <1>3, <1>4, <1>8, TakenFor91
  <2>2. QED
    BY <1>6, <2>1 DEF IInv
<1>9. CASE dfu.more = "91" /\ dfu' = flash_done_92(logik_handler(Measured(dfu)))
  <2> DEFINE d1 == Measured(dfu)
             d2 == logik_handler(d1)
  <2>1. /\ Statics(d1) /\ d1.queue = dfu.queue /\ d1.more = dfu.more /\ d1.size = dfu.size
        /\ \A i \in Image : dfu.avail[i] <= SlotOf(i) => d1.avail[i] <= SlotOf(i)
    BY <1>1, MeasuredSizes
  <2>2. dfu' = flash_done_92(d2)
    BY <1>9
  <2> HIDE DEF d1
  <2>3. /\ Statics(d2) /\ d2.size = d1.size /\ d2.avail = d1.avail
        /\ ToSet(d2.queue) \subseteq ToSet(d1.queue) \cup {"http"}
        /\ "http" \in ToSet(d2.queue) \ ToSet(d1.queue) =>
             d1.size[d2.file] < d1.avail[d2.file] /\ (d1.more = "91" => d2.file = "91")
    BY <2>1, LogikHandler
  <2> HIDE DEF d2
  <2>4. /\ ToSet(d2.queue) \subseteq {"devinf", "http", "flag"}
        /\ "http" \in ToSet(d2.queue) => d2.file = "91" /\ d2.size["91"] < d2.avail["91"]
    BY <1>2, <1>9, <2>1, <2>3
  <2>5. /\ d2.size = dfu.size
        /\ \A i \in Image : dfu.avail[i] <= SlotOf(i) => d2.avail[i] <= SlotOf(i)
    BY <2>1, <2>3
  <2>6. /\ nap'.queue = "no" /\ ~nap'.sms /\ line' = "idle" /\ fota' = "none"
        /\ status' \in {status, "asked"} /\ faults \subseteq faults'
    BY <1>2, <1>3, <1>4
  <2>7. Statics(dfu') /\ OneActivity' /\ TellsImage' /\ SizesKnown'
    BY <2>2, <2>3, <2>4, <2>5, <2>6, TakenFor91
  <2>8. QED
    BY <1>6, <2>7 DEF IInv
<1>10. QED
  BY <1>7, <1>8, <1>9 DEF SerialDoneTimeout

\* The bchip has written a 91 image.
LEMMA BleDoneSafe ==
  ASSUME IInv, BleDone
  PROVE  IInv'
<1>1. TypeOK /\ Statics(dfu)
  BY DEF IInv, TypeOK, Statics
<1>2. /\ ToSet(dfu.queue) \subseteq {"devinf"} /\ fota = "none"
      /\ nap.queue = "no" /\ ~nap.sms
  <2>1. line # "idle"
    BY DEF BleDone
  <2>2. ToSet(dfu.queue) \subseteq {"devinf"} /\ fota = "none" /\ ~Sleeping
    BY <2>1, LineAlone
  <2>3. QED
    BY <2>2 DEF Sleeping
<1>3. /\ line' = "idle" /\ dfu' = flash_done_92(dfu)
      /\ UNCHANGED <<phase, nap, status, fota, want, faults, sent, asks>>
  BY DEF BleDone, history
<1>4. slot' \in Slot
  BY <1>1 DEF BleDone, TypeOK, Slot, Image
<1>5. Statics(dfu') /\ OneActivity' /\ TellsImage' /\ SizesKnown'
  BY <1>1, <1>2, <1>3, TakenFor91
<1>6. TypeOK'
  BY <1>1, <1>3, <1>4, <1>5 DEF TypeOK, Statics
<1>7. QED
  BY <1>5, <1>6 DEF IInv

\* A download has ended: the image in the slot is that of the type.
LEMMA DownloadFinishedSafe ==
  ASSUME IInv, DownloadFinished
  PROVE  IInv'
<1>1. TypeOK /\ Statics(dfu)
  BY DEF IInv, TypeOK, Statics
<1> DEFINE d == [dfu EXCEPT !.downloading = FALSE]
<1>2. /\ Statics(d) /\ d.queue = dfu.queue
      /\ d.type = dfu.type /\ d.more = dfu.more /\ d.size = dfu.size /\ d.avail = dfu.avail
      /\ d.file = dfu.file /\ d.channel = dfu.channel
  BY <1>1 DEF Statics, Dfu, SameButQueue
<1>3. dfu' = IF \/ d.channel = "http" /\ d.type = "52"
                \/ d.channel = "serial" /\ d.type = "91"
             THEN Submit(d, "flag") ELSE d
  BY DEF DownloadFinished, dfu_file_ready
<1> HIDE DEF d
<1>4. /\ Statics(dfu') /\ dfu'.type = dfu.type /\ dfu'.more = dfu.more /\ dfu'.size = dfu.size
      /\ dfu'.avail = dfu.avail /\ dfu'.file = dfu.file
      /\ ToSet(dfu'.queue) \in {ToSet(dfu.queue), ToSet(dfu.queue) \cup {"flag"}}
  <2>1. CASE dfu' = d
    BY <1>2, <2>1
  <2>2. CASE dfu' = Submit(d, "flag")
    BY <1>2, <2>2, Submitted DEF Work, SameButQueue
  <2>3. QED
    BY <1>3, <2>1, <2>2
<1>5. /\ fota # "none" /\ fota' = "none" /\ slot' = [image |-> fota, flag |-> TRUE]
      /\ UNCHANGED <<phase, nap, status, line, want, faults, sent, asks>>
  BY DEF DownloadFinished, history
<1>6. /\ dfu.type = fota /\ fota \in Image
      /\ ~Has("helper") /\ ~Has("http") /\ ~Has("serial") /\ ~Sleeping /\ line = "idle"
  BY <1>1, <1>5 DEF IInv, TypeOK, OneActivity, TellsImage
<1>7. slot' \in Slot
  BY <1>5, <1>6 DEF Slot
<1>8. TypeOK'
  BY <1>1, <1>4, <1>5, <1>7 DEF TypeOK, Statics
<1>9. ~Has("helper")' /\ ~Has("http")' /\ ~Has("serial")'
  BY <1>4, <1>6 DEF Has
<1>10. OneActivity'
  BY <1>5, <1>6, <1>9 DEF OneActivity, Sleeping
<1>11. TellsImage'
  BY <1>4, <1>5, <1>6, <1>9 DEF TellsImage, Sleeping
<1>12. SizesKnown'
  BY <1>4, <1>5, <1>9 DEF IInv, SizesKnown
<1>13. QED
  BY <1>8, <1>10, <1>11, <1>12 DEF IInv

\* A download fails.
LEMMA DownloadErrorSafe ==
  ASSUME IInv, DownloadError
  PROVE  IInv'
<1>1. TypeOK /\ Statics(dfu)
  BY DEF IInv, TypeOK, Statics
<1>2. /\ Statics(dfu') /\ dfu'.queue = dfu.queue /\ dfu'.type = dfu.type
      /\ dfu'.more = dfu.more /\ dfu'.size = dfu.size /\ dfu'.avail = dfu.avail
      /\ dfu'.file = dfu.file
  BY <1>1 DEF DownloadError, Statics, Dfu
<1>3. want' \in SUBSET Image /\ faults' \in SUBSET Fault /\ faults \subseteq faults'
  BY <1>1, Struck DEF DownloadError, StrikeUpdate, Fault
<1>4. fota' = "none" /\ UNCHANGED <<phase, nap, status, slot, line, sent, asks>>
  BY DEF DownloadError, history
<1>5. TypeOK'
  BY <1>1, <1>2, <1>3, <1>4 DEF TypeOK, Statics
<1>6. OneActivity' /\ TellsImage' /\ SizesKnown'
  BY <1>2, <1>3, <1>4 DEF IInv, OneActivity, TellsImage, SizesKnown, Has, Sleeping
<1>7. QED
  BY <1>5, <1>6 DEF IInv

\* A transfer stops.
LEMMA TransferStopsSafe ==
  ASSUME IInv, TransferStops
  PROVE  IInv'
<1>1. TypeOK
  BY DEF IInv
<1>2. want' \in SUBSET Image /\ faults' \in SUBSET Fault /\ faults \subseteq faults'
  BY <1>1, Struck DEF TransferStops, StrikeUpdate, Fault
<1>3. line' = "idle" /\ UNCHANGED <<phase, dfu, nap, status, fota, slot, sent, asks>>
  BY DEF TransferStops, module, history
<1>4. TypeOK'
  BY <1>1, <1>2, <1>3 DEF TypeOK
<1>5. OneActivity' /\ TellsImage' /\ SizesKnown'
  BY <1>2, <1>3 DEF IInv, OneActivity, TellsImage, SizesKnown, Has, Sleeping
<1>6. QED
  BY <1>4, <1>5 DEF IInv

-----------------------------------------------------------------------------
(* The theorems *)

\* Every step keeps the invariant.
LEMMA NextSafe ==
  ASSUME ~Overlap, IInv, [Next]_vars
  PROVE  IInv'
<1>1. CASE Boot
  BY <1>1, BootSafe
<1>2. ASSUME NEW u \in Update \ {"none"}, NEW size \in [Image -> Sizes], sms_callback(u, size)
      PROVE  IInv'
  BY <1>2, SmsSafe
<1>3. CASE button_handler \/ BleBegins
  BY <1>3, ButtonSafe, BleBeginsSafe
<1>4. CASE Worker
  BY <1>4, AskserverSafe, DeviceInfoSafe, DownloadSafe, FlagSafe, SerialSafe DEF Worker
<1>5. CASE Exchange
  BY <1>5, AnsweredSafe, LostSafe, StatusTimeoutSafe DEF Exchange
<1>6. CASE Wake
  BY <1>6, WakeSmsSafe, WakeQueueSafe DEF Wake
<1>7. CASE Transfer
  BY <1>7, SerialDoneSafe, BleDoneSafe DEF Transfer
<1>8. CASE DownloadFinished \/ DownloadError
  BY <1>8, DownloadFinishedSafe, DownloadErrorSafe
<1>9. CASE SerialDoneTimeout \/ TransferStops
  BY <1>9, SerialDoneTimeoutSafe, TransferStopsSafe
<1>10. CASE UNCHANGED vars
  BY <1>10 DEF vars, module, history, IInv, TypeOK, OneActivity, TellsImage, SizesKnown,
               Has, Sleeping
<1>11. QED
  BY <1>1, <1>2, <1>3, <1>4, <1>5, <1>6, <1>7, <1>8, <1>9, <1>10 DEF Next

\* The inductive invariant holds as long as updates do not overlap.
THEOREM Safety == ~Overlap => (Spec => []IInv)
<1>1. ASSUME ~Overlap PROVE Spec => []IInv
  <2>1. Init => IInv
    BY InitSafe
  <2>2. IInv /\ [Next]_vars => IInv'
    BY <1>1, NextSafe
  <2>3. QED
    BY <2>1, <2>2, PTL DEF Spec
<1>2. QED
  BY <1>1

\* Every variable has its type and no work item is pending twice, for any sizes and
\* any number of updates and failures.
THEOREM TypeCorrect == ~Overlap => (Spec => []TypeOK)
<1>1. IInv => TypeOK
  BY DEF IInv
<1>2. QED
  BY <1>1, Safety, PTL

\* What is sent to the bchip is a whole 52 image without the mcuboot flag, and the
\* slot is left alone meanwhile (wk_update_mcuboot_flag_handler, wk_serial_dfu_handler).
THEOREM ImageSent == ~Overlap => (Spec => []SendsImage52)
<1>1. IInv => SendsImage52
  BY DEF IInv, OneActivity, TellsImage, SendsImage52
<1>2. QED
  BY <1>1, Safety, PTL

\* m_image_file_type tells which image is being downloaded (logik_handler,
\* app_cmd_event_handler).
THEOREM TypeTells == ~Overlap => (Spec => []TypeTellsDownload)
<1>1. IInv => TypeTellsDownload
  BY DEF IInv, TellsImage, TypeTellsDownload
<1>2. QED
  BY <1>1, Safety, PTL

\* No image is downloaded that its slot has no room for, unless the request for the
\* size of the slot of the bchip failed (get_device_status, logik_handler).
THEOREM RoomChecked == ~Overlap => (Spec => []FitsTold)
<1>1. IInv => FitsTold
  BY DEF IInv, SizesKnown, SlotOf, FitsTold
<1>2. QED
  BY <1>1, Safety, PTL
=============================================================================
