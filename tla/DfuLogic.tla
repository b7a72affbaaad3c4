----------------------------- MODULE DfuLogic ------------------------------
(***************************************************************************)
(* The update logic of the ichip (dfu_modul.c, http_client.c): an SMS, a   *)
(* button or the update timer asks for the firmware of the 52, of the 91   *)
(* or of both.  Images are downloaded one at a time into the one secondary *)
(* slot of the ichip; a 52 image is sent on to the bchip, a 91 image stays *)
(* and needs the mcuboot flag.  The bchip, in turn, may write a 91 image   *)
(* it got over Bluetooth into the same slot.                               *)
(*                                                                         *)
(* Before each decision get_device_status asks the bchip for the size of   *)
(* its slot and sleeps for two seconds, in a thread of its own (SMS) or on *)
(* the system work queue (button, end of a transfer).                      *)
(*                                                                         *)
(* Downloading (the fota_download library) and the transfers over the      *)
(* serial line (SerialDfu.tla) are seen as activities that end or fail.    *)
(***************************************************************************)
EXTENDS Naturals, Sequences, FiniteSets, SequencesExt

CONSTANTS
  Sizes,        \* sizes of images, as they are announced
  ServerSize,   \* the size serverresp stores for every image, 100
  Slot52,       \* the secondary slot of the bchip
  Slot91,       \* that of the ichip
  Placeholder,  \* what get_device_status takes for Slot52 until it is told, 52000
  MaxAsks,      \* bound: updates asked for, by whatever way
  MaxFaults,    \* bound: kinds of faults that occur
  Overlap       \* may an update be asked for while another is under way?

ASSUME SizeAssumption ==
  /\ Sizes \subseteq Nat \ {0} /\ ServerSize \in Sizes
  /\ {Slot52, Slot91, Placeholder} \subseteq Nat \ {0}
  /\ Placeholder < Slot52

ASSUME BoundAssumption ==
  MaxAsks \in Nat /\ MaxFaults \in Nat /\ Overlap \in BOOLEAN

Image == {"52", "91"}
Update == {"52", "91", "both", "none"}              \* UPDATE_...
Work == {"http", "flag", "serial", "helper", "devinf"}  \* the work items
Fault == {"init", "status", "start", "download", "serial"}

VARIABLES
  phase,   \* of main: "boot", "up", "half" without LTE, "bare" without
           \* even the work item for downloads, or "halted"
  dfu,     \* the static variables of the two files, and their pending work
  nap,     \* who sleeps in get_device_status: on the work queue, and the SMS thread
  status,  \* the request for device information: "none", "asked" or "lost"
  fota,    \* the image fota_download is fetching, or "none"
  slot,    \* the secondary slot: what it holds and whether mcuboot is to boot it
  line,    \* the transfer on the serial line: "idle", "out" (52) or "in" (91)
  sent,    \* the bchip has concluded the transfer of the 52 image
  want,    \* the images of the last update that nothing has prevented
  asks,    \* updates asked for
  faults   \* the kinds of faults that have occurred

module == <<phase, dfu, nap>>
history == <<sent, asks>>
vars == <<module, status, fota, slot, line, want, faults, history>>

Dfu == [more : Update, type : Image, channel : {"unset", "http", "serial"},
        file : Image \cup {"unset"}, downloading : BOOLEAN, queue : Seq(Work),
        size : [Image -> Nat], avail : [Image -> Nat]]

Nap == [queue : {"no", "ask", "done52"}, sms : BOOLEAN]

Slot == [image : Image \cup {"part"}, flag : BOOLEAN]

Init ==
  /\ phase = "boot"
  /\ dfu = [more |-> "none", type |-> "52", channel |-> "unset",
            file |-> "unset", downloading |-> FALSE, queue |-> <<>>,
            size |-> [i \in Image |-> 0], avail |-> [i \in Image |-> 0]]
  /\ nap = [queue |-> "no", sms |-> FALSE]
  /\ status = "none" /\ fota = "none"
  /\ slot = [image |-> "part", flag |-> FALSE]
  /\ line = "idle" /\ sent = FALSE /\ want = {} /\ asks = 0 /\ faults = {}

-----------------------------------------------------------------------------
(* The functions, from the statics on entry to those on return *)

\* k_work_submit to the system work queue; a pending item stays where it is.
Submit(d, work) ==
  IF work \in ToSet(d.queue) THEN d ELSE [d EXCEPT !.queue = Append(@, work)]

\* A second download is silently ignored while one is under way.
http_client_download(d, file) ==
  IF d.downloading THEN d
  ELSE [Submit(d, "http") EXCEPT !.file = file, !.downloading = TRUE]

http_download_start(d, file) ==
  http_client_download([d EXCEPT !.channel = "http"], file)

\* The image that the next download fetches.
Next52Or91(d) == IF d.more = "91" THEN "91" ELSE "52"

\* Mutant: both sizes are compared with the slot of the bchip.
Fits_OneSlot(d) == d.avail["52"] > d.size[Next52Or91(d)]

Fits(d) == d.avail[Next52Or91(d)] > d.size[Next52Or91(d)]

\* Mutant: the type of the image is set for the 52 only.
logik_handler_KeepsType(d) ==
  IF d.more = "none" \/ ~Fits(d) THEN d
  ELSE LET image == Next52Or91(d)
           rest == IF d.more = "both" THEN "91" ELSE "none"
           type == IF d.more = "91" THEN d.type ELSE "52"
       IN http_download_start([d EXCEPT !.type = type, !.more = rest], image)

\* Mutant: the file is chosen by what is to be updated, not by the image.
logik_handler_FileOfMore(d) ==
  IF d.more = "none" \/ ~Fits(d) THEN d
  ELSE LET image == Next52Or91(d)
           rest == IF d.more = "both" THEN "91" ELSE "none"
       IN http_download_start([d EXCEPT !.type = image, !.more = rest], d.more)

\* logik_handler behind get_device_status.  Nothing asks whether an update is under
\* way, and an update for which there is no room stays in more_updates.
logik_handler(d) ==
  IF d.more = "none" \/ ~Fits(d) THEN d
  ELSE LET image == Next52Or91(d)
           rest == IF d.more = "both" THEN "91" ELSE "none"
       IN http_download_start([d EXCEPT !.type = image, !.more = rest], image)

\* An image is in the slot.  One from the server has the mcuboot flag, which a
\* 52 image must lose; one from the bchip has none, and a 91 image needs it.
dfu_file_ready(d) ==
  IF \/ d.channel = "http" /\ d.type = "52"
     \/ d.channel = "serial" /\ d.type = "91"
  THEN Submit(d, "flag")
  ELSE d

\* app_cmd_event_handler for CMD_OP_FLASH_DONE_92: the bchip has written a 91
\* image.
flash_done_92(d) == dfu_file_ready([d EXCEPT !.type = "91", !.channel = "serial"])

-----------------------------------------------------------------------------
(* Faults, each kind at most once *)

Strike(kind) ==
  /\ kind \notin faults /\ Cardinality(faults) < MaxFaults
  /\ faults' = faults \cup {kind}

\* Nothing is promised any more of the update that is under way.
StrikeUpdate(kind) == Strike(kind) /\ want' = {}

NoStrike == UNCHANGED <<want, faults>>

-----------------------------------------------------------------------------
(* Starting *)

\* The work item for downloads is initialised last, unless something fails before.
http_client_init(ok) == IF ok THEN TRUE ELSE Strike("init")

http_client_connect(ok) == IF ok THEN TRUE ELSE Strike("init")

\* After either error the function returns before the commands and the other work
\* items are registered ...
initalize_dfu_module ==
  \/ http_client_init(FALSE) /\ phase' = "bare"
  \/ http_client_init(TRUE) /\ http_client_connect(FALSE) /\ phase' = "half"
  \/ http_client_init(TRUE) /\ http_client_connect(TRUE)
     /\ phase' = "up" /\ UNCHANGED faults

\* ... and main goes on: button and SMS work from here.
Boot ==
  /\ phase = "boot"
  /\ initalize_dfu_module
  /\ UNCHANGED <<dfu, nap, status, fota, slot, line, want, history>>

Running == phase \in {"up", "half", "bare"}

-----------------------------------------------------------------------------
(* The device information *)

\* The sizes that are not known are found out: the own one at once, while that of
\* the bchip is a placeholder until the answer is there.
Measured(d) ==
  [d EXCEPT !.avail = [i \in Image |->
     IF d.avail[i] # 0 THEN d.avail[i] ELSE IF i = "52" THEN Placeholder ELSE Slot91]]

\* get_device_status up to its sleep.  The request may be refused, and nobody looks.
get_device_status(d) ==
  /\ dfu' = Measured(d)
  /\ IF d.avail["52"] = 0 /\ status = "none"
     THEN \/ status' = "asked" /\ UNCHANGED faults
          \/ Strike("status") /\ UNCHANGED status
     ELSE UNCHANGED <<status, faults>>

\* req_dev_fwinfo52 of the bchip: the size of its slot.
req_dev_fwinfo52 == Slot52

\* The bchip answers, and wk_proc_rsp is submitted.
Answered ==
  /\ status = "asked"
  /\ status' = "none"
  /\ dfu' = Submit(dfu, "devinf")
  /\ UNCHANGED <<phase, nap, fota, slot, line, want, faults, history>>

Lost ==
  /\ status = "asked"
  /\ status' = "lost"
  /\ Strike("status")
  /\ UNCHANGED <<module, fota, slot, line, want, history>>

\* What lies in memory behind "to", taken for a size.
Garbage == {0, Slot52 + 1}

\* tmr_rsp_timeout_handler runs rsp_dev_fwinfo52, if it is registered, with "to".
StatusTimeout ==
  /\ status = "lost"
  /\ status' = "none"
  /\ IF phase = "up" THEN \E n \in Garbage : dfu' = [dfu EXCEPT !.avail["52"] = n]
     ELSE UNCHANGED dfu
  /\ UNCHANGED <<phase, nap, fota, slot, line, want, faults, history>>

-----------------------------------------------------------------------------
(* Asking for updates *)

\* Nothing is under way.
Quiet ==
  /\ dfu.queue = <<>> /\ fota = "none" /\ line = "idle" /\ status = "none"
  /\ nap.queue = "no" /\ ~nap.sms

MayAsk == Running /\ asks < MaxAsks /\ (Overlap \/ Quiet)

Images(u) == IF u = "both" THEN Image ELSE {u}

\* An update and the sizes of its images are stored.
Stored(u, size) ==
  [dfu EXCEPT !.more = u, !.size = [i \in Image |-> IF i \in Images(u) THEN size[i] ELSE @[i]]]

parse_sms(u, size) == Stored(u, size)

serverresp(u) == Stored(u, [i \in Image |-> ServerSize])

\* In the thread of the SMS library.
sms_callback(u, size) ==
  /\ MayAsk /\ ~nap.sms
  /\ asks' = asks + 1
  /\ nap' = [nap EXCEPT !.sms = TRUE]
  /\ get_device_status(parse_sms(u, size))
  /\ want' = {} /\ sent' = FALSE
  /\ UNCHANGED <<phase, fota, slot, line>>

\* button_handler, or the update timer.
button_handler ==
  /\ MayAsk
  /\ asks' = asks + 1
  /\ dfu' = Submit(dfu, "helper")
  /\ UNCHANGED <<phase, nap, status, fota, slot, line, sent, want, faults>>

\* What logik_handler does about the update after the sleep is what is wanted.
Decided(d) ==
  IF d.more = "none" THEN want
  ELSE IF Fits(d) /\ phase = "up" THEN want \cup Images(d.more)
  ELSE want \ Images(d.more)

\* The SMS thread wakes up.  Two seconds are enough for the answer of the bchip and
\* for the work queue, unless that sleeps, and not for the timeout of a lost request.
WakeSms ==
  /\ nap.sms /\ status # "asked"
  /\ "devinf" \in ToSet(dfu.queue) => nap.queue # "no"
  /\ nap' = [nap EXCEPT !.sms = FALSE]
  /\ dfu' = logik_handler(dfu)
  /\ want' = Decided(dfu)
  /\ UNCHANGED <<phase, status, fota, slot, line, faults, history>>

\* The work queue wakes up, in askserver or in app_cmd_event_handler, where no
\* break separates the case of the 52 from that of the 91 image.
WakeQueue ==
  /\ nap.queue # "no" /\ status # "asked"
  /\ nap' = [nap EXCEPT !.queue = "no"]
  /\ dfu' = IF nap.queue = "ask" THEN logik_handler(dfu)
            ELSE flash_done_92(logik_handler(dfu))
  /\ want' = Decided(dfu)
  /\ UNCHANGED <<phase, status, fota, slot, line, faults, history>>

\* An image begins to come in.  Only the pages it needs are erased, which may
\* or may not include the one with the flag.
Overwritten ==
  \E flag \in {FALSE, slot.flag} : slot' = [image |-> "part", flag |-> flag]

\* The bchip erases the slot and begins to write a 91 image (req_cb_flash_erase,
\* req_cb_flash_write).
BleBegins ==
  /\ MayAsk /\ phase = "up" /\ line = "idle" /\ status = "none"
  /\ asks' = asks + 1
  /\ line' = "in"
  /\ Overwritten
  /\ want' = {"91"}
  /\ UNCHANGED <<module, status, fota, sent, faults>>

-----------------------------------------------------------------------------
(* The work queue, first come first served; it stands still while one sleeps *)

Run(work) ==
  /\ nap.queue = "no" /\ dfu.queue # <<>> /\ Head(dfu.queue) = work

Rest == [dfu EXCEPT !.queue = Tail(@)]

\* askserver and serverresp: the buttons tell what is to be updated.
askserver ==
  /\ Run("helper")
  /\ \E u \in Update \ {"none"} :
       get_device_status([serverresp(u) EXCEPT !.queue = Tail(@)])
  /\ nap' = [nap EXCEPT !.queue = "ask"]
  /\ want' = {} /\ sent' = FALSE
  /\ UNCHANGED <<phase, fota, slot, line, asks>>

\* Mutant: the size is read where rsp_dev_fwinfo91 of the bchip reads it.
rsp_dev_fwinfo52_Offset4 ==
  /\ Run("devinf")
  /\ \E n \in Garbage : dfu' = [Rest EXCEPT !.avail["52"] = n]
  /\ UNCHANGED <<phase, nap, status, fota, slot, line, want, faults, history>>

\* wk_proc_rsp_handler; without LTE the op code is not registered.
rsp_dev_fwinfo52 ==
  /\ Run("devinf")
  /\ dfu' = IF phase = "up" THEN [Rest EXCEPT !.avail["52"] = req_dev_fwinfo52] ELSE Rest
  /\ UNCHANGED <<phase, nap, status, fota, slot, line, want, faults, history>>

\* fota_download_start; while an image comes in the slot holds part of it.  A work
\* item that is not initialised has no handler, and calling it halts the chip.
http_download_handler ==
  /\ Run("http")
  /\ dfu' = Rest
  /\ \/ /\ phase = "up"
        /\ fota' = dfu.file
        /\ Overwritten
        /\ NoStrike
     \/ /\ IF phase = "up" THEN StrikeUpdate("start") ELSE NoStrike
        /\ UNCHANGED <<fota, slot>>
  /\ phase' = IF phase = "bare" THEN "halted" ELSE phase
  /\ UNCHANGED <<nap, status, line, history>>

\* Mutant: the last page is not erased.
wk_update_mcuboot_flag_handler_KeepsFlag ==
  /\ Run("flag")
  /\ slot' = [slot EXCEPT !.flag = (@ \/ dfu.type = "91")]
  /\ dfu' = IF dfu.type = "52" THEN Submit(Rest, "serial") ELSE Rest
  /\ UNCHANGED <<phase, nap, status, fota, line, want, faults, history>>

\* The last page of the slot has the flag.
app_flash_erase_from_end(s) == [s EXCEPT !.flag = FALSE]

\* A 52 image: the last page is erased and the transfer to the bchip is next.  A 91
\* image: the flag is set.
wk_update_mcuboot_flag_handler ==
  /\ Run("flag")
  /\ slot' = IF dfu.type = "52" THEN app_flash_erase_from_end(slot)
             ELSE [slot EXCEPT !.flag = TRUE]
  /\ dfu' = IF dfu.type = "52" THEN Submit(Rest, "serial") ELSE Rest
  /\ UNCHANGED <<phase, nap, status, fota, line, want, faults, history>>

\* The size is that of the file.  The transfer does not begin if its first request
\* is refused, as the one for the device information still waits for its timeout.
wk_serial_dfu_handler ==
  /\ Run("serial")
  /\ \E n \in Sizes : dfu' = [Rest EXCEPT !.size["52"] = n]
  /\ IF status = "none" THEN line' = "out" /\ UNCHANGED want
     ELSE want' = {} /\ UNCHANGED line
  /\ UNCHANGED <<phase, nap, status, fota, slot, faults, history>>

-----------------------------------------------------------------------------
(* What other parts report *)

\* download_handler, then download_event_handler.
DownloadFinished ==
  /\ fota # "none"
  /\ fota' = "none"
  /\ slot' = [image |-> fota, flag |-> TRUE]
  /\ dfu' = dfu_file_ready([dfu EXCEPT !.downloading = FALSE])
  /\ UNCHANGED <<phase, nap, status, line, want, faults, history>>

\* Mutant: http_client.c still takes a download to be under way.
DownloadError_StillBusy ==
  /\ fota # "none"
  /\ fota' = "none"
  /\ StrikeUpdate("download")
  /\ UNCHANGED <<module, status, slot, line, history>>

DownloadError ==
  /\ fota # "none"
  /\ fota' = "none"
  /\ StrikeUpdate("download")
  /\ dfu' = [dfu EXCEPT !.downloading = FALSE]
  /\ UNCHANGED <<phase, nap, status, slot, line, history>>

\* The response to CMD_OP_FLASH_DONE_52: the next of two updates is begun, with a
\* sleep; else the statements of CMD_OP_FLASH_DONE_92 follow at once.
SerialDone ==
  /\ line = "out" /\ nap.queue = "no"
  /\ line' = "idle"
  /\ sent' = (slot.image = "52")
  /\ IF dfu.more = "91"
     THEN nap' = [nap EXCEPT !.queue = "done52"] /\ get_device_status(dfu)
     ELSE dfu' = flash_done_92(dfu) /\ UNCHANGED <<nap, status, faults>>
  /\ UNCHANGED <<phase, fota, slot, want, asks>>

\* That request times out: the event handler runs in the timer interrupt, where
\* sleeping is not possible.  With assertions the chip halts, else it goes on.
SerialDoneTimeout ==
  /\ line = "out"
  /\ line' = "idle"
  /\ StrikeUpdate("serial")
  /\ \/ dfu' = flash_done_92(IF dfu.more = "91" THEN logik_handler(Measured(dfu)) ELSE dfu)
        /\ UNCHANGED phase
     \/ dfu.more = "91" /\ phase' = "halted" /\ UNCHANGED dfu
  /\ UNCHANGED <<nap, status, fota, slot, history>>

\* The request CMD_OP_FLASH_DONE_92 of the bchip.
BleDone ==
  /\ line = "in" /\ nap.queue = "no"
  /\ line' = "idle"
  /\ dfu' = flash_done_92(dfu)
  /\ slot' = [slot EXCEPT !.image = "91"]
  /\ UNCHANGED <<phase, nap, status, fota, want, faults, history>>

\* A transfer over the serial line stops with a step that is not answered.
TransferStops ==
  /\ line # "idle"
  /\ line' = "idle"
  /\ StrikeUpdate("serial")
  /\ UNCHANGED <<module, status, fota, slot, history>>

-----------------------------------------------------------------------------
Worker == Running /\
  \/ askserver \/ rsp_dev_fwinfo52 \/ http_download_handler
  \/ wk_update_mcuboot_flag_handler \/ wk_serial_dfu_handler

Exchange == Running /\ (Answered \/ Lost \/ StatusTimeout)

Wake == Running /\ (WakeSms \/ WakeQueue)

Transfer == Running /\ (SerialDone \/ BleDone)

Next == \/ Boot
        \/ \E u \in Update \ {"none"}, size \in [Image -> Sizes] : sms_callback(u, size)
        \/ button_handler \/ BleBegins
        \/ Worker \/ Exchange \/ Wake \/ Transfer
        \/ Running /\ (DownloadFinished \/ DownloadError)
        \/ Running /\ (SerialDoneTimeout \/ TransferStops)

Spec == Init /\ [][Next]_vars

\* The work queue runs and threads wake up, requests are answered or time out,
\* downloads end and transfers end.
FairSpec ==
  /\ Spec
  /\ WF_vars(Worker) /\ WF_vars(Exchange) /\ WF_vars(Wake)
  /\ WF_vars(Running /\ DownloadFinished)
  /\ WF_vars(Transfer)

-----------------------------------------------------------------------------
(* Properties *)

\* Every variable has its type, and no work item is pending twice.
TypeOK ==
  /\ phase \in {"boot", "up", "half", "bare", "halted"}
  /\ dfu \in Dfu /\ IsInjective(dfu.queue)
  /\ nap \in Nap /\ status \in {"none", "asked", "lost"}
  /\ fota \in Image \cup {"none"}
  /\ slot \in Slot
  /\ line \in {"idle", "out", "in"}
  /\ sent \in BOOLEAN
  /\ want \in SUBSET Image
  /\ asks \in 0..MaxAsks
  /\ faults \in SUBSET Fault

\* What is sent to the bchip is a whole 52 image whose mcuboot flag is gone,
\* and nothing writes to the slot before the transfer has ended, through any
\* sequence of updates and failures (wk_update_mcuboot_flag_handler, perform_dfu).
SendsImage52 ==
  line = "out" => slot = [image |-> "52", flag |-> FALSE] /\ fota = "none"

\* When a download ends, m_image_file_type, which the function dfu_file_ready
\* goes by, tells the image that was downloaded.
TypeTellsDownload == fota # "none" => dfu.type = fota

\* An update that is asked for when nothing is under way reaches its chip, even
\* after earlier updates have failed: a 52 image is sent to the bchip, a 91 image
\* is in the slot with the mcuboot flag.  Only the failure to start a download
\* ends this, as http_client.c then takes a download to be under way for ever.
EveryImageArrives ==
  []("start" \notin faults) =>
     /\ "52" \in want ~> "52" \notin want \/ sent
     /\ "91" \in want ~> "91" \notin want \/ slot = [image |-> "91", flag |-> TRUE]

\* The size of an image that is downloaded was compared with the slot it is for, in
\* time and with the right size, whoever asked and whichever of two images it is.
\* Only a request for the device information that fails spoils this.
FitsTold ==
  fota # "none" /\ "status" \notin faults =>
    dfu.size[fota] < IF fota = "52" THEN Slot52 ELSE Slot91

\* The placeholder for the slot of the bchip is replaced by its size, although the
\* work queue that has to process the answer may be asleep when it comes.
PlaceholderReplaced ==
  [](faults \cap {"init", "status"} = {}) =>
    (dfu.avail["52"] = Placeholder ~> dfu.avail["52"] = Slot52)

\* The comments at dfu_modul.c:93, "Wait for asynchronous Uart Call to finish", and
\* dfu_modul.c:349-350: after the sleep the answer of the bchip has been processed.
WaitsForStatus ==
  [][nap' # nap /\ (nap'.queue = "no" /\ ~nap'.sms) =>
       "devinf" \notin ToSet(dfu.queue)]_vars

\* The comment at dfu_modul.c:299-302: the flag that fota_download adds to a 52
\* image is removed "to stop mcuboot behavior after reboot".  So a 52 image has
\* the flag only while the work item that removes it is pending.
NoFlagOn52 ==
  slot.image = "52" /\ slot.flag => dfu.type = "52" /\ "flag" \in ToSet(dfu.queue)
=============================================================================
