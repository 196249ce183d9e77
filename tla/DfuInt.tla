------------------------------- MODULE DfuInt -------------------------------
(***************************************************************************)
(* dfu_state_machine.c and dfu_servicer.c: firmware update over the device *)
(* control transport.  Two tasks share the structure dfu_data:             *)
(*                                                                         *)
(*   - the servicer task runs the dfu_int_* functions, one host command at *)
(*     a time.  It reads and writes dfu_data, then gives the request       *)
(*     counter and sets the request's bit in the mailbox, two kernel calls *)
(*     between which the other task may run;                               *)
(*   - the machine task, dfu_int_state_machine, sleeps on the mailbox,     *)
(*     takes one from the counter, and acts on the bits it woke with.      *)
(*                                                                         *)
(* One action is one step of one task between two points where the other   *)
(* task can see or change what they share.                                 *)
(***************************************************************************)
EXTENDS DfuCommon, Sequences

CONSTANTS
    Paced,          \* the host leaves each request the time to be handled
    EarlyPolls,     \* the host may send GETSTATUS before its timeout expires
    Alts,           \* the alternate settings the host may select
    TransferBlocks, \* the transfer blocks the host may select
    MaxPending      \* bound: a command starts only below this counter value

ASSUME HostAssumption ==
    /\ Paced \in BOOLEAN /\ EarlyPolls \in BOOLEAN
    /\ Alts \subseteq Alt
    /\ TransferBlocks \subseteq Nat
    /\ MaxPending \in Nat

VARIABLES
    dfu_data,         \* the structure the tasks share, bar its two handles
    notified,         \* mailbox index 0: the request bits set and not yet read
    counter,          \* mailbox index 1: requests given and not yet taken
    upload_semaphore, \* given by the machine when an upload's data is ready
    spc,              \* servicer: what it does next
    request,          \* servicer: the bit it is handing over, or "none"
    observed,         \* servicer: the state its get_status switch branched on
    reply,            \* servicer: the answer to the last command, if GETSTATUS
    mpc,              \* machine: what it does next
    notification_value, \* machine: the bits it woke with
    retval,           \* machine: the result of its flash operation
    wr_addr,          \* machine: the sector it is writing
    tmp_buf,          \* machine: the copy of the buffer write_to_flash makes
    watchdog,         \* reboot() has armed the watchdog
    posted,           \* history: requests notified since the machine woke
    woken,            \* history: requests notification_value stands for
    sent              \* history: fragments of the download of a paced host

mailbox  == <<notified, counter, posted>>
servicer == <<spc, request, observed, reply>>
machine  == <<mpc, notification_value, woken, retval, wr_addr, tmp_buf>>
vars == <<dfu_data, notified, counter, posted, upload_semaphore, spc, request,
          observed, reply, mpc, notification_value, woken, retval, wr_addr,
          tmp_buf, watchdog, sent, bytes_avail, dn_base_addr, total_len, flash>>
-----------------------------------------------------------------------------
DfuState == {"IDLE", "DNLOAD_SYNC", "DNBUSY", "DNLOAD_IDLE", "MANIFEST_SYNC",
             "MANIFEST", "UPLOAD_IDLE", "ERROR"}
Busy     == {"DNBUSY", "MANIFEST"}
Settled  == {"IDLE", "DNLOAD_IDLE", "UPLOAD_IDLE", "ERROR"}

ERR_STALLEDPKT == "errSTALLEDPKT"
Status  == {STATUS_OK, ERR_WRITE, ERR_ADDRESS, ERR_STALLEDPKT}
Request == {"DNLOAD", "UPLOAD", "GETSTATUS", "CLRSTATUS", "ABORT", "SETALTERNATE"}

DOWNLOAD_TIMEOUT_BUFFER_MS == 1
DOWNLOAD_TIMEOUT_WRITE_MS  == 3
DOWNLOAD_TIMEOUT_ERASE_MS  == 10
Timeout == {0, DOWNLOAD_TIMEOUT_BUFFER_MS, DOWNLOAD_TIMEOUT_WRITE_MS,
            DOWNLOAD_TIMEOUT_ERASE_MS}

(* Lengths are 0 or 1: an empty packet, or data for one fragment.          *)
Reply == [next : DfuState \cup {"none"}, timeout : Timeout]
NoReply == [next |-> "none", timeout |-> 0]

DfuData == [alt_setting : Alt,
            current_state : DfuState,
            current_status : Status,
            in_progress : BOOLEAN,      \* download_or_manifest_in_progress
            move_to_error : BOOLEAN,    \* its status is always ERR_STALLEDPKT
            transfer_block : Nat,
            data_xfer_length : {0, 1},
            download_block_number : Nat,
            frag_number : Frag,
            dfu_data_buffer : Sector,
            previous_timeout_ms : Timeout]

(* dfu_int_reset_download_buffer and dfu_int_reset_state: neither the      *)
(* alternate setting nor the transfer block is reset.                      *)
ResetDownloadBuffer(d) ==
    [d EXCEPT !.data_xfer_length = 0, !.frag_number = 0,
              !.download_block_number = 0, !.dfu_data_buffer = ClearBuffer]

ResetState(d) ==
    [ResetDownloadBuffer(d) EXCEPT
        !.current_state = "IDLE", !.current_status = STATUS_OK,
        !.in_progress = FALSE, !.move_to_error = FALSE]

(* What the machine task sets up before it first waits.                    *)
BootData == [alt_setting |-> 0, current_state |-> "IDLE",
             current_status |-> STATUS_OK, in_progress |-> FALSE,
             move_to_error |-> FALSE, transfer_block |-> 0,
             data_xfer_length |-> 0, download_block_number |-> 0,
             frag_number |-> 0, dfu_data_buffer |-> ClearBuffer,
             previous_timeout_ms |-> 0]

Init ==
    /\ CommonInit
    /\ dfu_data = BootData
    /\ notified = {} /\ counter = 0 /\ posted = 0
    /\ upload_semaphore = FALSE
    /\ spc = "idle" /\ request = "none" /\ observed = "IDLE"
    /\ reply = NoReply
    /\ mpc = "wait" /\ notification_value = {} /\ woken = 0
    /\ retval = STATUS_OK /\ wr_addr = 0 /\ tmp_buf = ClearBuffer
    /\ watchdog = FALSE /\ sent = <<>>
-----------------------------------------------------------------------------
(* The host and the servicer task.                                         *)

state    == dfu_data.current_state
LastFrag == NUM_FRAGMENTS - 1

Quiet == notified = {} /\ mpc = "wait"

(* When the host may start a command.  A paced host lets the mailbox drain *)
(* before each request and, while a sector is written, only polls.         *)
HostMay(r) ==
    /\ spc = "idle"
    /\ counter < MaxPending
    /\ Paced => Quiet \/ (r = "GETSTATUS" /\ state \in Busy)

Submit(r) ==
    /\ request' = r
    /\ spc' = "give"
    /\ reply' = NoReply
    /\ UNCHANGED <<observed, mailbox, upload_semaphore, machine, watchdog, commonVars>>

Download(length, data) ==
    /\ HostMay("DNLOAD")
    /\ dfu_data' = [dfu_data EXCEPT
                        !.data_xfer_length = length,
                        !.dfu_data_buffer =
                            IF length = 0 THEN @
                            ELSE [@ EXCEPT ![dfu_data.frag_number] = data]]
    /\ sent' = IF length = 1 /\ Paced THEN Append(sent, data) ELSE sent
    /\ Submit("DNLOAD")

Upload      == HostMay("UPLOAD")    /\ Submit("UPLOAD")    /\ UNCHANGED <<dfu_data, sent>>
ClearStatus == HostMay("CLRSTATUS") /\ Submit("CLRSTATUS") /\ UNCHANGED <<dfu_data, sent>>
Abort       == HostMay("ABORT")     /\ Submit("ABORT")     /\ UNCHANGED <<dfu_data, sent>>

SetAlternate(alt) ==
    /\ HostMay("SETALTERNATE")
    /\ dfu_data' = [dfu_data EXCEPT !.alt_setting = alt]
    /\ Submit("SETALTERNATE")
    /\ UNCHANGED sent

SetTransferBlock(block) ==
    /\ HostMay("TRANSFERBLOCK")
    /\ dfu_data' = [dfu_data EXCEPT !.transfer_block = block]
    /\ reply' = NoReply
    /\ UNCHANGED <<spc, request, observed, mailbox, upload_semaphore, machine,
                   watchdog, sent, commonVars>>

(* dfu_int_detach and DFU_REBOOT: reboot() arms the watchdog and returns.  *)
Reboot ==
    /\ HostMay("REBOOT")
    /\ watchdog' = TRUE
    /\ reply' = NoReply
    /\ UNCHANGED <<dfu_data, spc, request, observed, mailbox, upload_semaphore,
                   machine, sent, commonVars>>

(* dfu_int_get_status branches on the state ...                            *)
GetStatus ==
    /\ HostMay("GETSTATUS")
    /\ observed' = state
    /\ spc' = "status"
    /\ reply' = NoReply
    /\ UNCHANGED <<dfu_data, request, mailbox, upload_semaphore, machine, watchdog, sent,
                   commonVars>>

(* ... and then answers, with the state the machine is about to enter.     *)
Answer(next, timeout) ==
    /\ spc = "status"
    /\ reply' = [next |-> next, timeout |-> timeout]
    /\ observed' = "IDLE"
    /\ UNCHANGED <<mailbox, upload_semaphore, machine,
                   watchdog, sent, commonVars>>

Post == spc' = "give" /\ request' = "GETSTATUS"

(* The compiler may keep the state it branched on or read it again.        *)
StatusSettled ==
    /\ observed \in Settled
    /\ \E s \in {observed, state} : Answer(s, 0)
    /\ dfu_data' = [dfu_data EXCEPT !.previous_timeout_ms = 0]
    /\ Post

DnloadTimeout ==
    IF dfu_data.frag_number # LastFrag THEN DOWNLOAD_TIMEOUT_BUFFER_MS
    ELSE IF dfu_data.download_block_number % 16 = 0 THEN DOWNLOAD_TIMEOUT_ERASE_MS
    ELSE DOWNLOAD_TIMEOUT_WRITE_MS

(* Mutant: the prediction forgets that the block may be stored already.    *)
StatusDnloadSyncAlwaysBusy ==
    /\ observed = "DNLOAD_SYNC"
    /\ Answer("DNBUSY", DnloadTimeout)
    /\ dfu_data' = [dfu_data EXCEPT !.previous_timeout_ms = DnloadTimeout]
    /\ Post

StatusDnloadSync ==
    LET timeout == IF dfu_data.in_progress THEN DnloadTimeout ELSE 0
    IN  /\ observed = "DNLOAD_SYNC"
        /\ Answer(IF dfu_data.in_progress THEN "DNBUSY" ELSE "DNLOAD_IDLE", timeout)
        /\ dfu_data' = [dfu_data EXCEPT !.previous_timeout_ms = timeout]
        /\ Post

StatusManifestSync ==
    /\ observed = "MANIFEST_SYNC"
    /\ Answer(IF dfu_data.in_progress THEN "MANIFEST" ELSE "IDLE", 0)
    /\ dfu_data' = [dfu_data EXCEPT !.previous_timeout_ms = 0]
    /\ Post

(* A poll of a busy machine notifies nobody: too early, it asks through    *)
(* move_to_error for the error state; otherwise it repeats the timeout.    *)
StatusTooEarly ==
    /\ observed \in Busy
    /\ EarlyPolls /\ dfu_data.previous_timeout_ms > 0
    /\ Answer("ERROR", 0)
    /\ dfu_data' = [dfu_data EXCEPT !.previous_timeout_ms = 0, !.move_to_error = TRUE]
    /\ spc' = "idle" /\ UNCHANGED request

StatusStillBusy ==
    /\ observed \in Busy
    /\ \E s \in {observed, state} : Answer(s, dfu_data.previous_timeout_ms)
    /\ spc' = "idle" /\ UNCHANGED request
    /\ UNCHANGED dfu_data

(* The two kernel calls that hand a request over.                          *)
Give ==
    /\ spc = "give"
    /\ counter' = counter + 1
    /\ spc' = "notify"
    /\ UNCHANGED <<dfu_data, notified, posted, upload_semaphore, request, observed,
                   reply, machine, watchdog, sent, commonVars>>

Notify ==
    /\ spc = "notify"
    /\ notified' = notified \cup {request}
    /\ posted' = posted + 1
    /\ spc' = IF request = "UPLOAD" THEN "sem" ELSE "idle"
    /\ request' = "none"
    /\ UNCHANGED <<dfu_data, counter, upload_semaphore, observed, reply,
                   machine, watchdog, sent, commonVars>>

(* Mutant: the wait for the semaphore may time out.                        *)
UploadTakeImpatient ==
    /\ spc = "sem"
    /\ upload_semaphore' = FALSE
    /\ spc' = "copy"
    /\ UNCHANGED <<dfu_data, mailbox, request, observed, reply, machine, watchdog,
                   sent, commonVars>>

(* dfu_int_upload waits for the semaphore, then copies the shared buffer   *)
(* into the answer; UploadIntact says what it finds there.                 *)
UploadTake ==
    /\ spc = "sem"
    /\ upload_semaphore
    /\ upload_semaphore' = FALSE
    /\ spc' = "copy"
    /\ UNCHANGED <<dfu_data, mailbox, request, observed, reply, machine, watchdog,
                   sent, commonVars>>

UploadCopy ==
    /\ spc = "copy"
    /\ spc' = "idle"
    /\ UNCHANGED <<dfu_data, mailbox, upload_semaphore, request, observed, reply,
                   machine, watchdog, sent, commonVars>>
-----------------------------------------------------------------------------
(* The machine task.                                                       *)

(* xTaskNotifyWait returns the bits and clears them.                       *)
Wake ==
    /\ mpc = "wait"
    /\ notified # {}
    /\ notification_value' = notified
    /\ notified' = {}
    /\ woken' = posted
    /\ posted' = 0
    /\ mpc' = "take"
    /\ UNCHANGED <<dfu_data, counter, upload_semaphore, servicer, retval, wr_addr,
                   tmp_buf, watchdog, sent, commonVars>>

(* Back to the top of the loop, where the bits go out of scope.            *)
Forget == notification_value' = {} /\ woken' = 0
Loop   == mpc' = "wait" /\ Forget

(* dfu_int_error resets the state to IDLE, which the other task may see,   *)
(* and then stores the error.                                              *)
Fail(status) ==
    /\ dfu_data' = ResetState(dfu_data)
    /\ sent' = <<>>
    /\ retval' = status
    /\ mpc' = "error"

Stall == Fail(ERR_STALLEDPKT)

(* After an upload that was refused its semaphore is given.                *)
EnterError ==
    /\ mpc = "error"
    /\ dfu_data' = [dfu_data EXCEPT !.current_state = "ERROR", !.current_status = retval]
    /\ retval' = STATUS_OK
    /\ IF notification_value = {"UPLOAD"}
       THEN /\ upload_semaphore' = TRUE
            /\ mpc' = "getstatus"
            /\ UNCHANGED <<notification_value, woken>>
       ELSE Loop /\ UNCHANGED upload_semaphore
    /\ UNCHANGED <<mailbox, servicer, wr_addr, tmp_buf, watchdog, sent, commonVars>>

(* Mutant: a counter above 1 is accepted.                                  *)
TakeAnyCount ==
    /\ mpc = "take"
    /\ counter' = IF counter > 0 THEN counter - 1 ELSE 0
    /\ IF counter >= 1
       THEN mpc' = "dispatch" /\ UNCHANGED <<dfu_data, sent, notification_value, woken, retval>>
       ELSE Stall /\ Forget
    /\ UNCHANGED <<notified, posted, upload_semaphore, servicer, wr_addr,
                   tmp_buf, watchdog, commonVars>>

(* Mutant: a refused wake-up gives the semaphore, whoever waits for it.    *)
TakeAlwaysGives ==
    /\ mpc = "take"
    /\ counter' = IF counter > 0 THEN counter - 1 ELSE 0
    /\ IF counter = 1
       THEN /\ mpc' = "dispatch"
            /\ UNCHANGED <<dfu_data, sent, notification_value, woken, retval,
                           upload_semaphore>>
       ELSE Stall /\ Forget /\ upload_semaphore' = TRUE
    /\ UNCHANGED <<notified, posted, servicer, wr_addr, tmp_buf, watchdog, commonVars>>

(* ulTaskNotifyTakeIndexed takes one: exactly one request must be pending. *)
Take ==
    /\ mpc = "take"
    /\ counter' = IF counter > 0 THEN counter - 1 ELSE 0
    /\ IF counter = 1
       THEN mpc' = "dispatch" /\ UNCHANGED <<dfu_data, sent, notification_value, woken, retval>>
       ELSE Stall /\ Forget
    /\ UNCHANGED <<notified, posted, upload_semaphore, servicer, wr_addr,
                   tmp_buf, watchdog, commonVars>>

(* A request that is handled in one step, after which the machine waits,   *)
(* unless it is not valid in this state.                                   *)
Handle(r, valid, data) ==
    /\ mpc = "dispatch" /\ notification_value = {r}
    /\ IF valid
       THEN /\ dfu_data' = data
            /\ sent' = IF data.current_state = "IDLE" THEN <<>> ELSE sent
            /\ Loop
            /\ UNCHANGED retval
       ELSE Stall /\ Forget
    /\ UNCHANGED <<mailbox, upload_semaphore, servicer, wr_addr, tmp_buf,
                   watchdog, commonVars>>

DoDnload ==
    Handle("DNLOAD",
           state = "DNLOAD_IDLE" \/ (dfu_data.data_xfer_length # 0 /\ state = "IDLE"),
           IF dfu_data.data_xfer_length # 0
           THEN [dfu_data EXCEPT !.in_progress = TRUE, !.current_state = "DNLOAD_SYNC"]
           ELSE [ResetDownloadBuffer(dfu_data) EXCEPT
                    !.in_progress = TRUE, !.current_state = "MANIFEST_SYNC"])

DoClrStatus == Handle("CLRSTATUS", state = "ERROR", ResetState(dfu_data))

DoAbort ==
    Handle("ABORT", state \in {"UPLOAD_IDLE", "DNLOAD_IDLE"}, ResetState(dfu_data))

DoSetAlternate == Handle("SETALTERNATE", TRUE, ResetState(dfu_data))

(* The fragment transfer_block designates goes to the head of the buffer;  *)
(* then the semaphore is given, and the case falls through to GETSTATUS.   *)
UploadData ==
    IF Readable(dfu_data.alt_setting, dfu_data.transfer_block)
    THEN [dfu_data EXCEPT
             !.data_xfer_length = 1,
             !.dfu_data_buffer =
                 [ClearBuffer EXCEPT ![0] =
                     FragmentAt(dfu_data.alt_setting, dfu_data.transfer_block)],
             !.transfer_block = @ + 1,
             !.current_state = "UPLOAD_IDLE"]
    ELSE [dfu_data EXCEPT
             !.data_xfer_length = 0, !.dfu_data_buffer = ClearBuffer,
             !.transfer_block = 0, !.current_state = "IDLE"]

(* Mutant: the semaphore is given only when there is data.                 *)
DoUploadForgetsWaiter ==
    /\ mpc = "dispatch" /\ notification_value = {"UPLOAD"}
    /\ state \in {"IDLE", "UPLOAD_IDLE"}
    /\ dfu_data' = UploadData
    /\ sent' = <<>>
    /\ upload_semaphore' = (dfu_data'.data_xfer_length = 1)
    /\ mpc' = "getstatus"
    /\ UNCHANGED <<mailbox, servicer, notification_value, woken, retval, wr_addr,
                   tmp_buf, watchdog, commonVars>>

DoUpload ==
    /\ mpc = "dispatch" /\ notification_value = {"UPLOAD"}
    /\ state \in {"IDLE", "UPLOAD_IDLE"}
    /\ dfu_data' = UploadData
    /\ sent' = <<>>
    /\ upload_semaphore' = TRUE
    /\ mpc' = "getstatus"
    /\ UNCHANGED <<mailbox, servicer, notification_value, woken, retval, wr_addr,
                   tmp_buf, watchdog, commonVars>>

UploadStalls ==
    /\ mpc = "dispatch" /\ notification_value = {"UPLOAD"}
    /\ state \notin {"IDLE", "UPLOAD_IDLE"}
    /\ Stall
    /\ UNCHANGED <<mailbox, upload_semaphore, servicer, notification_value, woken,
                   wr_addr, tmp_buf, watchdog, commonVars>>

AtGetStatus ==
    \/ mpc = "getstatus"
    \/ mpc = "dispatch" /\ notification_value = {"GETSTATUS"}

(* The machine's own step of GETSTATUS: settled states stay, the SYNC      *)
(* states move on, and any other state is an error.                        *)
DoGetStatus(data) ==
    /\ AtGetStatus
    /\ dfu_data' = data
    /\ sent' = IF data.current_state \in {"IDLE", "ERROR"} THEN <<>> ELSE sent
    /\ UNCHANGED <<mailbox, upload_semaphore, servicer, retval, wr_addr, tmp_buf,
                   watchdog, commonVars>>

Begin(step) == mpc' = step /\ UNCHANGED <<notification_value, woken>>

GetStatusElsewhere ==
    /\ state \notin {"DNLOAD_SYNC", "MANIFEST_SYNC"}
    /\ IF state \in Settled
       THEN DoGetStatus(dfu_data) /\ Loop
       ELSE /\ AtGetStatus
            /\ Stall /\ Forget
            /\ UNCHANGED <<mailbox, upload_semaphore, servicer, wr_addr, tmp_buf,
                           watchdog, commonVars>>

SyncDone ==
    /\ state \in {"DNLOAD_SYNC", "MANIFEST_SYNC"} /\ ~dfu_data.in_progress
    /\ DoGetStatus([dfu_data EXCEPT !.current_state =
                        IF state = "DNLOAD_SYNC" THEN "DNLOAD_IDLE" ELSE "IDLE"])
    /\ Loop

DnloadBusy ==
    /\ state = "DNLOAD_SYNC" /\ dfu_data.in_progress
    /\ DoGetStatus([dfu_data EXCEPT !.current_state = "DNBUSY"])
    /\ Begin("busy")

ManifestBusy ==
    /\ state = "MANIFEST_SYNC" /\ dfu_data.in_progress
    /\ DoGetStatus([dfu_data EXCEPT !.current_state = "MANIFEST"])
    /\ Begin("manifest")

(* Mutant: the last fragment of a sector is taken for one more to buffer.  *)
BufferFragmentPastEnd ==
    /\ mpc = "busy"
    /\ dfu_data.frag_number # NUM_FRAGMENTS
    /\ dfu_data' = [dfu_data EXCEPT !.frag_number = @ + 1, !.in_progress = FALSE]
    /\ retval' = STATUS_OK
    /\ mpc' = "finish"
    /\ UNCHANGED <<mailbox, upload_semaphore, servicer, notification_value, woken,
                   wr_addr, tmp_buf, watchdog, sent, commonVars>>

(* Mutant: the in-progress flag is cleared only when a sector is written.  *)
BufferFragmentStillInProgress ==
    /\ mpc = "busy"
    /\ dfu_data.frag_number # LastFrag
    /\ dfu_data' = [dfu_data EXCEPT !.frag_number = @ + 1]
    /\ retval' = STATUS_OK
    /\ mpc' = "finish"
    /\ UNCHANGED <<mailbox, upload_semaphore, servicer, notification_value, woken,
                   wr_addr, tmp_buf, watchdog, sent, commonVars>>

(* While the state is DNBUSY: the fragment only advances the buffer ...    *)
BufferFragment ==
    /\ mpc = "busy"
    /\ dfu_data.frag_number # LastFrag
    /\ dfu_data' = [dfu_data EXCEPT !.frag_number = @ + 1, !.in_progress = FALSE]
    /\ retval' = STATUS_OK
    /\ mpc' = "finish"
    /\ UNCHANGED <<mailbox, upload_semaphore, servicer, notification_value, woken,
                   wr_addr, tmp_buf, watchdog, sent, commonVars>>

(* ... or completes a sector: dfu_common_write_to_flash refuses it,        *)
WriteRefused ==
    /\ mpc = "busy"
    /\ dfu_data.frag_number = LastFrag
    /\ \/ /\ ~Writable(dfu_data.alt_setting)
          /\ retval' = ERR_WRITE
          /\ UNCHANGED <<bytes_avail, dn_base_addr, total_len>>
       \/ /\ Writable(dfu_data.alt_setting)
          /\ OpenPartition(dfu_data.alt_setting)
          /\ ~HasRoom
          /\ retval' = ERR_ADDRESS
    /\ mpc' = "written"
    /\ UNCHANGED <<dfu_data, mailbox, upload_semaphore, servicer,
                   notification_value, woken, wr_addr, tmp_buf, watchdog, sent, flash>>

(* Mutant: the address comes from the length already written.              *)
WriteBeginAtLength ==
    /\ mpc = "busy"
    /\ dfu_data.frag_number = LastFrag
    /\ Writable(dfu_data.alt_setting)
    /\ OpenPartition(dfu_data.alt_setting)
    /\ HasRoom
    /\ wr_addr' = dn_base_addr' + total_len'
    /\ tmp_buf' = dfu_data.dfu_data_buffer
    /\ mpc' = "erase"
    /\ UNCHANGED <<dfu_data, mailbox, upload_semaphore, servicer,
                   notification_value, woken, retval, watchdog, sent, flash>>

(* or it finds the address, copies the buffer, erases and programs.        *)
WriteBegin ==
    /\ mpc = "busy"
    /\ dfu_data.frag_number = LastFrag
    /\ Writable(dfu_data.alt_setting)
    /\ OpenPartition(dfu_data.alt_setting)
    /\ HasRoom
    /\ wr_addr' = dn_base_addr' + dfu_data.download_block_number
    /\ tmp_buf' = dfu_data.dfu_data_buffer
    /\ mpc' = "erase"
    /\ UNCHANGED <<dfu_data, mailbox, upload_semaphore, servicer,
                   notification_value, woken, retval, watchdog, sent, flash>>

FlashErase ==
    /\ mpc = "erase"
    /\ EraseSector(wr_addr)
    /\ mpc' = "program"
    /\ UNCHANGED <<dfu_data, mailbox, upload_semaphore, servicer,
                   notification_value, woken, retval, wr_addr, tmp_buf, watchdog,
                   sent, bytes_avail, dn_base_addr, total_len>>

FlashProgram ==
    /\ mpc = "program"
    /\ ProgramSector(wr_addr, tmp_buf)
    /\ retval' = STATUS_OK
    /\ mpc' = "written"
    /\ UNCHANGED <<dfu_data, mailbox, upload_semaphore, servicer,
                   notification_value, woken, wr_addr, tmp_buf, watchdog, sent,
                   bytes_avail, dn_base_addr>>

SectorDone ==
    /\ mpc = "written"
    /\ dfu_data' = [dfu_data EXCEPT !.dfu_data_buffer = ClearBuffer,
                                    !.frag_number = 0,
                                    !.download_block_number = @ + 1,
                                    !.in_progress = FALSE]
    /\ wr_addr' = 0 /\ tmp_buf' = ClearBuffer
    /\ mpc' = "finish"
    /\ UNCHANGED <<mailbox, upload_semaphore, servicer, notification_value, woken,
                   retval, watchdog, sent, commonVars>>

Manifest ==
    /\ mpc = "manifest"
    /\ MakeManifest
    /\ retval' = STATUS_OK
    /\ dfu_data' = [dfu_data EXCEPT !.in_progress = FALSE]
    /\ mpc' = "finish"
    /\ UNCHANGED <<mailbox, upload_semaphore, servicer, notification_value, woken,
                   wr_addr, tmp_buf, watchdog, sent, bytes_avail, total_len, flash>>

(* The deferred move to error comes before the result of the flash.        *)
Failure == IF dfu_data.move_to_error THEN ERR_STALLEDPKT ELSE retval

(* Mutant: a success leaves the busy state to the next request.            *)
FinishStaysBusy ==
    /\ mpc = "finish"
    /\ IF Failure # STATUS_OK
       THEN Fail(Failure) /\ Forget
       ELSE Loop /\ UNCHANGED <<dfu_data, sent, retval>>
    /\ UNCHANGED <<mailbox, upload_semaphore, servicer, wr_addr, tmp_buf,
                   watchdog, commonVars>>

(* Mutant: the deferred move to error is for the next request to make.     *)
FinishClearsDeferred ==
    /\ mpc = "finish"
    /\ IF retval # STATUS_OK
       THEN Fail(retval) /\ Forget
       ELSE /\ dfu_data' = [dfu_data EXCEPT
                   !.move_to_error = FALSE,
                   !.current_state = IF state = "DNBUSY" THEN "DNLOAD_SYNC"
                                                         ELSE "MANIFEST_SYNC"]
            /\ Loop /\ UNCHANGED <<sent, retval>>
    /\ UNCHANGED <<mailbox, upload_semaphore, servicer, wr_addr, tmp_buf,
                   watchdog, commonVars>>

(* An error, or back to the SYNC state.                                    *)
Finish ==
    /\ mpc = "finish"
    /\ IF Failure # STATUS_OK
       THEN Fail(Failure) /\ Forget
       ELSE /\ dfu_data' = [dfu_data EXCEPT
                   !.current_state = IF state = "DNBUSY" THEN "DNLOAD_SYNC"
                                                         ELSE "MANIFEST_SYNC"]
            /\ Loop /\ UNCHANGED <<sent, retval>>
    /\ UNCHANGED <<mailbox, upload_semaphore, servicer, wr_addr, tmp_buf,
                   watchdog, commonVars>>

(* The armed watchdog resets the chip: only the flash survives.            *)
Reset ==
    /\ watchdog
    /\ dfu_data' = BootData
    /\ notified' = {} /\ counter' = 0 /\ posted' = 0
    /\ upload_semaphore' = FALSE
    /\ spc' = "idle" /\ request' = "none" /\ observed' = "IDLE"
    /\ reply' = NoReply
    /\ mpc' = "wait" /\ notification_value' = {} /\ woken' = 0
    /\ retval' = STATUS_OK /\ wr_addr' = 0 /\ tmp_buf' = ClearBuffer
    /\ watchdog' = FALSE /\ sent' = <<>>
    /\ bytes_avail' = 0 /\ dn_base_addr' = 0 /\ total_len' = 0
    /\ UNCHANGED flash
-----------------------------------------------------------------------------
HostNext ==
    \/ \E data \in Payload : Download(1, data)
    \/ Download(0, Zero)
    \/ Upload
    \/ ClearStatus
    \/ Abort
    \/ \E alt \in Alts : SetAlternate(alt)
    \/ \E block \in TransferBlocks : SetTransferBlock(block)
    \/ Reboot
    \/ GetStatus

ServicerNext ==
    \/ StatusSettled
    \/ StatusDnloadSync
    \/ StatusManifestSync
    \/ StatusTooEarly
    \/ StatusStillBusy
    \/ Give
    \/ Notify
    \/ UploadTake
    \/ UploadCopy

MachineNext ==
    \/ Wake
    \/ Take
    \/ EnterError
    \/ DoDnload
    \/ DoUpload
    \/ UploadStalls
    \/ DoClrStatus
    \/ DoAbort
    \/ DoSetAlternate
    \/ GetStatusElsewhere
    \/ SyncDone
    \/ DnloadBusy
    \/ ManifestBusy
    \/ BufferFragment
    \/ WriteRefused
    \/ WriteBegin
    \/ FlashErase
    \/ FlashProgram
    \/ SectorDone
    \/ Manifest
    \/ Finish

Next == HostNext \/ ServicerNext \/ MachineNext \/ Reset

Spec == Init /\ [][Next]_vars

(* Both tasks have equal priority on a scheduler with cores to spare, so   *)
(* each one that can run eventually does.  Nothing obliges the host to     *)
(* send anything, nor the watchdog to be armed.                            *)
Fairness == WF_vars(ServicerNext) /\ WF_vars(MachineNext)

FairSpec == Spec /\ Fairness
=============================================================================
