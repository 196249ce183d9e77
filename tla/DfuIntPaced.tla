----------------------------- MODULE DfuIntPaced -----------------------------
(***************************************************************************)
(* What DfuInt keeps for a paced host, proved for every layout and every   *)
(* number of fragments: the image is assembled in order, and, when the     *)
(* host also respects the timeouts, the predictions of get_status come     *)
(* true.                                                                   *)
(***************************************************************************)
EXTENDS DfuIntSafety, DfuIntPacedInv
-----------------------------------------------------------------------------
(* The pace.                                                               *)

StatusPost  == StatusSettled \/ StatusDnloadSync \/ StatusManifestSync
StatusOnly  == StatusTooEarly \/ StatusStillBusy
Submitted   == Upload \/ ClearStatus \/ Abort \/ Download(0, Zero)
                  \/ (\E data \in Payload : Download(1, data))
                  \/ (\E alt \in Alts : SetAlternate(alt))
Unsubmitted == Reboot \/ (\E block \in TransferBlocks : SetTransferBlock(block))
Handled     == MachineNext /\ ~ Wake /\ ~ Take

(* A paced host submits to a machine at rest, and nothing polls but        *)
(* GETSTATUS.                                                              *)
LEMMA HostEffect ==
    ASSUME Paced
    PROVE  /\ Submitted \/ Unsubmitted => Quiet
           /\ GetStatus => Quiet \/ state \in Busy
           /\ Submitted => /\ spc = "idle" /\ spc' = "give"
                           /\ request' \in Request /\ request' # "GETSTATUS"
           /\ Unsubmitted => spc = "idle" /\ UNCHANGED <<spc, request>>
           /\ GetStatus => /\ spc = "idle" /\ spc' = "status"
                           /\ observed' = state /\ UNCHANGED <<dfu_data, request>>
           /\ Submitted \/ Unsubmitted \/ GetStatus => reply' = NoReply
<1> USE DEF HostMay, Submit, Request
<1>1. Submitted => /\ Quiet /\ spc = "idle" /\ spc' = "give" /\ reply' = NoReply
                   /\ request' \in Request /\ request' # "GETSTATUS"
  BY DEF Submitted, Upload, ClearStatus, Abort, Download, SetAlternate
<1>2. Unsubmitted => /\ Quiet /\ spc = "idle" /\ reply' = NoReply
                     /\ UNCHANGED <<spc, request>>
  BY DEF Unsubmitted, Reboot, SetTransferBlock
<1>3. GetStatus => /\ Quiet \/ state \in Busy
                   /\ spc = "idle" /\ spc' = "status" /\ reply' = NoReply
                   /\ observed' = state /\ UNCHANGED <<dfu_data, request>>
  BY DEF GetStatus
<1> QED BY <1>1, <1>2, <1>3

LEMMA StatusEffect ==
    /\ StatusPost => /\ spc = "status" /\ spc' = "give" /\ request' = "GETSTATUS"
                     /\ observed \notin Busy
    /\ StatusOnly => /\ spc = "status" /\ spc' = "idle" /\ UNCHANGED request
                     /\ observed \in Busy
BY DEF StatusPost, StatusOnly, StatusSettled, StatusDnloadSync, StatusManifestSync,
       StatusTooEarly, StatusStillBusy, Answer, Post, Settled, Busy

LEMMA PacedStep ==
    ASSUME Paced, TypeOK, MailboxInv, UploadInv, NeverDispatchedBusy, WriteInv, PacedInv,
           [Next]_vars
    PROVE  PacedInv'
<1> USE DEF mailbox, machine, servicer
<1>0. counter \in Nat /\ posted \in Nat /\ woken \in Nat
  BY DEF TypeOK
<1>1. CASE HostNext
  <2>1. UNCHANGED <<mailbox, machine>>
    BY <1>1, CommandsKeepMailbox
  <2>2. state' = state
    BY <1>1, CommandsKeepWrites DEF state
  <2>3. Submitted \/ Unsubmitted \/ GetStatus
    BY <1>1 DEF HostNext, Submitted, Unsubmitted
  <2>4. CASE Submitted \/ Unsubmitted
    <3>1. /\ notified = {} /\ mpc = "wait" /\ spc = "idle" /\ spc' \in {"idle", "give"}
      BY <2>4, HostEffect DEF Quiet
    <3>2. counter = 0 /\ posted = 0
      BY <3>1 DEF PacedInv, Given
    <3>3. /\ counter' = 0 /\ posted' = 0 /\ notified' = {} /\ mpc' = "wait"
          /\ spc' \in {"idle", "give"}
      BY <2>1, <3>1, <3>2
    <3>4. Given' = 0 /\ counter' = posted' + Given' /\ Quiet'
      BY <3>3 DEF Given, Quiet
    <3> QED BY <3>3, <3>4, Zenon DEF PacedInv
  <2>5. CASE GetStatus
    <3>1. /\ spc = "idle" /\ spc' = "status" /\ observed' = state
          /\ Quiet \/ state \in Busy
      BY <2>5, HostEffect
    <3>2. mpc \notin {"take", "dispatch", "getstatus", "error"} /\ notified = {}
      BY <3>1 DEF NeverDispatchedBusy, WriteInv, PlacesInv, PacedInv, Quiet, Busy
    <3>3. Given' = Given /\ Quiet' = Quiet /\ counter' = posted' + Given'
      BY <2>1, <3>1 DEF Given, Quiet, PacedInv
    <3>4. observed' \in Busy \/ (Quiet' /\ observed' = state')
      BY <2>2, <3>1, <3>3
    <3> QED BY <2>1, <3>1, <3>2, <3>3, <3>4 DEF PacedInv
  <2> QED BY <2>3, <2>4, <2>5
<1>2. CASE StatusPost \/ StatusOnly
  <2>1. UNCHANGED <<mailbox, machine>>
    BY <1>2, CommandsKeepMailbox DEF StatusPost, StatusOnly
  <2> QED BY <1>2, <2>1, StatusEffect DEF PacedInv, Quiet, Given
<1>3. CASE Give
  BY <1>0, <1>3 DEF PacedInv, Quiet, Given, Give
<1>4. CASE Notify
  BY <1>0, <1>4 DEF PacedInv, Quiet, Given, Notify
<1>5. CASE UploadTake \/ UploadCopy
  <2>1. /\ UNCHANGED <<mailbox, machine>> /\ spc \in {"sem", "copy"}
        /\ spc' \in {"copy", "idle"} /\ (spc' = "copy" => upload_semaphore)
    BY <1>5 DEF UploadTake, UploadCopy
  <2>2. spc' = "copy" => notified = {} /\ mpc \notin {"take", "dispatch", "error"}
    BY <2>1 DEF UploadInv, PacedInv
  <2> QED BY <2>1, <2>2 DEF PacedInv, Given
<1>6. CASE Wake
  BY <1>0, <1>6 DEF PacedInv, Quiet, Given, Wake
<1>7. CASE Take
  <2>1. counter = 1 /\ notified = {} /\ posted = 0
    BY <1>0, <1>7 DEF PacedInv, Given, Take
  <2> QED BY <1>7, <2>1 DEF PacedInv, Quiet, Given, Take
<1>8. CASE Handled
  <2>1. /\ UNCHANGED <<mailbox, servicer>> /\ mpc \notin {"wait", "take"}
        /\ mpc' \notin {"take", "dispatch"}
        /\ mpc' = "error" /\ notification_value' # {} => mpc = "dispatch"
    BY <1>8, HandlingKeepsMailbox DEF Handled, Forget
  <2>2. notified = {} /\ spc \notin {"give", "notify"}
        /\ (spc = "status" => observed \in Busy)
    BY <2>1 DEF PacedInv, Quiet
  <2>3. mpc' = "getstatus" => mpc = "dispatch" \/ (mpc = "error" /\ notification_value # {})
    BY <1>8 DEF Handled, MachineNext, EnterError, DoDnload, DoClrStatus, DoAbort,
       DoSetAlternate, DoUpload, UploadStalls, Handle, GetStatusElsewhere, SyncDone,
       DnloadBusy, ManifestBusy, DoGetStatus, Loop, Begin, Stall, Fail, BufferFragment,
       WriteRefused, WriteBegin, FlashErase, FlashProgram, SectorDone, Manifest, Finish
  <2> QED BY <2>1, <2>2, <2>3 DEF PacedInv, Quiet, Given
<1>9. CASE Reset
  BY <1>9 DEF PacedInv, Quiet, Given, Reset
<1>10. CASE UNCHANGED vars
  BY <1>10 DEF PacedInv, Quiet, Given, vars, state
<1> QED
  BY <1>1, <1>2, <1>3, <1>4, <1>5, <1>6, <1>7, <1>8, <1>9, <1>10
  DEF Next, ServicerNext, StatusPost, StatusOnly, Handled
-----------------------------------------------------------------------------
(* The request on its way.                                                 *)

LEMMA FlightKept ==
    ASSUME Paced, TypeOK, MailboxInv, PacedInv
    PROVE  /\ Give \/ Notify \/ Wake \/ Take => InFlight' = InFlight /\ UNCHANGED dfu_data
           /\ Submitted \/ StatusPost => InFlight' = {request'}
           /\ Unsubmitted \/ GetStatus \/ StatusOnly \/ UploadTake \/ UploadCopy
                => InFlight' = InFlight
           /\ Handled => InFlight' = {"none"}
<1> USE DEF mailbox, machine, servicer
<1>1. ASSUME Give \/ Notify \/ Wake \/ Take
      PROVE  InFlight' = InFlight /\ UNCHANGED dfu_data
  <2>1. CASE Give
    BY <2>1 DEF Give, InFlight
  <2>2. CASE Notify
    <3>1. notified' = {request} /\ spc' \notin {"give", "notify"}
      BY <2>2 DEF Notify, PacedInv, Quiet
    <3> QED BY <2>2, <3>1 DEF Notify, InFlight
  <2>3. CASE Wake
    BY <2>3 DEF Wake, InFlight, PacedInv
  <2>4. CASE Take
    <3>1. counter = 1 /\ notified = {}
      BY <2>4 DEF Take, TypeOK, PacedInv, Given
    <3> QED BY <2>4, <3>1 DEF Take, InFlight
  <2> QED BY <1>1, <2>1, <2>2, <2>3, <2>4
<1>2. ASSUME Submitted \/ StatusPost PROVE InFlight' = {request'}
  <2>1. spc' = "give"
    BY <1>2, StatusEffect, HostEffect
  <2>2. Quiet
    BY <1>2, StatusEffect, HostEffect DEF PacedInv
  <2>3. UNCHANGED <<mailbox, machine>>
    BY <1>2, CommandsKeepMailbox DEF Submitted, HostNext, StatusPost
  <2> QED BY <2>1, <2>2, <2>3 DEF InFlight, Quiet
<1>3. ASSUME Unsubmitted \/ GetStatus \/ StatusOnly \/ UploadTake \/ UploadCopy
      PROVE  InFlight' = InFlight
  <2>1. /\ UNCHANGED <<notified, mpc, notification_value>>
        /\ spc \notin {"give", "notify"} /\ spc' \notin {"give", "notify"}
    BY <1>3, StatusEffect DEF Unsubmitted, Reboot, SetTransferBlock, HostMay, GetStatus,
           StatusOnly, StatusTooEarly, StatusStillBusy, Answer, UploadTake, UploadCopy
  <2> QED BY <2>1 DEF InFlight
<1>4. ASSUME Handled PROVE InFlight' = {"none"}
  <2>1. /\ UNCHANGED <<mailbox, servicer>> /\ mpc \notin {"wait", "take"}
        /\ mpc' \notin {"take", "dispatch"}
    BY <1>4, HandlingKeepsMailbox DEF Handled
  <2>2. notified = {} /\ spc \notin {"give", "notify"}
    BY <2>1 DEF PacedInv, Quiet
  <2> QED BY <2>1, <2>2 DEF InFlight
<1> QED BY <1>1, <1>2, <1>3, <1>4

-----------------------------------------------------------------------------
(* What the steps do to dfu_data, in its fields.                           *)
Now(next, progress) ==
    /\ dfu_data'.current_state = next /\ dfu_data'.in_progress = progress
    /\ dfu_data'.move_to_error = dfu_data.move_to_error

Place(frag, block) ==
    /\ dfu_data'.frag_number = frag /\ dfu_data'.download_block_number = block

SamePlace ==
    /\ Place(dfu_data.frag_number, blocks)
    /\ dfu_data'.dfu_data_buffer = dfu_data.dfu_data_buffer

Cleared(next) ==
    /\ dfu_data'.current_state = next /\ Place(0, 0)
    /\ dfu_data'.in_progress = FALSE /\ dfu_data'.move_to_error = FALSE

Failing == mpc' = "error" /\ sent' = <<>> /\ Cleared("IDLE")

LEMMA ClearedFields ==
    ASSUME TypeOK, NEW status
    PROVE  /\ Fail(status) => Failing
           /\ dfu_data' = ResetState(dfu_data) => Cleared("IDLE")
<1>1. dfu_data' = ResetState(dfu_data) => Cleared("IDLE")
  BY DEF TypeOK, DfuData, Cleared, Place, ResetState, ResetDownloadBuffer
<1> QED BY <1>1 DEF Fail, Failing

LEMMA HandleFields ==
    ASSUME TypeOK
    PROVE  /\ DoDnload =>
                IF dfu_data.data_xfer_length = 1 /\ state \in {"IDLE", "DNLOAD_IDLE"}
                THEN Now("DNLOAD_SYNC", TRUE) /\ SamePlace /\ mpc' = "wait"
                ELSE IF dfu_data.data_xfer_length = 0 /\ state = "DNLOAD_IDLE"
                THEN Now("MANIFEST_SYNC", TRUE) /\ Place(0, 0) /\ mpc' = "wait"
                ELSE Failing
           /\ DoUpload =>
                /\ state \in {"IDLE", "UPLOAD_IDLE"} /\ mpc' = "getstatus"
                /\ \/ Now("UPLOAD_IDLE", dfu_data.in_progress)
                   \/ Now("IDLE", dfu_data.in_progress)
                /\ Place(dfu_data.frag_number, blocks)
           /\ UploadStalls => state \notin {"IDLE", "UPLOAD_IDLE"} /\ Failing
           /\ DoClrStatus =>
                IF state = "ERROR" THEN Cleared("IDLE") /\ mpc' = "wait" ELSE Failing
           /\ DoAbort =>
                IF state \in {"UPLOAD_IDLE", "DNLOAD_IDLE"}
                THEN Cleared("IDLE") /\ mpc' = "wait" ELSE Failing
           /\ DoSetAlternate => Cleared("IDLE") /\ mpc' = "wait"
<1>0. dfu_data \in DfuData
  BY DEF TypeOK
<1> USE DEF Now, Place, SamePlace, state, blocks
<1>1. ASSUME DoDnload
      PROVE  IF dfu_data.data_xfer_length = 1 /\ state \in {"IDLE", "DNLOAD_IDLE"}
             THEN Now("DNLOAD_SYNC", TRUE) /\ SamePlace /\ mpc' = "wait"
             ELSE IF dfu_data.data_xfer_length = 0 /\ state = "DNLOAD_IDLE"
             THEN Now("MANIFEST_SYNC", TRUE) /\ Place(0, 0) /\ mpc' = "wait"
             ELSE Failing
  <2>1. CASE dfu_data.data_xfer_length = 1 /\ state \in {"IDLE", "DNLOAD_IDLE"}
    <3>1. dfu_data' = [dfu_data EXCEPT !.in_progress = TRUE,
                                       !.current_state = "DNLOAD_SYNC"]
          /\ mpc' = "wait"
      BY <1>1, <2>1 DEF DoDnload, Handle, Loop
    <3> QED BY <1>0, <1>1, <2>1, <3>1 DEF DfuData
  <2>2. CASE dfu_data.data_xfer_length = 0 /\ state = "DNLOAD_IDLE"
    <3>1. dfu_data' = [ResetDownloadBuffer(dfu_data) EXCEPT
                           !.in_progress = TRUE, !.current_state = "MANIFEST_SYNC"]
          /\ mpc' = "wait"
      BY <1>1, <2>2 DEF DoDnload, Handle, Loop
    <3> QED BY <1>0, <2>2, <3>1 DEF DfuData, ResetDownloadBuffer
  <2>3. dfu_data.data_xfer_length \in {0, 1}
    BY <1>0 DEF DfuData
  <2>4. CASE ~ (dfu_data.data_xfer_length = 1 /\ state \in {"IDLE", "DNLOAD_IDLE"})
             /\ ~ (dfu_data.data_xfer_length = 0 /\ state = "DNLOAD_IDLE")
    <3>1. Stall
      BY <1>1, <2>3, <2>4 DEF DoDnload, Handle
    <3> QED BY <2>4, <3>1, ClearedFields DEF Stall
  <2> QED BY <2>1, <2>2, <2>4
<1>2. DoUpload =>
        /\ state \in {"IDLE", "UPLOAD_IDLE"} /\ mpc' = "getstatus"
        /\ \/ Now("UPLOAD_IDLE", dfu_data.in_progress)
           \/ Now("IDLE", dfu_data.in_progress)
        /\ Place(dfu_data.frag_number, blocks)
  BY <1>0 DEF DoUpload, UploadData, DfuData
<1>3. UploadStalls => state \notin {"IDLE", "UPLOAD_IDLE"} /\ Failing
  BY ClearedFields DEF UploadStalls, Stall
<1>4. DoClrStatus => IF state = "ERROR" THEN Cleared("IDLE") /\ mpc' = "wait" ELSE Failing
  BY ClearedFields DEF DoClrStatus, Handle, Stall, Loop
<1>5. DoAbort => IF state \in {"UPLOAD_IDLE", "DNLOAD_IDLE"}
                 THEN Cleared("IDLE") /\ mpc' = "wait" ELSE Failing
  BY ClearedFields DEF DoAbort, Handle, Stall, Loop
<1>6. DoSetAlternate => Cleared("IDLE") /\ mpc' = "wait"
  BY ClearedFields DEF DoSetAlternate, Handle, Loop
<1> QED BY <1>1, <1>2, <1>3, <1>4, <1>5, <1>6

LEMMA WorkFields ==
    ASSUME TypeOK, NeverDispatchedBusy
    PROVE  /\ GetStatusElsewhere =>
                UNCHANGED dfu_data /\ state \in Settled /\ mpc' = "wait"
           /\ EnterError => /\ Now("ERROR", dfu_data.in_progress) /\ SamePlace
                            /\ dfu_data'.data_xfer_length = dfu_data.data_xfer_length
           /\ SyncDone =>
                /\ state \in {"DNLOAD_SYNC", "MANIFEST_SYNC"} /\ ~ dfu_data.in_progress
                /\ Now(IF state = "DNLOAD_SYNC" THEN "DNLOAD_IDLE" ELSE "IDLE", FALSE)
                /\ SamePlace
           /\ DnloadBusy => /\ state = "DNLOAD_SYNC" /\ dfu_data.in_progress
                            /\ Now("DNBUSY", TRUE) /\ SamePlace
           /\ ManifestBusy => /\ state = "MANIFEST_SYNC" /\ dfu_data.in_progress
                              /\ Now("MANIFEST", TRUE) /\ SamePlace
           /\ BufferFragment =>
                /\ Now(state, FALSE) /\ Place(dfu_data.frag_number + 1, blocks)
                /\ dfu_data'.dfu_data_buffer = dfu_data.dfu_data_buffer
           /\ SectorDone => Now(state, FALSE) /\ Place(0, blocks + 1)
           /\ Manifest => Now(state, FALSE) /\ SamePlace
           /\ Finish =>
                IF dfu_data.move_to_error \/ retval # STATUS_OK
                THEN Failing
                ELSE /\ Now(IF state = "DNBUSY" THEN "DNLOAD_SYNC" ELSE "MANIFEST_SYNC",
                            dfu_data.in_progress)
                     /\ SamePlace /\ mpc' = "wait"
<1>0. dfu_data \in DfuData
  BY DEF TypeOK
<1> USE DEF Now, Place, SamePlace, state, blocks
<1>1. ASSUME GetStatusElsewhere
      PROVE  UNCHANGED dfu_data /\ state \in Settled /\ mpc' = "wait"
  <2>1. state \in Settled
    BY <1>0, <1>1 DEF GetStatusElsewhere, DoGetStatus, AtGetStatus, NeverDispatchedBusy,
           Settled, Busy, DfuData, DfuState
  <2> QED BY <1>1, <2>1 DEF GetStatusElsewhere, DoGetStatus, Loop
<1>error. EnterError => /\ Now("ERROR", dfu_data.in_progress) /\ SamePlace
                        /\ dfu_data'.data_xfer_length = dfu_data.data_xfer_length
  BY <1>0 DEF EnterError, DfuData
<1>2. SyncDone =>
        /\ state \in {"DNLOAD_SYNC", "MANIFEST_SYNC"} /\ ~ dfu_data.in_progress
        /\ Now(IF state = "DNLOAD_SYNC" THEN "DNLOAD_IDLE" ELSE "IDLE", FALSE)
        /\ SamePlace
  BY <1>0 DEF SyncDone, DoGetStatus, DfuData
<1>3. DnloadBusy => /\ state = "DNLOAD_SYNC" /\ dfu_data.in_progress
                    /\ Now("DNBUSY", TRUE) /\ SamePlace
  BY <1>0 DEF DnloadBusy, DoGetStatus, DfuData
<1>4. ManifestBusy => /\ state = "MANIFEST_SYNC" /\ dfu_data.in_progress
                      /\ Now("MANIFEST", TRUE) /\ SamePlace
  BY <1>0 DEF ManifestBusy, DoGetStatus, DfuData
<1>5. BufferFragment =>
        /\ Now(state, FALSE) /\ Place(dfu_data.frag_number + 1, blocks)
        /\ dfu_data'.dfu_data_buffer = dfu_data.dfu_data_buffer
  BY <1>0 DEF BufferFragment, DfuData
<1>6. SectorDone => Now(state, FALSE) /\ Place(0, blocks + 1)
  BY <1>0 DEF SectorDone, DfuData
<1>7. Manifest => Now(state, FALSE) /\ SamePlace
  BY <1>0 DEF Manifest, DfuData
<1>8. ASSUME Finish, dfu_data.move_to_error \/ retval # STATUS_OK
      PROVE  Failing
  <2>1. Failure # STATUS_OK
    BY <1>8 DEF Failure, ERR_STALLEDPKT, STATUS_OK
  <2> QED BY <1>8, <2>1, ClearedFields DEF Finish
<1>9. ASSUME Finish, ~ (dfu_data.move_to_error \/ retval # STATUS_OK)
      PROVE  /\ Now(IF state = "DNBUSY" THEN "DNLOAD_SYNC" ELSE "MANIFEST_SYNC",
                     dfu_data.in_progress)
             /\ SamePlace /\ mpc' = "wait"
  BY <1>0, <1>9 DEF Finish, Failure, Loop, DfuData
<1> QED BY <1>1, <1>2, <1>3, <1>4, <1>5, <1>6, <1>7, <1>8, <1>9, <1>error

LEMMA HostFields ==
    ASSUME TypeOK, HostNext \/ ServicerNext
    PROVE  /\ dfu_data'.current_state = state
           /\ dfu_data'.in_progress = dfu_data.in_progress
           /\ Place(dfu_data.frag_number, blocks)
           /\ ~ StatusTooEarly =>
                /\ dfu_data'.move_to_error = dfu_data.move_to_error
                /\ ~ StatusPost =>
                      dfu_data'.previous_timeout_ms = dfu_data.previous_timeout_ms
           /\ ~ Submitted =>
                /\ dfu_data'.dfu_data_buffer = dfu_data.dfu_data_buffer
                /\ dfu_data'.data_xfer_length = dfu_data.data_xfer_length
<1>0. dfu_data \in DfuData
  BY DEF TypeOK
<1> USE DEF Place, state, blocks
<1>1. CASE Submitted
  BY <1>0, <1>1 DEF Submitted, Upload, ClearStatus, Abort, Download, SetAlternate, DfuData
<1>2. CASE ~ Submitted /\ HostNext
  BY <1>0, <1>2 DEF HostNext, Submitted, SetTransferBlock, Reboot, GetStatus, DfuData
<1>3. CASE ~ Submitted /\ ServicerNext
  BY <1>0, <1>3 DEF ServicerNext, StatusSettled, StatusDnloadSync, StatusManifestSync,
         StatusTooEarly, StatusStillBusy, StatusPost, Give, Notify, UploadTake,
         UploadCopy, DfuData
<1> QED BY <1>1, <1>2, <1>3
-----------------------------------------------------------------------------
(* What is left to do, for a host of any pace.                             *)

BusyWork == BufferFragment \/ WriteRefused \/ WriteBegin \/ FlashErase \/ FlashProgram
                \/ SectorDone \/ Manifest
Dispatch == DoDnload \/ DoUpload \/ UploadStalls \/ DoClrStatus \/ DoAbort \/ DoSetAlternate
GoesBusy == DnloadBusy \/ ManifestBusy

(* Where the machine is around each step.                                  *)
LEMMA Steps ==
    /\ MachineNext <=> \/ Wake \/ Take \/ Dispatch \/ GetStatusElsewhere \/ SyncDone
                       \/ GoesBusy \/ BusyWork \/ Finish \/ EnterError
    /\ Dispatch => mpc = "dispatch" /\ mpc' \in {"wait", "getstatus", "error"}
    /\ GetStatusElsewhere \/ SyncDone => mpc \in {"dispatch", "getstatus"}
    /\ SyncDone => mpc' = "wait"
    /\ GoesBusy => mpc \in {"dispatch", "getstatus"} /\ mpc' \in {"busy", "manifest"}
    /\ GoesBusy \/ GetStatusElsewhere \/ SyncDone =>
          (mpc = "dispatch" => notification_value = {"GETSTATUS"})
    /\ Dispatch => notification_value \notin {{"none"}, {"GETSTATUS"}}
    /\ BusyWork => Working /\ mpc # "finish" /\ Working'
    /\ WriteRefused \/ WriteBegin \/ FlashErase \/ FlashProgram =>
          mpc' # "finish" /\ UNCHANGED dfu_data
    /\ Finish => mpc = "finish" /\ mpc' \in {"wait", "error"}
    /\ EnterError => mpc = "error" /\ mpc' \in {"wait", "getstatus"}
<1>1. MachineNext <=> \/ Wake \/ Take \/ Dispatch \/ GetStatusElsewhere \/ SyncDone
                      \/ GoesBusy \/ BusyWork \/ Finish \/ EnterError
  BY DEF MachineNext, Dispatch, GoesBusy, BusyWork
<1>2. Dispatch => /\ mpc = "dispatch" /\ mpc' \in {"wait", "getstatus", "error"}
                  /\ notification_value \notin {{"none"}, {"GETSTATUS"}}
  BY DEF Dispatch, DoDnload, DoUpload, UploadStalls, DoClrStatus, DoAbort, DoSetAlternate,
         Handle, Loop, Stall, Fail
<1>3. GetStatusElsewhere \/ SyncDone =>
          /\ mpc \in {"dispatch", "getstatus"} /\ (SyncDone => mpc' = "wait")
          /\ mpc = "dispatch" => notification_value = {"GETSTATUS"}
  BY DEF GetStatusElsewhere, SyncDone, DoGetStatus, AtGetStatus, Loop
<1>4. GoesBusy => /\ mpc \in {"dispatch", "getstatus"} /\ mpc' \in {"busy", "manifest"}
                  /\ mpc = "dispatch" => notification_value = {"GETSTATUS"}
  BY DEF GoesBusy, DnloadBusy, ManifestBusy, DoGetStatus, AtGetStatus, Begin
<1>5. BusyWork => Working /\ mpc # "finish" /\ Working'
  BY DEF BusyWork, BufferFragment, WriteRefused, WriteBegin, FlashErase, FlashProgram,
         SectorDone, Manifest, Working
<1>6. WriteRefused \/ WriteBegin \/ FlashErase \/ FlashProgram =>
          mpc' # "finish" /\ UNCHANGED dfu_data
  BY DEF WriteRefused, WriteBegin, FlashErase, FlashProgram
<1>7. Finish => mpc = "finish" /\ mpc' \in {"wait", "error"}
  BY DEF Finish, Fail, Loop
<1>8. EnterError => mpc = "error" /\ mpc' \in {"wait", "getstatus"}
  BY DEF EnterError, Loop
<1> QED BY <1>1, <1>2, <1>3, <1>4, <1>5, <1>6, <1>7, <1>8

(* ... and what it leaves of the state, and of the rest while it works.    *)
LEMMA BusyFields ==
    ASSUME TypeOK, NeverDispatchedBusy, BusyWork
    PROVE  /\ state' = state /\ dfu_data'.move_to_error = dfu_data.move_to_error
           /\ dfu_data'.in_progress \in {FALSE, dfu_data.in_progress}
           /\ mpc' = "finish" => ~ dfu_data'.in_progress
<1>1. CASE BufferFragment \/ SectorDone \/ Manifest
  BY <1>1, WorkFields DEF Now, state
<1>2. CASE WriteRefused \/ WriteBegin \/ FlashErase \/ FlashProgram
  BY <1>2, Steps DEF state
<1> QED BY <1>1, <1>2 DEF BusyWork

LEMMA ProgressStep ==
    ASSUME TypeOK, NeverDispatchedBusy, WriteInv, ProgressInv, [Next]_vars
    PROVE  ProgressInv'
<1> USE DEF ProgressInv, state, Busy
<1>1. CASE HostNext \/ ServicerNext
  BY <1>1, HostFields, CommandsKeepWrites
<1>2. CASE Wake
  BY <1>2 DEF Wake
<1>3. CASE Take
  <2>1. mpc' \in {"dispatch", "error"} /\ (UNCHANGED dfu_data \/ Failing)
    BY <1>3, ClearedFields DEF Take, Stall, Fail
  <2> QED BY <2>1 DEF Failing, Cleared
<1>4. CASE Dispatch
  BY <1>4, HandleFields, Steps DEF Dispatch, Now, Failing, Cleared
<1>5. CASE GetStatusElsewhere \/ SyncDone
  BY <1>5, WorkFields, Steps DEF Now
<1>6. CASE GoesBusy
  BY <1>6, WorkFields, Steps DEF GoesBusy, Now
<1>7. CASE BusyWork
  <2>1. /\ dfu_data'.current_state = state
        /\ dfu_data'.in_progress \in {FALSE, dfu_data.in_progress}
        /\ mpc' = "finish" => ~ dfu_data'.in_progress
    BY <1>7, BusyFields
  <2>2. mpc' = "finish" /\ state = "MANIFEST" => retval' = STATUS_OK
    BY <1>7 DEF BusyWork, BufferFragment, WriteRefused, WriteBegin, FlashErase,
           FlashProgram, SectorDone, Manifest, WriteInv, PlacesInv
  <2> QED BY <2>1, <2>2
<1>8. CASE Finish
  BY <1>8, WorkFields, Steps DEF Now, Failing, Cleared
<1>9. CASE EnterError
  <2>1. state = "IDLE" /\ mpc' \in {"wait", "getstatus"}
    BY <1>9, Steps DEF WriteInv, PlacesInv
  <2> QED BY <1>9, <2>1, WorkFields DEF Now
<1>10. CASE Reset
  BY <1>10 DEF Reset, BootData
<1>11. CASE UNCHANGED vars
  BY <1>11 DEF vars
<1> QED
  BY <1>1, <1>2, <1>3, <1>4, <1>5, <1>6, <1>7, <1>8, <1>9, <1>10, <1>11, Steps DEF Next
-----------------------------------------------------------------------------
(* The predictions.                                                        *)

LEMMA PredictedOf ==
    /\ After("DNBUSY") = {"DNLOAD_SYNC", "ERROR"} /\ After("MANIFEST") = {"MANIFEST_SYNC"}
    /\ \A answer : answer.next \in Busy => Predicted(answer) = After(answer.next)
    /\ \A answer : answer.next \notin Busy /\ (answer.next = "IDLE" => answer.timeout = 0)
                      => Predicted(answer) = {answer.next}
    /\ \A answer : answer.next = "IDLE" /\ answer.timeout > 0
                      => Predicted(answer) = {"ERROR"}
<1>1. After("DNBUSY") = {"DNLOAD_SYNC", "ERROR"} /\ After("MANIFEST") = {"MANIFEST_SYNC"}
  BY DEF After, Predicted
<1>2. ASSUME NEW answer, answer.next \in Busy
      PROVE  Predicted(answer) = After(answer.next)
  BY <1>1, <1>2 DEF Predicted, Busy
<1>3. ASSUME NEW answer, answer.next \notin Busy, answer.next = "IDLE" => answer.timeout = 0
      PROVE  Predicted(answer) = {answer.next}
  <2>1. ~ (answer.next = "IDLE" /\ answer.timeout > 0)
    BY <1>3
  <2> QED BY <1>3, <2>1 DEF Predicted, Busy
<1>4. ASSUME NEW answer, answer.next = "IDLE", answer.timeout > 0
      PROVE  Predicted(answer) = {"ERROR"}
  BY <1>4 DEF Predicted
<1> QED BY <1>1, <1>2, <1>3, <1>4

(* What get_status answers is what the machine will do, and an answer that *)
(* announces a flash operation has a timeout.                              *)
LEMMA AnswerIsSuccessor ==
    ASSUME TypeOK, StatusPost, observed = state
    PROVE  /\ reply'.next = Successor /\ reply' # NoReply
           /\ reply'.next = "IDLE" => reply'.timeout = 0
           /\ Successor = "DNBUSY" => dfu_data'.previous_timeout_ms > 0
<1>0. dfu_data \in DfuData
  BY DEF TypeOK
<1>1. CASE StatusSettled
  <2>1. reply' = [next |-> state, timeout |-> 0] /\ state \in Settled
    BY <1>1 DEF StatusSettled, Answer
  <2> QED BY <2>1 DEF Successor, Settled, NoReply
<1>2. CASE StatusDnloadSync
  <2> DEFINE t == IF dfu_data.in_progress THEN DnloadTimeout ELSE 0
  <2>1. /\ state = "DNLOAD_SYNC"
        /\ reply' = [next |-> IF dfu_data.in_progress THEN "DNBUSY" ELSE "DNLOAD_IDLE",
                     timeout |-> t]
        /\ dfu_data' = [dfu_data EXCEPT !.previous_timeout_ms = t]
    BY <1>2 DEF StatusDnloadSync, Answer
  <2>2. DnloadTimeout > 0
    BY DEF DnloadTimeout, DOWNLOAD_TIMEOUT_BUFFER_MS, DOWNLOAD_TIMEOUT_WRITE_MS,
           DOWNLOAD_TIMEOUT_ERASE_MS
  <2>3. dfu_data'.previous_timeout_ms = t
    BY <1>0, <2>1 DEF DfuData
  <2> QED BY <2>1, <2>2, <2>3 DEF Successor, NoReply
<1>3. CASE StatusManifestSync
  <2>1. /\ state = "MANIFEST_SYNC"
        /\ reply' = [next |-> IF dfu_data.in_progress THEN "MANIFEST" ELSE "IDLE",
                     timeout |-> 0]
    BY <1>3 DEF StatusManifestSync, Answer
  <2> QED BY <2>1 DEF Successor, NoReply
<1> QED BY <1>1, <1>2, <1>3 DEF StatusPost

(* The machine never touches the timeout.                                  *)
LEMMA MachineKeepsTimeout ==
    ASSUME TypeOK, MachineNext
    PROVE  dfu_data'.previous_timeout_ms = dfu_data.previous_timeout_ms
<1>0. dfu_data \in DfuData
  BY DEF TypeOK
<1>1. ASSUME NEW status, Fail(status)
      PROVE  dfu_data'.previous_timeout_ms = dfu_data.previous_timeout_ms
  BY <1>0, <1>1 DEF Fail, ResetState, ResetDownloadBuffer, DfuData
<1>2. CASE Wake \/ Take
  BY <1>1, <1>2 DEF Wake, Take, Stall
<1>3. CASE DoDnload
  BY <1>0, <1>1, <1>3 DEF DoDnload, Handle, Stall, ResetDownloadBuffer, DfuData
<1>4. CASE DoUpload \/ UploadStalls
  BY <1>0, <1>1, <1>4 DEF DoUpload, UploadData, UploadStalls, Stall, DfuData
<1>5. CASE DoClrStatus \/ DoAbort \/ DoSetAlternate
  BY <1>0, <1>1, <1>5
  DEF DoClrStatus, DoAbort, DoSetAlternate, Handle, Stall, ResetState,
      ResetDownloadBuffer, DfuData
<1>6. CASE GetStatusElsewhere \/ SyncDone \/ GoesBusy
  BY <1>0, <1>1, <1>6
  DEF GetStatusElsewhere, SyncDone, GoesBusy, DnloadBusy, ManifestBusy, DoGetStatus,
      Stall, DfuData
<1>7. CASE BusyWork \/ EnterError
  BY <1>0, <1>7
  DEF BusyWork, BufferFragment, WriteRefused, WriteBegin, FlashErase, FlashProgram,
      SectorDone, Manifest, EnterError, DfuData
<1>8. CASE Finish
  BY <1>0, <1>1, <1>8 DEF Finish, DfuData
<1> QED
  BY <1>2, <1>3, <1>4, <1>5, <1>6, <1>7, <1>8, Steps DEF Dispatch

LEMMA TimeoutStep ==
    ASSUME Paced, ~ EarlyPolls, TypeOK, MailboxInv, NeverDispatchedBusy, UploadInv, WriteInv,
           PacedInv, TimeoutInv, [Next]_vars
    PROVE  TimeoutInv'
<1> USE DEF mailbox, machine, servicer
<1> DEFINE prev == dfu_data.previous_timeout_ms
<1>1. CASE HostNext
  <2>1. Submitted \/ Unsubmitted \/ GetStatus
    BY <1>1 DEF HostNext, Submitted, Unsubmitted
  <2>2. prev' = prev /\ state' = state /\ Successor' = Successor
    BY <1>1, HostFields, HostEffect
    DEF state, Successor, HostNext, StatusPost, StatusTooEarly, StatusSettled,
        StatusDnloadSync, StatusManifestSync, Answer, HostMay, Upload, ClearStatus, Abort,
        Download, SetAlternate, SetTransferBlock, Reboot, GetStatus
  <2>3. CASE Submitted
    <3>1. spc' = "give" /\ InFlight' # {"GETSTATUS"}
      BY <2>3, HostEffect, FlightKept
    <3> QED BY <2>2, <3>1 DEF TimeoutInv, Storing
  <2>4. CASE Unsubmitted \/ GetStatus
    <3>1. InFlight' = InFlight /\ (spc' = "status" => observed' = state)
      BY <2>4, HostEffect, FlightKept
    <3> QED BY <2>2, <3>1 DEF TimeoutInv, Storing
  <2> QED BY <2>1, <2>3, <2>4
<1>2. CASE StatusPost
  <2>1. Quiet /\ observed = state /\ state \notin Busy /\ spc' = "give"
    BY <1>2, StatusEffect DEF PacedInv
  <2>2. state' = state /\ Successor' = Successor
    BY <1>2, HostFields DEF StatusPost, ServicerNext, state, Successor
  <2>3. Successor = "DNBUSY" => prev' > 0
    BY <1>2, <2>1, AnswerIsSuccessor
  <2> QED BY <2>1, <2>2, <2>3 DEF TimeoutInv, Storing, Busy
<1>3. CASE StatusStillBusy \/ UploadTake \/ UploadCopy
  <2>1. UNCHANGED dfu_data /\ spc' # "status"
    BY <1>3 DEF StatusStillBusy, UploadTake, UploadCopy
  <2>2. InFlight' = InFlight
    BY <1>3, FlightKept DEF StatusOnly
  <2> QED BY <2>1, <2>2 DEF TimeoutInv, Storing, Successor, state
<1>4. CASE Give \/ Notify \/ Wake \/ Take
  <2>1. /\ InFlight' = InFlight /\ UNCHANGED <<dfu_data, observed>>
        /\ spc' = "status" => spc = "status"
    BY <1>4, FlightKept DEF Give, Notify, Wake, Take
  <2> QED BY <2>1 DEF TimeoutInv, Storing, Successor, state
<1>5. CASE Handled
  <2>1. InFlight' = {"none"} /\ UNCHANGED servicer /\ prev' = prev
    BY <1>5, FlightKept, HandlingKeepsMailbox, MachineKeepsTimeout DEF Handled
  <2>2. ASSUME state' = "DNBUSY" PROVE Storing
    <3>1. CASE DnloadBusy
      <4>1. Successor = "DNBUSY" /\ state \notin Settled
        BY <3>1 DEF DnloadBusy, Successor, Settled
      <4>2. mpc = "dispatch" /\ notification_value = {"GETSTATUS"}
        BY <3>1, <4>1 DEF DnloadBusy, DoGetStatus, AtGetStatus, UploadInv
      <4>3. InFlight = {"GETSTATUS"}
        BY <4>2 DEF InFlight, PacedInv, Quiet
      <4> QED BY <4>1, <4>3 DEF Storing
    <3>2. CASE BusyWork
      BY <2>2, <3>2, BusyFields DEF Storing
    <3>3. CASE Dispatch \/ GetStatusElsewhere \/ SyncDone \/ ManifestBusy \/ Finish
                 \/ EnterError
      BY <2>2, <3>3, HandleFields, WorkFields
      DEF Dispatch, Now, Cleared, Failing, Settled, state
    <3> QED BY <1>5, <3>1, <3>2, <3>3, Steps DEF Handled, GoesBusy
  <2> QED BY <2>1, <2>2 DEF TimeoutInv, Storing
<1>6. CASE Reset
  BY <1>6 DEF Reset, BootData, TimeoutInv, Storing, state, InFlight
<1>7. CASE UNCHANGED vars
  BY <1>7, Zenon DEF vars, TimeoutInv, Storing, InFlight, Successor, state
<1> QED
  BY <1>1, <1>2, <1>3, <1>4, <1>5, <1>6, <1>7
  DEF Next, ServicerNext, StatusPost, StatusTooEarly, Handled

LEMMA PredictionStep ==
    ASSUME Paced, ~ EarlyPolls, TypeOK, MailboxInv, SemaphoreInv, NeverDispatchedBusy,
           WriteInv, UploadInv, PacedInv, ProgressInv, TimeoutInv, PredictionInv,
           [Next]_vars
    PROVE  PredictionInv'
<1> USE DEF mailbox, machine, servicer
<1>0. /\ ~ dfu_data.move_to_error
      /\ state \in Busy => Working
      /\ mpc = "error" => state = "IDLE" /\ ~ Working
  BY DEF PredictionInv, NeverDispatchedBusy, TypeOK, Working, WriteInv, PlacesInv, Busy
<1>1. CASE HostNext
  <2>1. Submitted \/ Unsubmitted \/ GetStatus
    BY <1>1 DEF HostNext, Submitted, Unsubmitted
  <2>2. /\ reply' = NoReply /\ state' = state /\ mpc' = mpc
        /\ ~ dfu_data'.move_to_error
        /\ spc' = "status" => observed' = state
    BY <1>0, <1>1, <2>1, HostEffect, HostFields, CommandsKeepMailbox
    DEF state, StatusTooEarly, HostNext
  <2> QED BY <1>0, <2>2 DEF PredictionInv, Working
<1>2. CASE StatusPost
  <2>1. Quiet /\ observed = state /\ spc' = "give" /\ InFlight' = {"GETSTATUS"}
    BY <1>2, StatusEffect, FlightKept DEF PacedInv
  <2>2. /\ UNCHANGED mpc /\ Successor' = Successor /\ ~ dfu_data'.move_to_error
    BY <1>0, <1>2, HostFields, CommandsKeepMailbox, StatusEffect
    DEF StatusPost, ServicerNext, Successor, state, Busy, StatusTooEarly
  <2>3. /\ reply'.next = Successor' /\ (reply'.next = "IDLE" => reply'.timeout = 0)
    BY <1>2, <2>1, <2>2, AnswerIsSuccessor
  <2> QED BY <2>1, <2>2, <2>3 DEF PredictionInv, Working, Quiet
<1>3. CASE StatusStillBusy
  <2>1. /\ UNCHANGED <<mailbox, machine>> /\ UNCHANGED dfu_data
        /\ spc = "status" /\ spc' = "idle" /\ observed \in Busy
        /\ reply'.next \in {observed, state}
        /\ reply'.timeout = dfu_data.previous_timeout_ms
    <3>1. \E s \in {observed, state} :
             reply' = [next |-> s, timeout |-> dfu_data.previous_timeout_ms]
      BY <1>3 DEF StatusStillBusy, Answer
    <3> QED BY <1>3, <3>1 DEF StatusStillBusy, Answer
  <2>2. InFlight' = {"none"} /\ mpc # "getstatus"
    <3>1. notified = {} /\ mpc \notin {"take", "dispatch", "getstatus"}
      BY <2>1 DEF PacedInv
    <3> QED BY <2>1, <3>1 DEF InFlight
  <2>3. IF Working THEN state = observed ELSE SettledState \in After(observed)
    BY <2>1 DEF PredictionInv
  <2>4. ~ Working => SettledState \in Predicted(reply')
    <3>1. CASE reply'.next = observed
      BY <2>1, <2>3, <3>1, PredictedOf
    <3>2. CASE reply'.next = state /\ mpc # "error"
      <4>1. ~ Working => state \in {"DNLOAD_SYNC", "MANIFEST_SYNC", "ERROR"}
        BY <2>1, <2>3, <3>2, PredictedOf DEF SettledState, Busy
      <4> QED BY <3>2, <4>1, PredictedOf DEF SettledState, Busy
    <3>3. CASE reply'.next = state /\ mpc = "error"
      <4>1. state = "IDLE" /\ SettledState = "ERROR" /\ observed = "DNBUSY"
        BY <1>0, <2>1, <2>3, <3>3, PredictedOf DEF SettledState, Busy
      <4>2. dfu_data.previous_timeout_ms > 0
        BY <2>1, <4>1 DEF TimeoutInv, Storing
      <4> QED BY <2>1, <3>3, <4>1, <4>2, PredictedOf
    <3> QED BY <2>1, <3>1, <3>2, <3>3
  <2>5. Working => reply'.next = state
    BY <2>1, <2>3
  <2>6. SettledState' = SettledState /\ state' = state /\ (Working <=> Working')
    BY <2>1 DEF SettledState, state, Working
  <2> QED BY <1>0, <2>1, <2>2, <2>4, <2>5, <2>6 DEF PredictionInv, Quiet, Working
<1>4. CASE Give \/ Notify \/ Wake \/ Take
  <2>1. /\ InFlight' = InFlight /\ UNCHANGED <<dfu_data, reply, observed>>
        /\ mpc' \in {"wait", "take", "dispatch"}
    <3>1. InFlight' = InFlight /\ UNCHANGED dfu_data
      BY <1>4, FlightKept
    <3>2. CASE Take
      <4>1. counter = 1
        BY <3>2 DEF Take, TypeOK, PacedInv, Given
      <4> QED BY <3>1, <3>2, <4>1 DEF Take
    <3> QED BY <1>4, <3>1, <3>2 DEF Give, Notify, Wake, PacedInv, Quiet
  <2>2. spc' # "status" /\ (reply # NoReply => spc' \in {"idle", "give", "notify"})
    <3>1. CASE Notify
      <4>1. InFlight = {request} /\ spc = "notify"
        BY <3>1 DEF Notify, InFlight, PacedInv, Quiet
      <4> QED BY <3>1, <4>1 DEF Notify, PredictionInv
    <3>2. CASE Give \/ Wake \/ Take
      BY <3>2 DEF Give, Wake, Take, PredictionInv, PacedInv
    <3> QED BY <1>4, <3>1, <3>2
  <2>3. ~ (Quiet' /\ spc' = "idle")
    <3>1. CASE Take
      <4>1. counter = 1
        BY <3>1 DEF Take, TypeOK, PacedInv, Given
      <4> QED BY <3>1, <4>1 DEF Take, Quiet
    <3> QED BY <1>4, <3>1 DEF Give, Notify, Wake, Quiet
  <2> QED BY <1>0, <2>1, <2>2, <2>3 DEF PredictionInv, Working, Successor, state
<1>5. CASE UploadTake \/ UploadCopy
  <2>1. /\ reply = NoReply /\ reply' = reply /\ spc' # "status" /\ UNCHANGED dfu_data
    BY <1>5 DEF UploadTake, UploadCopy, PredictionInv
  <2> QED BY <1>0, <2>1 DEF PredictionInv
<1>6. CASE Handled
  <2>1. /\ InFlight' = {"none"} /\ UNCHANGED <<mailbox, servicer>>
        /\ mpc \notin {"wait", "take"} /\ notified = {} /\ spc \notin {"give", "notify"}
    BY <1>6, FlightKept, HandlingKeepsMailbox DEF Handled, PacedInv, Quiet
  <2>2. mpc = "dispatch" => InFlight = notification_value
    BY <2>1 DEF InFlight
  <2>3. /\ spc = "status" => observed \in Busy /\ mpc \notin {"dispatch", "getstatus"}
        /\ reply # NoReply => spc = "idle"
    BY <2>1 DEF PacedInv, PredictionInv, Quiet
  <2>4. CASE Dispatch
    <3>1. /\ reply = NoReply /\ spc # "status"
      BY <2>2, <2>3, <2>4, Steps DEF PredictionInv
    <3>2. ~ dfu_data'.move_to_error
      BY <1>0, <2>4, HandleFields DEF Dispatch, Now, Cleared, Failing
    <3> QED BY <2>1, <3>1, <3>2 DEF PredictionInv
  <2>5. CASE GetStatusElsewhere \/ SyncDone
    <3>1. /\ mpc \in {"dispatch", "getstatus"} /\ mpc' = "wait" /\ spc # "status"
          /\ mpc = "dispatch" => InFlight = {"GETSTATUS"}
      BY <2>2, <2>3, <2>5, Steps, WorkFields
    <3>2. /\ state' = Successor /\ state' \notin Busy /\ ~ dfu_data'.move_to_error
      BY <1>0, <2>5, WorkFields DEF Successor, Settled, Busy, Now, state
    <3>3. reply # NoReply => /\ reply.next = state'
                             /\ reply.next = "IDLE" => reply.timeout = 0
      BY <3>1, <3>2 DEF PredictionInv
    <3>4. SettledState' = state'
      BY <3>1 DEF SettledState
    <3>5. reply # NoReply => SettledState' \in Predicted(reply)
      BY <3>2, <3>3, <3>4, PredictedOf
    <3> QED BY <2>1, <2>3, <3>1, <3>2, <3>3, <3>5 DEF PredictionInv, Working
  <2>6. CASE GoesBusy
    <3>1. /\ mpc \in {"dispatch", "getstatus"} /\ mpc' \in {"busy", "manifest"}
          /\ spc # "status" /\ (mpc = "dispatch" => InFlight = {"GETSTATUS"})
      BY <2>2, <2>3, <2>6, Steps
    <3>2. /\ state' = Successor /\ ~ dfu_data'.move_to_error
      BY <1>0, <2>6, WorkFields DEF Successor, GoesBusy, Now, state
    <3>3. reply # NoReply => reply.next = state'
      BY <3>1, <3>2 DEF PredictionInv
    <3> QED BY <2>1, <2>3, <3>1, <3>2, <3>3 DEF PredictionInv, Working, Quiet
  <2>7. CASE BusyWork
    <3>1. /\ Working /\ Working' /\ state' = state /\ ~ dfu_data'.move_to_error
      BY <1>0, <2>7, Steps, BusyFields
    <3>2. mpc' # "getstatus" /\ mpc' # "wait" /\ mpc' # "error"
      BY <3>1 DEF Working
    <3> QED BY <2>1, <2>3, <3>1, <3>2 DEF PredictionInv, Quiet
  <2>8. CASE Finish
    <3>1. /\ mpc = "finish" /\ mpc' \in {"wait", "error"} /\ Working /\ ~ Working'
          /\ state \in Busy
      BY <2>8, Steps DEF Working, WriteInv, PlacesInv
    <3>2. /\ SettledState' \in After(state) /\ ~ dfu_data'.move_to_error
      <4>1. CASE retval # STATUS_OK
        <5>1. state = "DNBUSY" /\ Failing
          BY <2>8, <3>1, <4>1, WorkFields DEF ProgressInv, Busy
        <5> QED BY <5>1, PredictedOf DEF Failing, Cleared, SettledState
      <4>2. CASE retval = STATUS_OK
        <5>1. /\ Now(IF state = "DNBUSY" THEN "DNLOAD_SYNC" ELSE "MANIFEST_SYNC",
                     dfu_data.in_progress)
              /\ mpc' = "wait"
          BY <1>0, <2>8, <4>2, WorkFields
        <5> QED BY <1>0, <3>1, <5>1, PredictedOf DEF Now, SettledState, state, Busy
      <4> QED BY <4>1, <4>2
    <3>3. reply # NoReply => SettledState' \in Predicted(reply)
      BY <3>1, <3>2, PredictedOf DEF PredictionInv
    <3>4. spc = "status" => state = observed
      BY <2>3, <3>1 DEF PredictionInv
    <3> QED BY <2>1, <2>3, <3>1, <3>2, <3>3, <3>4 DEF PredictionInv
  <2>9. CASE EnterError
    <3>1. /\ mpc = "error" /\ state' = "ERROR" /\ ~ dfu_data'.move_to_error
          /\ mpc' \in {"wait", "getstatus"} /\ ~ Working /\ ~ Working'
      BY <1>0, <2>9, Steps, WorkFields DEF Now, state, Working
    <3>2. SettledState = "ERROR" /\ SettledState' = "ERROR"
      BY <3>1 DEF SettledState
    <3>3. reply # NoReply => mpc' = "wait"
      <4>1. mpc' = "getstatus" => spc = "sem"
        BY <2>9 DEF EnterError, Loop, SemaphoreInv, UploadWoken
      <4> QED BY <2>3, <3>1, <4>1
    <3> QED BY <2>1, <2>3, <3>1, <3>2, <3>3 DEF PredictionInv
  <2> QED BY <1>6, <2>4, <2>5, <2>6, <2>7, <2>8, <2>9, Steps DEF Handled
<1>7. CASE Reset
  BY <1>7 DEF Reset, PredictionInv, BootData
<1>8. CASE UNCHANGED vars
  <2>1. UNCHANGED <<InFlight, Successor, Working, Quiet, SettledState>>
    BY <1>8, Zenon DEF vars, InFlight, Successor, Working, Quiet, SettledState, state
  <2> QED BY <1>8, <2>1, Zenon DEF vars, PredictionInv, state
<1> QED
  BY <1>1, <1>2, <1>3, <1>4, <1>5, <1>6, <1>7, <1>8
  DEF Next, ServicerNext, StatusPost, StatusTooEarly, Handled, MachineNext

(* What holds of every host.                                               *)
Base == TypeOK /\ MailboxInv /\ SemaphoreInv /\ UploadInv /\ NeverDispatchedBusy
            /\ WriteInv /\ ProgressInv

Told == TimeoutInv /\ PredictionInv

LEMMA BaseInit == Init => Base /\ PacedInv /\ Told
<1> SUFFICES ASSUME Init PROVE Base /\ PacedInv /\ Told
  OBVIOUS
<1>1. MailboxInv /\ SemaphoreInv /\ UploadInv
  BY DEF Init, MailboxInv, Given, SemaphoreInv, UploadWoken, UploadInv
<1>2. NeverDispatchedBusy /\ ProgressInv /\ PredictionInv
  BY DEF Init, BootData, NeverDispatchedBusy, ProgressInv, PredictionInv, Busy, state
<1>3. PacedInv
  BY DEF Init, PacedInv, Quiet, Given
<1>4. TimeoutInv
  BY DEF Init, BootData, TimeoutInv, Storing, state, InFlight
<1> QED BY <1>1, <1>2, <1>3, <1>4, InitType, WriteInit DEF Base, Told

LEMMA BaseStep == Base /\ [Next]_vars => Base'
BY NextType, MailboxStep, SemaphoreStep, UploadStep, NeverBusyStep, WriteStep, ProgressStep
DEF Base

LEMMA PacedSafe == ASSUME Paced PROVE Spec => [](Base /\ PacedInv)
<1>1. Base /\ PacedInv /\ [Next]_vars => Base' /\ PacedInv'
  BY BaseStep, PacedStep DEF Base
<1> QED BY <1>1, BaseInit, PTL DEF Spec

LEMMA PredictedSafe ==
    ASSUME Paced, ~ EarlyPolls
    PROVE  Spec => [](Base /\ PacedInv /\ Told)
<1>1. Base /\ PacedInv /\ Told /\ [Next]_vars => Told'
  BY TimeoutStep, PredictionStep DEF Base, Told
<1> QED BY <1>1, BaseInit, PacedSafe, PTL DEF Spec

LEMMA WaiterStep ==
    ASSUME Paced, Base, PacedInv, WaiterRemembered, [Next]_vars
    PROVE  WaiterRemembered'
<1> USE DEF WaiterRemembered, mailbox, machine, servicer
<1>1. CASE HostNext \/ StatusPost \/ StatusOnly
  <2>1. spc' # "sem"
    BY <1>1, CommandsKeepMailbox DEF StatusPost, StatusOnly
  <2> QED BY <2>1
<1>2. CASE Give \/ UploadTake \/ UploadCopy
  BY <1>2 DEF Give, UploadTake, UploadCopy
<1>3. CASE Notify
  <2>1. notified = {}
    BY <1>3 DEF Notify, PacedInv, Quiet
  <2> QED BY <1>3, <2>1 DEF Notify
<1>4. CASE Wake
  BY <1>4 DEF Wake, PacedInv
<1>5. CASE Take
  <2>1. counter = 1 /\ notified = {}
    BY <1>5 DEF Take, PacedInv, Given, Base, TypeOK
  <2> QED BY <1>5, <2>1 DEF Take
<1>6. CASE DoUpload
  BY <1>6 DEF DoUpload
<1>7. CASE Handled /\ ~ DoUpload /\ ~ EnterError
  <2>1. /\ notified = {} /\ mpc \notin {"wait", "take"}
        /\ UNCHANGED <<mailbox, servicer, upload_semaphore>>
    BY <1>7, HandlingKeepsMailbox, HandlingKeepsSemaphore DEF Handled, PacedInv
  <2>2. mpc # "error"
    BY <1>7, Steps DEF Handled, Working, BusyWork
  <2>3. mpc = "dispatch" /\ ~ UploadStalls => notification_value # {"UPLOAD"}
    BY <1>7 DEF Handled, MachineNext, DoDnload, DoClrStatus, DoAbort, DoSetAlternate,
       Handle, GetStatusElsewhere, SyncDone, DnloadBusy, ManifestBusy, DoGetStatus,
       AtGetStatus, BufferFragment, WriteRefused, WriteBegin, FlashErase, FlashProgram,
       SectorDone, Manifest, Finish
  <2>4. CASE UploadStalls
    BY <2>1, <2>4 DEF UploadStalls, Stall, Fail
  <2> QED BY <2>1, <2>2, <2>3, <2>4
<1>8. CASE EnterError
  BY <1>8 DEF EnterError, Base, MailboxInv
<1>9. CASE Reset
  BY <1>9 DEF Reset
<1>10. CASE UNCHANGED vars
  BY <1>10 DEF vars
<1> QED
  BY <1>1, <1>2, <1>3, <1>4, <1>5, <1>6, <1>7, <1>8, <1>9, <1>10
  DEF Next, ServicerNext, StatusPost, StatusOnly, Handled

(* The servicer of a paced host never waits for a semaphore that nobody    *)
(* is about to give.                                                       *)
THEOREM WaiterSafe ==
    ASSUME Paced
    PROVE  Spec => []WaiterRemembered
<1>1. Init => WaiterRemembered
  BY DEF Init, WaiterRemembered
<1>2. Base /\ PacedInv /\ WaiterRemembered /\ [Next]_vars => WaiterRemembered'
  BY WaiterStep
<1> QED BY <1>1, <1>2, PacedSafe, PTL DEF Spec

(* A host that leaves each request its time and respects the timeouts is   *)
(* never told a state that the machine does not enter.                     *)
THEOREM PredictionSafe ==
    ASSUME Paced, ~ EarlyPolls
    PROVE  Spec => []PredictionHolds
<1>1. Told => PredictionHolds
  BY DEF Told, PredictionInv, PredictionHolds, SettledState, Quiet
<1> QED BY <1>1, PredictedSafe, PTL
-----------------------------------------------------------------------------
(* The deferred move to error, for polls that come too early as well.      *)

LEMMA DeferredStep ==
    ASSUME Paced, Base, PacedInv, DeferredInv, [Next]_vars
    PROVE  DeferredInv'
<1> USE DEF Base, mailbox, machine, servicer
<1> DEFINE Cause == state = "ERROR" \/ mpc = "error" \/ dfu_data.move_to_error
<1>1. CASE HostNext
  <2>1. Submitted \/ Unsubmitted \/ GetStatus
    BY <1>1 DEF HostNext, Submitted, Unsubmitted
  <2>2. reply' = NoReply
    BY <2>1, HostEffect
  <2> QED BY <2>2 DEF DeferredInv, NoReply
<1>2. CASE StatusPost
  <2>1. /\ Quiet /\ observed = state /\ spc' = "give" /\ InFlight' = {"GETSTATUS"}
        /\ mpc' = mpc /\ state' = state
    BY <1>2, StatusEffect, FlightKept, HostFields, CommandsKeepMailbox
    DEF PacedInv, StatusPost, ServicerNext, state
  <2>2. reply'.next = "ERROR" => state = "ERROR"
    BY <1>2, <2>1, AnswerIsSuccessor DEF Successor
  <2> QED BY <2>1, <2>2 DEF DeferredInv, Quiet
<1>3. CASE StatusOnly
  <2>1. /\ UNCHANGED <<mailbox, machine>> /\ state' = state
        /\ spc = "status" /\ spc' = "idle" /\ observed \in Busy
    BY <1>3, StatusEffect, HostFields, CommandsKeepMailbox
    DEF StatusOnly, ServicerNext, state
  <2>2. InFlight' = {"none"} /\ mpc # "getstatus"
    <3>1. notified = {} /\ mpc \notin {"take", "dispatch", "getstatus"}
      BY <2>1 DEF PacedInv
    <3> QED BY <2>1, <3>1 DEF InFlight
  <2>3. reply'.next = "ERROR" => Cause'
    <3>1. CASE StatusTooEarly
      <4>1. dfu_data'.move_to_error = TRUE
        BY <3>1 DEF StatusTooEarly, TypeOK, DfuData
      <4> QED BY <4>1
    <3>2. CASE StatusStillBusy
      <4>1. reply'.next \in {observed, state}
        <5>1. \E s \in {observed, state} :
                 reply' = [next |-> s, timeout |-> dfu_data.previous_timeout_ms]
          BY <3>2 DEF StatusStillBusy, Answer
        <5> QED BY <5>1
      <4> QED BY <2>1, <4>1 DEF Busy
    <3> QED BY <1>3, <3>1, <3>2 DEF StatusOnly
  <2> QED BY <2>1, <2>2, <2>3 DEF DeferredInv
<1>4. CASE Give \/ Notify \/ Wake \/ Take
  <2>1. /\ InFlight' = InFlight /\ UNCHANGED <<dfu_data, reply>>
        /\ mpc # "error" /\ mpc' \in {"wait", "take", "dispatch"}
    <3>1. InFlight' = InFlight /\ UNCHANGED dfu_data
      BY <1>4, FlightKept
    <3>2. CASE Take
      <4>1. counter = 1
        BY <3>2 DEF Take, TypeOK, PacedInv, Given
      <4> QED BY <3>1, <3>2, <4>1 DEF Take
    <3> QED BY <1>4, <3>1, <3>2 DEF Give, Notify, Wake, PacedInv, Quiet
  <2>2. reply # NoReply => spc' \in {"idle", "give", "notify"}
    <3>1. CASE Notify
      <4>1. InFlight = {request}
        BY <3>1 DEF Notify, InFlight, PacedInv, Quiet
      <4>2. reply # NoReply => {request} \in {{"none"}, {"GETSTATUS"}}
        BY <4>1, Zenon DEF DeferredInv
      <4>3. {request} \in {{"none"}, {"GETSTATUS"}} => request # "UPLOAD"
        OBVIOUS
      <4> QED BY <3>1, <4>2, <4>3 DEF Notify
    <3>2. CASE Give \/ Wake \/ Take
      BY <3>2 DEF Give, Wake, Take, DeferredInv
    <3> QED BY <1>4, <3>1, <3>2
  <2> QED BY <2>1, <2>2 DEF DeferredInv, state
<1>5. CASE UploadTake \/ UploadCopy
  <2>1. reply = NoReply /\ reply' = reply
    BY <1>5 DEF UploadTake, UploadCopy, DeferredInv
  <2> QED BY <2>1 DEF DeferredInv, NoReply
<1>6. CASE Handled
  <2>1. /\ InFlight' = {"none"} /\ UNCHANGED <<mailbox, servicer>>
        /\ mpc \notin {"wait", "take"} /\ notified = {} /\ spc \notin {"give", "notify"}
    BY <1>6, FlightKept, HandlingKeepsMailbox DEF Handled, PacedInv, Quiet
  <2>2. reply.next = "ERROR" => Cause
    BY DEF DeferredInv
  <2>3. CASE Dispatch
    <3>1. InFlight = notification_value
      BY <2>1, <2>3, Steps DEF InFlight
    <3>2. reply = NoReply
      BY <2>3, <3>1, Steps DEF DeferredInv
    <3> QED BY <2>1, <3>2 DEF DeferredInv, NoReply
  <2>4. CASE GetStatusElsewhere \/ SyncDone \/ GoesBusy
    <3>1. /\ mpc' \in {"wait", "busy", "manifest"} /\ mpc # "error"
          /\ dfu_data'.move_to_error = dfu_data.move_to_error
          /\ state = "ERROR" => state' = "ERROR"
      BY <2>4, Steps, WorkFields DEF GoesBusy, Now, state
    <3> QED BY <2>1, <2>2, <3>1 DEF DeferredInv
  <2>5. CASE BusyWork
    <3>1. /\ Working /\ Working' /\ state' = state
          /\ dfu_data'.move_to_error = dfu_data.move_to_error
      BY <2>5, Steps, BusyFields
    <3> QED BY <2>1, <2>2, <3>1 DEF DeferredInv, Working
  <2>6. CASE Finish
    <3>1. mpc = "finish" /\ state \in Busy /\ mpc' \in {"wait", "error"}
      BY <2>6, Steps DEF WriteInv, PlacesInv
    <3>2. dfu_data.move_to_error => mpc' = "error"
      BY <2>6, WorkFields DEF Failing
    <3> QED BY <2>1, <2>2, <3>1, <3>2 DEF DeferredInv, Busy
  <2>7. CASE EnterError
    <3>1. state' = "ERROR" /\ mpc' \in {"wait", "getstatus"}
      BY <2>7, Steps, WorkFields DEF Now, state
    <3>2. mpc' = "getstatus" => spc = "sem"
      BY <2>7 DEF EnterError, Loop, SemaphoreInv, UploadWoken
    <3> QED BY <2>1, <3>1, <3>2 DEF DeferredInv
  <2> QED BY <1>6, <2>3, <2>4, <2>5, <2>6, <2>7, Steps DEF Handled
<1>7. CASE Reset
  BY <1>7 DEF Reset, DeferredInv, NoReply
<1>8. CASE UNCHANGED vars
  BY <1>8, Zenon DEF vars, DeferredInv, InFlight, state
<1> QED
  BY <1>1, <1>2, <1>3, <1>4, <1>5, <1>6, <1>7, <1>8
  DEF Next, ServicerNext, StatusPost, StatusOnly, Handled

(* What a paced host was told when it polled too early is not lost,        *)
(* whenever the poll came.                                                 *)
THEOREM DeferredSafe ==
    ASSUME Paced
    PROVE  Spec => []DeferredErrorKept
<1>1. Init => DeferredInv
  BY DEF Init, DeferredInv, NoReply
<1>2. Base /\ PacedInv /\ DeferredInv /\ [Next]_vars => DeferredInv'
  BY DeferredStep
<1>3. DeferredInv => DeferredErrorKept
  BY DEF DeferredInv, DeferredErrorKept
<1> QED BY <1>1, <1>2, <1>3, PacedSafe, PTL DEF Spec
-----------------------------------------------------------------------------
(* The image.  Where fragment k lies.                                      *)
LEMMA FragmentPlace ==
    ASSUME NEW n \in Nat \ {0}, NEW b \in Nat, NEW f \in 0 .. n - 1, NEW k \in Nat
    PROVE  /\ k % n \in 0 .. n - 1 /\ k \div n \in Nat
           /\ k < b * n + f /\ ~ (k \div n < b) => k \div n = b /\ k % n < f
           /\ k = b * n + f => k \div n = b /\ k % n = f
           /\ k < (b + 1) * n => k \div n <= b
<1> DEFINE q == k \div n
           r == k % n
<1>1. q \in Nat /\ r \in 0 .. n - 1 /\ k = n * q + r
  OBVIOUS
<1> HIDE DEF q, r
<1>2. ASSUME q >= b + 1 PROVE k >= b * n + n
  <2>1. n * q >= n * (b + 1)
    BY <1>1, <1>2
  <2>2. n * (b + 1) = b * n + n
    OBVIOUS
  <2> QED BY <1>1, <2>1, <2>2
<1>3. ASSUME q <= b - 1 PROVE k < b * n
  <2>1. n * q <= n * (b - 1)
    BY <1>1, <1>3
  <2>2. n * (b - 1) = b * n - n
    OBVIOUS
  <2> QED BY <1>1, <2>1, <2>2
<1>4. (b + 1) * n = b * n + n /\ b * n \in Nat
  OBVIOUS
<1>5. ASSUME q = b PROVE k = b * n + r
  BY <1>1, <1>5
<1> DEFINE p == b * n
<1>6. /\ k < p + f /\ ~ (q < b) => q = b /\ r < f
      /\ k = p + f => q = b /\ r = f
      /\ k < p + n => q <= b
  <2> HIDE DEF p
  <2>1. /\ q >= b + 1 => k >= p + n
        /\ q <= b - 1 => k < p
        /\ q = b => k = p + r
        /\ p \in Nat
    BY <1>2, <1>3, <1>4, <1>5 DEF p
  <2> QED BY <1>1, <2>1
<1> QED BY <1>1, <1>4, <1>6 DEF q, r

(* The image does not change with what else a step does.                   *)
LEMMA SameImage ==
    ASSUME SamePlace, UNCHANGED <<sent, flash, dn_base_addr>>, NEW e
    PROVE  Assembled(e)' = Assembled(e)
BY Zenon DEF SamePlace, Place, Assembled, StoredFragment, blocks

(* Nor does it where nothing has been sent.                                *)
LEMMA NothingSent ==
    ASSUME sent' = <<>>, Place(0, 0)
    PROVE  Assembled(0)'
<1>1. 0 * NUM_FRAGMENTS + 0 + 0 = 0
  BY LayoutAssumption
<1>2. Len(sent') = 0 /\ 0 .. Len(sent') - 1 = {}
  OBVIOUS
<1>3. dfu_data'.frag_number = 0 /\ blocks' = 0
  BY DEF Place, blocks
<1> QED BY <1>1, <1>2, <1>3 DEF Assembled

LEMMA Emptied ==
    ASSUME state' \notin {"DNLOAD_SYNC", "DNBUSY", "DNLOAD_IDLE"}, Place(0, 0),
           state' = "IDLE" => sent' = <<>> /\ InFlight' = {"none"},
           mpc' \in {"wait", "getstatus", "manifest", "error"}
              \/ (mpc' = "finish" /\ state' = "MANIFEST")
    PROVE  ImageInv'
<1>1. state' = "IDLE" => Assembled(Arriving)'
  <2> SUFFICES ASSUME state' = "IDLE" PROVE Assembled(Arriving)'
    OBVIOUS
  <2>1. Assembled(0)' /\ Arriving' = 0
    BY NothingSent DEF Arriving
  <2> QED BY <2>1 DEF Assembled
<1> QED BY <1>1 DEF ImageInv, Place, blocks

(* What a command, an answer or a wake-up may change.                      *)
LEMMA CommandsKeepImage ==
    ASSUME TypeOK, ImageInv, SamePlace,
           UNCHANGED <<sent, flash, dn_base_addr, state, retval, tmp_buf>>,
           mpc' \in {mpc, "take", "dispatch"},
           dfu_data'.in_progress = dfu_data.in_progress,
           Arriving' = Arriving, InFlight' = {"DNLOAD"} \/ InFlight # {"DNLOAD"}
    PROVE  ImageInv'
<1>1. Assembled(0)' = Assembled(0) /\ Assembled(1)' = Assembled(1)
  BY SameImage
<1>2. Assembled(Arriving)' = Assembled(Arriving)
  BY SameImage DEF Assembled
<1> QED BY <1>1, <1>2, Zenon DEF ImageInv, SamePlace, Place, blocks
(* A fragment that arrives goes behind the ones there are.                 *)
LEMMA FragmentArrives ==
    ASSUME Paced, TypeOK, Assembled(0), NEW data \in Payload, Download(1, data)
    PROVE  Assembled(1)'
<1> DEFINE n == NUM_FRAGMENTS
           f == dfu_data.frag_number
           old == dfu_data.dfu_data_buffer
<1>1. /\ n \in Nat \ {0} /\ blocks \in Nat /\ f \in 0 .. n - 1 /\ sent \in Seq(Payload)
      /\ old \in [0 .. n - 1 -> Cell]
  BY LayoutAssumption DEF TypeOK, DfuData, Frag, Sector, blocks
<1>2. /\ sent' = Append(sent, data) /\ UNCHANGED <<flash, dn_base_addr>>
      /\ blocks' = blocks /\ dfu_data'.frag_number = f
      /\ dfu_data'.dfu_data_buffer = [old EXCEPT ![f] = data]
  BY DEF Download, Submit, commonVars, TypeOK, DfuData, blocks
<1>3. Len(sent) = blocks * n + f + 0
  BY DEF Assembled
<1>4. Len(sent') = blocks' * n + dfu_data'.frag_number + 1
  BY <1>1, <1>2, <1>3
<1>5. ASSUME NEW k \in 0 .. Len(sent') - 1
      PROVE  StoredFragment(k)' = sent'[k + 1]
  <2>1. k \in Nat /\ k <= Len(sent)
    BY <1>1, <1>2
  <2>2. /\ k % n \in 0 .. n - 1
        /\ k < Len(sent) /\ ~ (k \div n < blocks) => k \div n = blocks /\ k % n < f
        /\ k = Len(sent) => k \div n = blocks /\ k % n = f
    <3>1. Len(sent) = blocks * n + f
      BY <1>1, <1>3
    <3>2. /\ k % n \in 0 .. n - 1
          /\ k < blocks * n + f /\ ~ (k \div n < blocks) => k \div n = blocks /\ k % n < f
          /\ k = blocks * n + f => k \div n = blocks /\ k % n = f
      <4>1. n \in Nat \ {0} /\ blocks \in Nat /\ f \in 0 .. n - 1 /\ k \in Nat
        BY <1>1, <2>1
      <4> HIDE DEF n, f
      <4> QED BY <4>1, FragmentPlace
    <3> QED BY <3>1, <3>2
  <2>3. StoredFragment(k)' = IF k \div n < blocks THEN flash[dn_base_addr + (k \div n)][k % n]
                             ELSE [old EXCEPT ![f] = data][k % n]
    BY <1>2 DEF StoredFragment, blocks
  <2>4. StoredFragment(k) = IF k \div n < blocks THEN flash[dn_base_addr + (k \div n)][k % n]
                            ELSE old[k % n]
    BY DEF StoredFragment, blocks
  <2>5. CASE k = Len(sent)
    <3>1. sent'[k + 1] = data
      BY <1>1, <1>2, <2>5
    <3>2. ~ (k \div n < blocks) /\ [old EXCEPT ![f] = data][k % n] = data
      BY <1>1, <2>2, <2>5
    <3> QED BY <2>3, <3>1, <3>2
  <2>6. CASE k < Len(sent)
    <3>1. sent'[k + 1] = sent[k + 1]
      BY <1>1, <1>2, <2>1, <2>6
    <3>2. StoredFragment(k) = sent[k + 1]
      BY <2>1, <2>6 DEF Assembled
    <3>3. ~ (k \div n < blocks) => [old EXCEPT ![f] = data][k % n] = old[k % n]
      BY <1>1, <2>2, <2>6
    <3> QED BY <2>3, <2>4, <3>1, <3>2, <3>3
  <2> QED BY <1>1, <2>1, <2>5, <2>6
<1> QED BY <1>4, <1>5 DEF Assembled

(* Advancing over it changes nothing of what is stored,                    *)
LEMMA FragmentCounted ==
    ASSUME TypeOK, Assembled(1), Place(dfu_data.frag_number + 1, blocks),
           dfu_data'.dfu_data_buffer = dfu_data.dfu_data_buffer,
           UNCHANGED <<sent, flash, dn_base_addr>>
    PROVE  Assembled(0)'
<1>1. /\ dfu_data.frag_number \in Int /\ blocks * NUM_FRAGMENTS \in Int
  BY LayoutAssumption DEF TypeOK, DfuData, Frag, blocks
<1>2. blocks' = blocks /\ dfu_data'.frag_number = dfu_data.frag_number + 1
  BY DEF Place, blocks
<1>3. Len(sent') = blocks' * NUM_FRAGMENTS + dfu_data'.frag_number + 0
  BY <1>1, <1>2 DEF Assembled
<1>4. \A k \in 0 .. Len(sent') - 1 : StoredFragment(k)' = sent'[k + 1]
  BY <1>2, Zenon DEF Assembled, StoredFragment, blocks
<1> QED BY <1>3, <1>4 DEF Assembled

(* nor does advancing over the sector, once it is in the flash.            *)
LEMMA SectorCounted ==
    ASSUME TypeOK, Assembled(1), dfu_data.frag_number = LastFrag, Place(0, blocks + 1),
           flash[dn_base_addr + blocks] = dfu_data.dfu_data_buffer,
           UNCHANGED <<sent, flash, dn_base_addr>>
    PROVE  Assembled(0)'
<1> DEFINE n == NUM_FRAGMENTS
<1>1. n \in Nat \ {0} /\ blocks \in Nat /\ blocks * n \in Nat
  BY LayoutAssumption DEF TypeOK, DfuData, blocks
<1>2. blocks' = blocks + 1 /\ dfu_data'.frag_number = 0
  BY DEF Place, blocks
<1>3. (blocks + 1) * n = blocks * n + n
  BY <1>1
<1>4. Len(sent) = blocks * n + (n - 1) + 1
  BY DEF Assembled, LastFrag
<1>5. Len(sent) = (blocks + 1) * n
  <2>1. \A p \in Nat : p + (n - 1) + 1 = p + n
    BY <1>1
  <2> QED BY <1>1, <1>3, <1>4, <2>1
<1>6. Len(sent') = blocks' * n + dfu_data'.frag_number + 0
  BY <1>1, <1>2, <1>3, <1>5
<1>7. ASSUME NEW k \in 0 .. Len(sent') - 1
      PROVE  StoredFragment(k)' = sent'[k + 1]
  <2>1. k \in Nat /\ k < (blocks + 1) * n
    BY <1>1, <1>3, <1>5
  <2>2. k \div n <= blocks /\ k \div n \in Nat
    <3>1. 0 \in 0 .. n - 1
      BY <1>1
    <3> QED BY <1>1, <2>1, <3>1, FragmentPlace
  <2>3. StoredFragment(k) = sent[k + 1]
    BY DEF Assembled
  <2>4. StoredFragment(k)' = flash[dn_base_addr + (k \div n)][k % n]
    BY <1>1, <1>2, <2>2 DEF StoredFragment, blocks
  <2>5. StoredFragment(k) = flash[dn_base_addr + (k \div n)][k % n]
    <3>1. k \div n < blocks \/ k \div n = blocks
      BY <1>1, <2>2
    <3> QED BY <3>1 DEF StoredFragment, blocks
  <2> QED BY <2>3, <2>4, <2>5
<1> QED BY <1>6, <1>7 DEF Assembled

(* Writing the sector spares the ones before it,                           *)
LEMMA SectorWritten ==
    ASSUME TypeOK, WriteInv, Assembled(1), mpc \in {"erase", "program"},
           NEW contents, flash' = [flash EXCEPT ![wr_addr] = contents],
           UNCHANGED <<dfu_data, sent, dn_base_addr>>
    PROVE  Assembled(1)' /\ flash'[dn_base_addr + blocks] = contents
<1>1. /\ wr_addr = dn_base_addr + blocks /\ dn_base_addr \in Nat /\ blocks \in Nat
      /\ flash \in [Addr -> Sector]
  BY DEF WriteInv, CountersInv, TypeOK, CommonTypeOK, DfuData, blocks
<1>2. wr_addr \in Addr
  BY WriteInvSafe, LayoutAssumption
  DEF WritesInsidePartition, PartitionBase, PartitionEnd, Addr
<1>3. \A b \in Nat : b < blocks => flash'[dn_base_addr + b] = flash[dn_base_addr + b]
  BY <1>1, <1>2, LayoutAssumption DEF Addr
<1>4. ASSUME NEW k \in 0 .. Len(sent) - 1
      PROVE  StoredFragment(k)' = StoredFragment(k)
  <2>1. k \div NUM_FRAGMENTS \in Nat
    BY LayoutAssumption
  <2> QED BY <1>3, <2>1 DEF StoredFragment, blocks
<1>5. flash'[dn_base_addr + blocks] = contents
  BY <1>1, <1>2
<1> QED BY <1>4, <1>5 DEF Assembled, blocks

(* and the partition is opened before the first of them.                   *)
LEMMA PartitionOpened ==
    ASSUME TypeOK, WriteInv, mpc = "busy", OpenPartition(dfu_data.alt_setting),
           Assembled(1), UNCHANGED <<dfu_data, sent, flash>>
    PROVE  Assembled(1)'
<1>1. dn_base_addr' # dn_base_addr => blocks = 0
  BY DEF OpenPartition, WriteInv, PlacesInv, CountersInv
<1>2. ASSUME NEW k \in 0 .. Len(sent) - 1
      PROVE  StoredFragment(k)' = StoredFragment(k)
  <2>1. k \div NUM_FRAGMENTS \in Nat
    BY LayoutAssumption
  <2>2. k \div NUM_FRAGMENTS < blocks => dn_base_addr' = dn_base_addr
    BY <1>1, <2>1
  <2> QED BY <2>2 DEF StoredFragment, blocks
<1> QED BY <1>2 DEF Assembled, blocks

(* The commands of a paced host,                                           *)
LEMMA ImageSubmit ==
    ASSUME Paced, Base, PacedInv, ImageInv, Submitted
    PROVE  ImageInv'
<1> USE DEF Base
<1>1. /\ InFlight = {"none"} /\ mpc = "wait" /\ InFlight' = {request'}
      /\ Arriving = 0
  BY HostEffect, FlightKept DEF InFlight, Quiet, Arriving
<1>2. /\ UNCHANGED <<mpc, flash, dn_base_addr, retval, tmp_buf>>
      /\ state' = state /\ Place(dfu_data.frag_number, blocks)
      /\ dfu_data'.in_progress = dfu_data.in_progress
  <2>1. HostNext
    BY DEF HostNext, Submitted
  <2> QED BY <2>1, HostFields, CommandsKeepWrites, CommandsKeepMailbox
      DEF state, machine, commonVars
<1>3. ASSUME NEW data \in Payload, Download(1, data) PROVE ImageInv'
  <2>1. InFlight' = {"DNLOAD"} /\ Arriving' = 1
    BY <1>1, <1>3 DEF Download, Submit, Arriving, TypeOK, DfuData
  <2>2. state \in {"IDLE", "DNLOAD_IDLE"} => Assembled(1)'
    BY <1>1, <1>3, FragmentArrives DEF ImageInv
  <2> QED BY <1>1, <1>2, <2>1, <2>2, Zenon DEF ImageInv, Place, blocks
<1>4. ASSUME Download(0, Zero) PROVE ImageInv'
  <2>1. InFlight' = {"DNLOAD"} /\ Arriving' = 0
    BY <1>1, <1>4 DEF Download, Submit, Arriving, TypeOK, DfuData
  <2>2. SamePlace /\ UNCHANGED <<sent, flash, dn_base_addr>>
    BY <1>2, <1>4 DEF Download, SamePlace, TypeOK, DfuData
  <2> QED BY <1>1, <1>2, <2>1, <2>2, CommandsKeepImage
<1>5. ASSUME Upload \/ ClearStatus \/ Abort \/ \E alt \in Alts : SetAlternate(alt)
      PROVE  ImageInv'
  <2>1. request' # "DNLOAD"
    BY <1>5 DEF Upload, ClearStatus, Abort, SetAlternate, Submit
  <2>2. SamePlace /\ UNCHANGED sent
    BY <1>2, <1>5 DEF Upload, ClearStatus, Abort, SetAlternate, SamePlace, TypeOK, DfuData
  <2>3. Arriving' = 0 /\ InFlight # {"DNLOAD"}
    BY <1>1, <2>1 DEF Arriving
  <2> QED BY <1>1, <1>2, <2>2, <2>3, CommandsKeepImage
<1> QED BY <1>3, <1>4, <1>5 DEF Submitted

(* the requests the machine serves at once,                                *)
LEMMA ImageDispatch ==
    ASSUME Paced, Base, PacedInv, ImageInv, Dispatch
    PROVE  ImageInv'
<1> USE DEF Base
<1>0. /\ Handled /\ mpc = "dispatch" /\ mpc' \in {"wait", "getstatus", "error"}
  BY Steps DEF Handled, Dispatch, DoDnload, DoUpload, UploadStalls, DoClrStatus, DoAbort,
     DoSetAlternate, Handle, Wake, Take
<1>1. InFlight' = {"none"} /\ InFlight = notification_value
  <2>1. notified = {} /\ spc \notin {"give", "notify"}
    BY <1>0 DEF PacedInv
  <2> QED BY <1>0, <2>1, FlightKept DEF InFlight
<1>2. state' = "IDLE" => sent' = <<>>
  BY DEF Dispatch, DoDnload, DoUpload, UploadStalls, DoClrStatus, DoAbort, DoSetAlternate,
         Handle, Stall, Fail, state
<1>3. CASE DoDnload /\ dfu_data.data_xfer_length = 1 /\ state \in {"IDLE", "DNLOAD_IDLE"}
  <2>1. /\ Now("DNLOAD_SYNC", TRUE) /\ SamePlace /\ mpc' = "wait"
        /\ UNCHANGED <<flash, dn_base_addr>>
    BY <1>3, HandleFields DEF DoDnload, Handle, Loop, commonVars
  <2>2. sent' = sent
    BY <1>3, <2>1 DEF DoDnload, Handle, Now
  <2>3. Assembled(1)
    BY <1>1, <1>3 DEF DoDnload, Handle, ImageInv, Arriving
  <2>4. Assembled(1)'
    BY <2>1, <2>2, <2>3, SameImage
  <2> QED BY <1>1, <2>1, <2>4 DEF ImageInv, Now, state
<1>4. CASE ~ (DoDnload /\ dfu_data.data_xfer_length = 1 /\ state \in {"IDLE", "DNLOAD_IDLE"})
  <2>1. state' \in {"IDLE", "MANIFEST_SYNC", "UPLOAD_IDLE"} /\ Place(0, 0)
    BY <1>4, HandleFields DEF Dispatch, Cleared, Failing, Now, Place, state, ImageInv
  <2> QED BY <1>0, <1>1, <1>2, <2>1, Emptied
<1> QED BY <1>3, <1>4

(* and its own steps of GETSTATUS.                                         *)
LEMMA ImageMoves ==
    ASSUME Paced, Base, PacedInv, ImageInv, GetStatusElsewhere \/ SyncDone \/ GoesBusy
    PROVE  ImageInv'
<1> USE DEF Base
<1>0. /\ Handled /\ mpc \in {"dispatch", "getstatus"}
      /\ mpc = "dispatch" => notification_value = {"GETSTATUS"}
  BY Steps DEF Handled, Wake, Take
<1>1. InFlight' = {"none"} /\ InFlight # {"DNLOAD"} /\ Arriving = 0 /\ Arriving' = 0
  <2>1. notified = {} /\ spc \notin {"give", "notify"}
    BY <1>0 DEF PacedInv
  <2> QED BY <1>0, <2>1, FlightKept DEF InFlight, Arriving
<1>2. /\ UNCHANGED <<flash, dn_base_addr>>
      /\ sent' = IF state' \in {"IDLE", "ERROR"} THEN <<>> ELSE sent
  <2>1. GetStatusElsewhere => DoGetStatus(dfu_data) /\ state' = state
    BY WorkFields DEF GetStatusElsewhere, state
  <2> QED BY <2>1 DEF SyncDone, GoesBusy, DnloadBusy, ManifestBusy, DoGetStatus,
                      commonVars, state
<1>3. SamePlace
  BY WorkFields DEF GoesBusy, SamePlace, Place, blocks
<1>4. CASE GetStatusElsewhere
  <2>1. state' = state /\ state \in Settled /\ mpc' = "wait"
    BY <1>4, WorkFields, Steps DEF state
  <2>2. CASE state = "DNLOAD_IDLE"
    <3>1. Assembled(0)' /\ sent' = sent
      BY <1>1, <1>2, <1>3, <2>1, <2>2, SameImage DEF ImageInv
    <3> QED BY <1>1, <2>1, <2>2, <3>1 DEF ImageInv
  <2>3. CASE state # "DNLOAD_IDLE"
    <3>1. Place(0, 0)
      BY <1>3, <2>1, <2>3 DEF ImageInv, SamePlace, Place, Settled
    <3> QED BY <1>1, <1>2, <2>1, <2>3, <3>1, Emptied DEF Settled
  <2> QED BY <2>2, <2>3
<1>5. CASE SyncDone
  <2>1. mpc' = "wait"
    BY <1>5, Steps
  <2>2. CASE state = "DNLOAD_SYNC"
    <3>1. state' = "DNLOAD_IDLE" /\ Assembled(0)
      BY <1>1, <1>5, <2>2, WorkFields DEF ImageInv, Now, state
    <3>2. Assembled(0)'
      BY <1>2, <1>3, <3>1, SameImage
    <3> QED BY <1>1, <2>1, <3>1, <3>2 DEF ImageInv
  <2>3. CASE state = "MANIFEST_SYNC"
    <3>1. state' = "IDLE" /\ Place(0, 0)
      BY <1>3, <1>5, <2>3, WorkFields DEF ImageInv, Now, state, SamePlace, Place
    <3> QED BY <1>1, <1>2, <2>1, <3>1, Emptied
  <2> QED BY <1>5, <2>2, <2>3, WorkFields
<1>6. CASE DnloadBusy
  <2>1. state' = "DNBUSY" /\ Assembled(1) /\ mpc' = "busy"
    BY <1>1, <1>6, WorkFields DEF ImageInv, Now, state, DnloadBusy, Begin
  <2>2. Assembled(1)'
    BY <1>2, <1>3, <2>1, SameImage
  <2> QED BY <2>1, <2>2 DEF ImageInv
<1>7. CASE ManifestBusy
  <2>1. state' = "MANIFEST" /\ state = "MANIFEST_SYNC" /\ mpc' = "manifest"
    BY <1>7, WorkFields DEF Now, state, ManifestBusy, Begin
  <2>2. Place(0, 0)
    BY <1>3, <2>1 DEF ImageInv, SamePlace, Place
  <2> QED BY <2>1, <2>2, Emptied
<1> QED BY <1>4, <1>5, <1>6, <1>7 DEF GoesBusy

(* What it does while it is busy.                                          *)
LEMMA ImageWork ==
    ASSUME Paced, Base, PacedInv, ImageInv, BusyWork
    PROVE  ImageInv'
<1> USE DEF Base
<1>0. state' = state
  BY BusyFields
<1>1. CASE BufferFragment
  <2>1. state = "DNBUSY" /\ mpc' = "finish" /\ Assembled(1)
    BY <1>1 DEF BufferFragment, WriteInv, PlacesInv, ImageInv
  <2>2. Assembled(0)'
    BY <1>1, <2>1, WorkFields, FragmentCounted DEF BufferFragment, commonVars
  <2> QED BY <1>0, <2>1, <2>2 DEF ImageInv
<1>2. CASE WriteRefused
  <2>1. state = "DNBUSY" /\ mpc' = "written" /\ retval' # STATUS_OK
    BY <1>2 DEF WriteRefused, WriteInv, PlacesInv, STATUS_OK, ERR_WRITE, ERR_ADDRESS
  <2> QED BY <1>0, <2>1 DEF ImageInv
<1>3. CASE WriteBegin
  <2>1. state = "DNBUSY" /\ mpc = "busy" /\ mpc' = "erase" /\ Assembled(1)
    BY <1>3 DEF WriteBegin, WriteInv, PlacesInv, ImageInv
  <2>2. Assembled(1)'
    BY <1>3, <2>1, PartitionOpened DEF WriteBegin
  <2>3. dfu_data'.frag_number = LastFrag /\ tmp_buf' = dfu_data'.dfu_data_buffer
    BY <1>3 DEF WriteBegin
  <2> QED BY <1>0, <2>1, <2>2, <2>3 DEF ImageInv
<1>4. CASE FlashErase
  <2>1. /\ state = "DNBUSY" /\ mpc = "erase" /\ mpc' = "program" /\ Assembled(1)
        /\ dfu_data.frag_number = LastFrag /\ tmp_buf = dfu_data.dfu_data_buffer
    BY <1>4 DEF FlashErase, WriteInv, PlacesInv, ImageInv
  <2>2. Assembled(1)'
    BY <1>4, <2>1, SectorWritten DEF FlashErase, EraseSector
  <2>3. dfu_data'.frag_number = LastFrag /\ tmp_buf' = dfu_data'.dfu_data_buffer
    BY <1>4, <2>1 DEF FlashErase
  <2> QED BY <1>0, <2>1, <2>2, <2>3 DEF ImageInv
<1>5. CASE FlashProgram
  <2>1. /\ state = "DNBUSY" /\ mpc = "program" /\ mpc' = "written" /\ Assembled(1)
        /\ dfu_data.frag_number = LastFrag /\ tmp_buf = dfu_data.dfu_data_buffer
    BY <1>5 DEF FlashProgram, WriteInv, PlacesInv, ImageInv
  <2>2. Assembled(1)' /\ flash'[dn_base_addr + blocks] = tmp_buf
    BY <1>5, <2>1, SectorWritten DEF FlashProgram, ProgramSector
  <2>3. /\ dfu_data'.frag_number = LastFrag
        /\ flash'[dn_base_addr' + blocks'] = dfu_data'.dfu_data_buffer
    BY <1>5, <2>1, <2>2 DEF FlashProgram, blocks
  <2> QED BY <1>0, <2>1, <2>2, <2>3 DEF ImageInv
<1>6. CASE SectorDone
  <2>1. /\ state = "DNBUSY" /\ mpc = "written" /\ mpc' = "finish" /\ retval' = retval
        /\ UNCHANGED <<sent, flash, dn_base_addr>>
    BY <1>6 DEF SectorDone, WriteInv, PlacesInv, commonVars
  <2>2. retval = STATUS_OK => Assembled(0)'
    BY <1>6, <2>1, WorkFields, SectorCounted DEF ImageInv
  <2> QED BY <1>0, <2>1, <2>2 DEF ImageInv
<1>7. CASE Manifest
  <2>1. state = "MANIFEST" /\ mpc' = "finish"
    BY <1>7 DEF Manifest, WriteInv, PlacesInv
  <2>2. Place(0, 0)
    BY <1>7, <2>1, WorkFields DEF ImageInv, SamePlace, Place
  <2> QED BY <1>0, <2>1, <2>2, Emptied
<1> QED BY <1>1, <1>2, <1>3, <1>4, <1>5, <1>6, <1>7 DEF BusyWork

LEMMA ImageFinish ==
    ASSUME Paced, Base, PacedInv, ImageInv, Finish
    PROVE  ImageInv'
<1> USE DEF Base
<1>1. /\ mpc = "finish" /\ state \in Busy /\ ~ dfu_data.in_progress
      /\ UNCHANGED <<flash, dn_base_addr>>
  BY Steps DEF WriteInv, PlacesInv, ProgressInv, Finish, commonVars
<1>2. InFlight' = {"none"}
  BY FlightKept, Steps DEF Handled, Finish, Wake, Take
<1>3. CASE dfu_data.move_to_error \/ retval # STATUS_OK
  <2>1. mpc' = "error" /\ state' = "IDLE" /\ sent' = <<>> /\ Place(0, 0)
    BY <1>3, WorkFields DEF Failing, Cleared, state
  <2> QED BY <1>2, <2>1, Emptied
<1>4. CASE ~ (dfu_data.move_to_error \/ retval # STATUS_OK)
  <2>1. /\ state' = IF state = "DNBUSY" THEN "DNLOAD_SYNC" ELSE "MANIFEST_SYNC"
        /\ ~ dfu_data'.in_progress /\ SamePlace /\ mpc' = "wait"
    BY <1>1, <1>4, WorkFields DEF Now, state
  <2>2. CASE state = "DNBUSY"
    <3>1. sent' = sent /\ Assembled(0)
      BY <1>1, <1>4, <2>2 DEF Finish, Failure, ImageInv
    <3>2. Assembled(0)'
      BY <1>1, <2>1, <3>1, SameImage
    <3> QED BY <1>1, <1>2, <2>1, <2>2, <3>2 DEF ImageInv
  <2>3. CASE state = "MANIFEST"
    <3>1. Place(0, 0)
      BY <2>1, <2>3 DEF ImageInv, SamePlace, Place
    <3> QED BY <1>1, <2>1, <2>3, <3>1, Emptied
  <2> QED BY <1>1, <2>2, <2>3 DEF Busy
<1> QED BY <1>3, <1>4

LEMMA ImageEnterError ==
    ASSUME Paced, Base, PacedInv, ImageInv, EnterError
    PROVE  ImageInv'
<1> USE DEF Base
<1>1. state = "IDLE" /\ mpc' \in {"wait", "getstatus"}
  BY Steps DEF EnterError, WriteInv, PlacesInv
<1>2. state' = "ERROR" /\ Place(0, 0)
  BY <1>1, WorkFields DEF Now, SamePlace, Place, state, ImageInv
<1> QED BY <1>1, <1>2, Emptied

LEMMA ImageStep ==
    ASSUME Paced, Base, PacedInv, ImageInv, [Next]_vars
    PROVE  ImageInv'
<1> USE DEF mailbox, machine, servicer
<1>1. CASE Submitted
  BY <1>1, ImageSubmit
<1>2. CASE \/ (Unsubmitted \/ GetStatus) /\ ~ Submitted
           \/ StatusOnly \/ StatusPost \/ UploadTake \/ UploadCopy \/ Give \/ Notify
  <2>1. /\ (HostNext \/ ServicerNext)
        /\ UNCHANGED <<sent, flash, dn_base_addr, mpc, retval, tmp_buf>>
    BY <1>2 DEF HostNext, ServicerNext, Unsubmitted, Reboot, SetTransferBlock, GetStatus,
           StatusOnly, StatusTooEarly, StatusStillBusy, StatusPost, StatusSettled,
           StatusDnloadSync, StatusManifestSync, Answer, UploadTake, UploadCopy, Give,
           Notify, commonVars
  <2>2. ~ Submitted
    BY <1>2, HostEffect, StatusEffect DEF UploadTake, UploadCopy, Give, Notify
  <2>3. /\ SamePlace /\ state' = state /\ dfu_data'.in_progress = dfu_data.in_progress
        /\ dfu_data'.data_xfer_length = dfu_data.data_xfer_length
    BY <2>1, <2>2, HostFields DEF Base, SamePlace, state
  <2>4. InFlight' = InFlight \/ (InFlight = {"none"} /\ InFlight' = {"GETSTATUS"})
    <3>1. CASE StatusPost
      <4>1. Quiet /\ spc = "status" /\ InFlight' = {"GETSTATUS"}
        BY <3>1, StatusEffect, FlightKept DEF Base, PacedInv
      <4> QED BY <4>1 DEF InFlight, Quiet
    <3> QED BY <1>2, <3>1, FlightKept DEF Base
  <2>5. Arriving' = Arriving /\ (InFlight' = {"DNLOAD"} \/ InFlight # {"DNLOAD"})
    BY <2>3, <2>4 DEF Arriving
  <2> QED BY <2>1, <2>3, <2>5, CommandsKeepImage DEF Base
<1>3. CASE Wake \/ Take
  <2>1. /\ UNCHANGED <<dfu_data, flash, dn_base_addr, tmp_buf>>
        /\ InFlight' = InFlight
    BY <1>3, FlightKept DEF Base, Wake, Take, commonVars
  <2>2. mpc' \in {"take", "dispatch"} /\ UNCHANGED <<sent, retval>>
    BY <1>3 DEF Wake, Take, PacedInv, Given, Base, TypeOK
  <2>3. SamePlace /\ Arriving' = Arriving /\ state' = state
    BY <2>1 DEF SamePlace, Place, Arriving, blocks, state
  <2> QED BY <2>1, <2>2, <2>3, CommandsKeepImage DEF Base
<1>4. CASE Reset
  <2>1. /\ state' = "IDLE" /\ Place(0, 0) /\ sent' = <<>> /\ InFlight' = {"none"}
        /\ mpc' = "wait"
    BY <1>4 DEF Reset, BootData, Place, state, InFlight
  <2> QED BY <2>1, Emptied
<1>5. CASE UNCHANGED vars
  <2>1. SamePlace /\ Arriving' = Arriving /\ InFlight' = InFlight /\ state' = state
    BY <1>5, Zenon DEF vars, SamePlace, Place, Arriving, InFlight, blocks, state
  <2> QED BY <1>5, <2>1, CommandsKeepImage DEF vars, Base
<1>6. CASE Handled
  BY <1>6, Steps, ImageDispatch, ImageMoves, ImageWork, ImageFinish, ImageEnterError
  DEF Handled
<1>7. Submitted \/ Unsubmitted \/ GetStatus \/ ~ HostNext
  BY DEF HostNext, Submitted, Unsubmitted
<1> QED
  BY <1>1, <1>2, <1>3, <1>4, <1>5, <1>6, <1>7
  DEF Next, ServicerNext, StatusPost, StatusOnly, Handled

LEMMA ImageInit == Init => ImageInv
<1> SUFFICES ASSUME Init PROVE ImageInv
  OBVIOUS
<1>1. /\ sent = <<>> /\ dfu_data.frag_number = 0 /\ blocks = 0 /\ state = "IDLE"
      /\ mpc = "wait" /\ InFlight = {"none"}
  BY DEF Init, BootData, blocks, state, InFlight
<1>2. Len(sent) = 0 /\ 0 .. Len(sent) - 1 = {} /\ 0 * NUM_FRAGMENTS + 0 + 0 = 0
  BY <1>1, LayoutAssumption
<1>3. Assembled(0) /\ Arriving = 0
  BY <1>1, <1>2 DEF Assembled, Arriving
<1> QED BY <1>1, <1>3 DEF ImageInv

(* A host that leaves each request its time finds the image in order: each *)
(* fragment it sent is where its place in the sequence says.               *)
THEOREM ImageSafe ==
    ASSUME Paced
    PROVE  Spec => []ImageAssembled
<1>1. Base /\ PacedInv /\ ImageInv => ImageAssembled
  <2> SUFFICES ASSUME Base, PacedInv, ImageInv, Quiet, spc = "idle",
                      state \in {"DNLOAD_SYNC", "DNLOAD_IDLE"}
               PROVE  Assembled(IF dfu_data.in_progress THEN 1 ELSE 0)
    BY DEF ImageAssembled, Assembled, blocks
  <2>1. InFlight = {"none"} /\ Arriving = 0
    BY DEF InFlight, Quiet, Arriving
  <2>2. state = "DNLOAD_IDLE" => ~ dfu_data.in_progress
    BY DEF Base, ProgressInv, Busy
  <2> QED BY <2>1, <2>2 DEF ImageInv
<1>2. Base /\ PacedInv /\ ImageInv /\ [Next]_vars => ImageInv'
  BY ImageStep
<1> QED BY <1>1, <1>2, ImageInit, PacedSafe, PTL DEF Spec

=============================================================================
