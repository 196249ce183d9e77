---------------------------- MODULE DfuIntSafety ----------------------------
(***************************************************************************)
(* The safety of DfuInt for every layout and every host, proved from the   *)
(* inductive invariants of DfuIntInv.                                      *)
(***************************************************************************)
EXTENDS DfuIntProofs, DfuIntInv
-----------------------------------------------------------------------------
(* The mailbox and the counter.                                            *)

(* A step of the host or of get_status changes nothing MailboxInv is about.*)
LEMMA CommandsKeepMailbox ==
    HostNext \/ StatusSettled \/ StatusDnloadSync \/ StatusManifestSync
             \/ StatusTooEarly \/ StatusStillBusy
        => /\ UNCHANGED <<mailbox, machine, upload_semaphore>>
           /\ spc \in {"idle", "status"} /\ spc' \in {"idle", "status", "give"}
<1> USE DEF mailbox, machine
<1>1. HostNext => /\ UNCHANGED <<mailbox, machine, upload_semaphore>>
                  /\ spc = "idle" /\ spc' \in {"idle", "status", "give"}
  BY DEF HostNext, Download, Upload, ClearStatus, Abort, SetAlternate,
         SetTransferBlock, Reboot, GetStatus, HostMay, Submit
<1> QED
  BY <1>1 DEF StatusSettled, StatusDnloadSync, StatusManifestSync, StatusTooEarly,
              StatusStillBusy, Answer, Post

(* A machine step past Take leaves the mailbox to the servicer, and keeps  *)
(* what it woke with or forgets it; only an upload is kept into an error.  *)
LEMMA HandlingKeepsMailbox ==
    MachineNext /\ ~Wake /\ ~Take
        => /\ UNCHANGED <<mailbox, servicer>>
           /\ mpc \notin {"wait", "take"} /\ mpc' \notin {"take", "dispatch"}
           /\ \/ mpc' \in {"wait", "error"} /\ Forget
              \/ /\ UNCHANGED <<notification_value, woken>>
                 /\ mpc' # "wait"
                 /\ mpc = "error" => mpc' # "error" /\ notification_value = {"UPLOAD"}
                 /\ mpc' = "error" => mpc = "dispatch" /\ notification_value = {"UPLOAD"}
<1> USE DEF mailbox, servicer, Loop, Begin, DoGetStatus, AtGetStatus, Handle, Stall, Fail
<1> DEFINE Kept == UNCHANGED <<mailbox, servicer>>
<1>1. DoDnload \/ DoClrStatus \/ DoAbort \/ DoSetAlternate
        => Kept /\ mpc = "dispatch" /\ mpc' \in {"wait", "error"} /\ Forget
  BY DEF DoDnload, DoClrStatus, DoAbort, DoSetAlternate
<1>2. GetStatusElsewhere \/ SyncDone
        => Kept /\ mpc \in {"dispatch", "getstatus"} /\ mpc' \in {"wait", "error"} /\ Forget
  BY DEF GetStatusElsewhere, SyncDone
<1>3. DnloadBusy \/ ManifestBusy
        => /\ Kept /\ UNCHANGED <<notification_value, woken>>
           /\ mpc \in {"dispatch", "getstatus"} /\ mpc' \in {"busy", "manifest"}
  BY DEF DnloadBusy, ManifestBusy
<1>4. DoUpload \/ BufferFragment \/ WriteRefused \/ WriteBegin \/ FlashErase
               \/ FlashProgram \/ SectorDone \/ Manifest
        => /\ Kept /\ UNCHANGED <<notification_value, woken>>
           /\ mpc \in {"dispatch", "busy", "erase", "program", "written", "manifest"}
           /\ mpc' \in {"getstatus", "erase", "program", "written", "finish"}
  BY DEF DoUpload, BufferFragment, WriteRefused, WriteBegin, FlashErase,
         FlashProgram, SectorDone, Manifest
<1>5. Finish => Kept /\ mpc = "finish" /\ mpc' \in {"wait", "error"} /\ Forget
  BY DEF Finish
<1>6. UploadStalls => /\ Kept /\ UNCHANGED <<notification_value, woken>>
                      /\ mpc = "dispatch" /\ notification_value = {"UPLOAD"} /\ mpc' = "error"
  BY DEF UploadStalls
<1>7. EnterError
        => /\ Kept /\ mpc = "error"
           /\ \/ mpc' = "wait" /\ Forget
              \/ /\ UNCHANGED <<notification_value, woken>>
                 /\ mpc' = "getstatus" /\ notification_value = {"UPLOAD"}
  BY DEF EnterError
<1> HIDE DEF Kept, mailbox, servicer
<1> QED
  BY <1>1, <1>2, <1>3, <1>4, <1>5, <1>6, <1>7 DEF MachineNext, Kept

LEMMA MailboxStep == TypeOK /\ MailboxInv /\ [Next]_vars => MailboxInv'
<1> SUFFICES ASSUME TypeOK, MailboxInv, [Next]_vars PROVE MailboxInv'
  OBVIOUS
<1> USE DEF mailbox, machine, servicer
<1>0. counter \in Nat /\ posted \in Nat /\ woken \in Nat
  BY DEF TypeOK
<1>1. ASSUME UNCHANGED <<mailbox, machine>>, spc # "notify", spc' # "notify"
      PROVE  MailboxInv'
  BY <1>1, Zenon DEF MailboxInv, Given
<1>2. CASE HostNext \/ StatusSettled \/ StatusDnloadSync \/ StatusManifestSync
             \/ StatusTooEarly \/ StatusStillBusy
  BY <1>1, <1>2, CommandsKeepMailbox
<1>3. CASE Give
  BY <1>0, <1>3 DEF MailboxInv, Given, Give
<1>4. CASE Notify
  <2>1. request \in Request
    BY <1>4 DEF TypeOK, Notify
  <2>2. counter' >= posted' + Given'
    BY <1>0, <1>4 DEF MailboxInv, Given, Notify
  <2>3. posted' >= 1 /\ (posted' = 1 => notified' = {request})
    BY <1>0, <1>4 DEF MailboxInv, Notify
  <2> QED
    BY <1>0, <1>4, <2>1, <2>2, <2>3 DEF MailboxInv, Notify
<1>5. CASE UploadTake
  BY <1>1, <1>5 DEF UploadTake
<1>6. CASE UploadCopy
  BY <1>1, <1>6 DEF UploadCopy
<1>7. CASE Wake
  <2>1. posted >= 1 /\ (posted = 1 => \E r \in Request : notified = {r})
    BY <1>7 DEF MailboxInv, Wake
  <2> QED
    BY <1>0, <1>7, <2>1 DEF MailboxInv, Given, Wake
<1>8. CASE Take
  <2>0. mpc = "take" /\ counter >= posted + Given /\ woken >= 1
    BY <1>8, Zenon DEF MailboxInv, Take
  <2>1. counter >= posted + woken + (IF spc = "notify" THEN 1 ELSE 0)
    BY <1>0, <2>0 DEF Given
  <2>2. counter' >= posted' + Given'
    <3>1. counter' = IF counter > 0 THEN counter - 1 ELSE 0
      BY <1>8, Zenon DEF Take
    <3>2. posted' = posted /\ spc' = spc /\ mpc' \in {"dispatch", "error"}
      BY <1>8 DEF Take, Stall, Fail
    <3> QED
      BY <1>0, <2>0, <2>1, <3>1, <3>2 DEF Given
  <2>3. counter = 1 => woken = 1
    BY <1>0, <2>0, <2>1
  <2> QED
    BY <1>0, <1>8, <2>1, <2>2, <2>3 DEF MailboxInv, Take, Stall, Fail, Forget
<1>9. CASE MachineNext /\ ~Wake /\ ~Take
  BY <1>0, <1>9, HandlingKeepsMailbox DEF MailboxInv, Given, Forget
<1>10. CASE Reset
  BY <1>10 DEF MailboxInv, Given, Reset
<1>11. CASE UNCHANGED vars
  BY <1>11 DEF MailboxInv, Given, vars
<1> QED
  BY <1>2, <1>3, <1>4, <1>5, <1>6, <1>7, <1>8, <1>9, <1>10, <1>11
  DEF Next, ServicerNext, MachineNext

(* No request is ever acted on together with one it was merged with: the   *)
(* counter can drift, but only upwards, so a lone 1 means a lone request.  *)
THEOREM OneRequestSafe == Spec => []OneRequestPerDispatch
<1>1. Init => MailboxInv
  BY DEF Init, MailboxInv, Given
<1>2. MailboxInv => OneRequestPerDispatch
  BY DEF MailboxInv, OneRequestPerDispatch
<1> QED
  BY <1>1, <1>2, TypeCorrect, MailboxStep, PTL DEF Spec
-----------------------------------------------------------------------------
(* The upload semaphore.                                                   *)

LEMMA HandlingKeepsSemaphore ==
    MachineNext /\ ~DoUpload /\ ~EnterError => UNCHANGED upload_semaphore
BY DEF MachineNext, Wake, Take, DoDnload, DoClrStatus, DoAbort, DoSetAlternate, UploadStalls,
       Handle, GetStatusElsewhere, SyncDone, DnloadBusy, ManifestBusy, DoGetStatus,
       BufferFragment, WriteRefused, WriteBegin, FlashErase, FlashProgram,
       SectorDone, Manifest, Finish

LEMMA SemaphoreStep == SemaphoreInv /\ [Next]_vars => SemaphoreInv'
<1> SUFFICES ASSUME SemaphoreInv, [Next]_vars PROVE SemaphoreInv'
  OBVIOUS
<1> USE DEF mailbox, machine, servicer
<1>1. ASSUME UNCHANGED <<mailbox, machine, upload_semaphore>>, spc # "sem"
      PROVE  SemaphoreInv'
  BY <1>1 DEF SemaphoreInv, UploadWoken
<1>2. CASE HostNext \/ StatusSettled \/ StatusDnloadSync \/ StatusManifestSync
             \/ StatusTooEarly \/ StatusStillBusy
  BY <1>1, <1>2, CommandsKeepMailbox
<1>3. CASE Give
  BY <1>3 DEF SemaphoreInv, UploadWoken, Give
<1>4. CASE Notify
  BY <1>4 DEF SemaphoreInv, UploadWoken, Notify
<1>5. CASE UploadTake
  BY <1>5 DEF SemaphoreInv, UploadWoken, UploadTake
<1>6. CASE UploadCopy
  BY <1>6 DEF SemaphoreInv, UploadWoken, UploadCopy
<1>7. CASE Wake
  BY <1>7 DEF SemaphoreInv, UploadWoken, Wake
<1>8. CASE Take
  BY <1>8 DEF SemaphoreInv, UploadWoken, Take, Stall, Fail, Forget
<1>9. CASE DoUpload
  BY <1>9 DEF SemaphoreInv, UploadWoken, DoUpload
<1>10. CASE EnterError
  BY <1>10 DEF SemaphoreInv, UploadWoken, EnterError, Loop, Forget
<1>11. CASE MachineNext /\ ~Wake /\ ~Take /\ ~DoUpload /\ ~EnterError
  BY <1>11, HandlingKeepsMailbox, HandlingKeepsSemaphore
  DEF SemaphoreInv, UploadWoken, Forget
<1>12. CASE Reset
  BY <1>12 DEF SemaphoreInv, UploadWoken, Reset
<1>13. CASE UNCHANGED vars
  BY <1>13 DEF SemaphoreInv, UploadWoken, vars
<1> QED
  BY <1>2, <1>3, <1>4, <1>5, <1>6, <1>7, <1>8, <1>9, <1>10, <1>11, <1>12, <1>13
  DEF Next, ServicerNext

(* The semaphore an upload waits for is never one left by an earlier       *)
(* request, however the requests were merged.                              *)
THEOREM SemaphoreSafe == Spec => []SemaphoreHasWaiter
<1>1. Init => SemaphoreInv
  BY DEF Init, SemaphoreInv, UploadWoken
<1>2. SemaphoreInv => SemaphoreHasWaiter
  BY DEF SemaphoreInv, SemaphoreHasWaiter
<1> QED
  BY <1>1, <1>2, SemaphoreStep, PTL DEF Spec
-----------------------------------------------------------------------------
(* The write counters and the flash.                                       *)

(* No command and no answer touches what the machine writes by, but for    *)
(* the fields of dfu_data the host sets.                                   *)
LEMMA CommandsKeepWrites ==
    TypeOK /\ (HostNext \/ ServicerNext)
        => /\ UNCHANGED <<mpc, retval, wr_addr, bytes_avail, dn_base_addr, total_len, flash>>
           /\ dfu_data'.current_state = state
           /\ dfu_data'.download_block_number = blocks
<1> SUFFICES ASSUME TypeOK, HostNext \/ ServicerNext
             PROVE  /\ UNCHANGED <<mpc, retval, wr_addr, bytes_avail, dn_base_addr,
                                   total_len, flash>>
                    /\ dfu_data'.current_state = state
                    /\ dfu_data'.download_block_number = blocks
  OBVIOUS
<1>1. UNCHANGED <<machine, commonVars>>
  <2>1. HostNext => UNCHANGED <<machine, commonVars>>
    BY DEF HostNext, Download, Upload, ClearStatus, Abort, SetAlternate,
           SetTransferBlock, Reboot, GetStatus, Submit
  <2>2. ServicerNext => UNCHANGED <<machine, commonVars>>
    BY DEF ServicerNext, StatusSettled, StatusDnloadSync, StatusManifestSync,
           StatusTooEarly, StatusStillBusy, Answer, Give, Notify, UploadTake, UploadCopy
  <2> QED
    BY <2>1, <2>2
<1>2. dfu_data \in DfuData
  BY DEF TypeOK
<1>3. /\ dfu_data'.current_state = state
      /\ dfu_data'.download_block_number = blocks
  <2> USE DEF state, blocks
  <2>1. CASE HostNext
    BY <1>2, <2>1 DEF HostNext, Download, Upload, ClearStatus, Abort, SetAlternate,
           SetTransferBlock, Reboot, GetStatus, DfuData
  <2>2. CASE ServicerNext
    BY <1>2, <2>2 DEF ServicerNext, StatusSettled, StatusDnloadSync,
           StatusManifestSync, StatusTooEarly, StatusStillBusy, Give, Notify,
           UploadTake, UploadCopy, DfuData
  <2> QED
    BY <2>1, <2>2
<1> QED
  BY <1>1, <1>3 DEF machine, commonVars

(* What the machine leaves in dfu_data when it resets or refuses.          *)
LEMMA ResetFields ==
    ASSUME NEW d \in DfuData
    PROVE  /\ ResetDownloadBuffer(d).download_block_number = 0
           /\ ResetState(d).download_block_number = 0
           /\ ResetState(d).current_state = "IDLE"
BY DEF DfuData, ResetDownloadBuffer, ResetState

LEMMA FailFields ==
    ASSUME TypeOK, NEW status, Fail(status)
    PROVE  /\ mpc' = "error" /\ retval' = status /\ sent' = <<>>
           /\ state' = "IDLE" /\ blocks' = 0
BY ResetFields DEF TypeOK, Fail, state, blocks

(* A step that opens no partition and writes nothing keeps WriteInv if it  *)
(* leaves the block number alone or resets it, outside of a write.         *)
LEMMA IdleWrites ==
    ASSUME TypeOK, WriteInv, UNCHANGED <<bytes_avail, dn_base_addr, total_len>>,
           mpc \notin {"written", "finish", "error"}, retval' = retval,
           mpc' \in {"wait", "take", "dispatch", "getstatus"},
           blocks' \in {0, blocks},
           state' \in {"MANIFEST_SYNC", "MANIFEST"} => blocks' = 0
    PROVE  WriteInv'
<1>1. retval = STATUS_OK
  BY Zenon DEF WriteInv, PlacesInv
<1>2. (\E alt \in {1, 2} : Opened(alt)) => (\E alt \in {1, 2} : Opened(alt))'
  BY DEF Opened
<1>3. total_len \in Nat
  BY DEF TypeOK, CommonTypeOK
<1>4. PlacesInv'
  BY <1>1 DEF PlacesInv
<1>5. CountersInv'
  BY <1>1, <1>2, <1>3 DEF WriteInv, CountersInv
<1> QED
  BY <1>4, <1>5 DEF WriteInv

(* So does a step into dfu_int_error, from a write or not, and the end of  *)
(* it.                                                                     *)
LEMMA FailWrites ==
    ASSUME TypeOK, WriteInv, UNCHANGED <<bytes_avail, dn_base_addr, total_len>>,
           NEW status, status # STATUS_OK, Fail(status)
    PROVE  WriteInv'
<1>1. mpc' = "error" /\ retval' # STATUS_OK /\ state' = "IDLE" /\ blocks' = 0
  BY FailFields
<1>2. (\E alt \in {1, 2} : Opened(alt)) => (\E alt \in {1, 2} : Opened(alt))'
  BY DEF Opened
<1> QED
  BY <1>1, <1>2 DEF WriteInv, PlacesInv, CountersInv

LEMMA ErrorWrites == TypeOK /\ WriteInv /\ EnterError => WriteInv'
<1> SUFFICES ASSUME TypeOK, WriteInv, EnterError PROVE WriteInv'
  OBVIOUS
<1>1. /\ mpc' \in {"wait", "getstatus"} /\ retval' = STATUS_OK
      /\ state' = "ERROR" /\ blocks' = 0
      /\ UNCHANGED <<bytes_avail, dn_base_addr, total_len>>
  BY DEF EnterError, Loop, WriteInv, PlacesInv, TypeOK, DfuData, state, blocks, commonVars
<1>2. (\E alt \in {1, 2} : Opened(alt)) => (\E alt \in {1, 2} : Opened(alt))'
  BY <1>1 DEF Opened
<1>3. total_len \in Nat
  BY DEF TypeOK, CommonTypeOK
<1> QED
  BY <1>1, <1>2, <1>3 DEF WriteInv, PlacesInv, CountersInv

LEMMA DispatchWrites ==
    ASSUME TypeOK, WriteInv,
           Wake \/ Take \/ DoDnload \/ DoUpload \/ UploadStalls \/ DoClrStatus \/ DoAbort
                \/ DoSetAlternate \/ GetStatusElsewhere \/ SyncDone
    PROVE  WriteInv'
<1>0. dfu_data \in DfuData /\ (state \in {"MANIFEST_SYNC", "MANIFEST"} => blocks = 0)
  BY DEF TypeOK, WriteInv, PlacesInv
<1> USE DEF commonVars, Loop
<1>1. UNCHANGED <<bytes_avail, dn_base_addr, total_len>>
  BY DEF Wake, Take, DoDnload, DoUpload, UploadStalls, DoClrStatus, DoAbort, DoSetAlternate,
         Handle, GetStatusElsewhere, SyncDone, DoGetStatus
<1>2. CASE Stall
  <2>1. ERR_STALLEDPKT # STATUS_OK
    BY DEF ERR_STALLEDPKT, STATUS_OK
  <2> QED
    BY <1>1, <1>2, <2>1, FailWrites DEF Stall
<1>3. CASE ~ Stall
  <2>1. /\ retval' = retval
        /\ mpc \in {"wait", "take", "dispatch", "getstatus"}
        /\ mpc' \in {"wait", "take", "dispatch", "getstatus"}
    BY <1>3 DEF Wake, Take, DoDnload, DoUpload, UploadStalls, DoClrStatus, DoAbort,
           DoSetAlternate, Handle, GetStatusElsewhere, SyncDone, DoGetStatus, AtGetStatus
  <2>2. /\ blocks' \in {0, blocks}
        /\ state' \in {"MANIFEST_SYNC", "MANIFEST"} => blocks' = 0
    <3> USE DEF state, blocks
    <3>1. CASE Wake
      BY <1>0, <3>1 DEF Wake
    <3>2. CASE Take
      BY <1>0, <1>3, <3>2 DEF Take
    <3>3. CASE DoDnload
      BY <1>0, <1>3, <3>3, ResetFields, ResetType DEF DoDnload, Handle, DfuData
    <3>4. CASE DoUpload
      BY <1>0, <3>4 DEF DoUpload, UploadData, DfuData
    <3>5. CASE DoClrStatus \/ DoAbort \/ DoSetAlternate
      BY <1>0, <1>3, <3>5, ResetFields DEF DoClrStatus, DoAbort, DoSetAlternate, Handle
    <3>6. CASE GetStatusElsewhere
      BY <1>0, <1>3, <3>6 DEF GetStatusElsewhere, DoGetStatus
    <3>7. CASE SyncDone
      BY <1>0, <3>7 DEF SyncDone, DoGetStatus, DfuData
    <3>8. ~ UploadStalls
      BY <1>3 DEF UploadStalls
    <3> QED
      BY <3>1, <3>2, <3>3, <3>4, <3>5, <3>6, <3>7, <3>8
  <2> QED
    BY <1>1, <2>1, <2>2, IdleWrites
<1> QED
  BY <1>2, <1>3

(* As long as the counters have not crossed, the unsigned room check finds *)
(* a free sector only where there is one.                                  *)
LEMMA RoomIsRoom ==
    ASSUME NEW avail \in Nat, NEW used \in Nat, used <= avail,
           avail - used < 0 \/ avail - used >= 1
    PROVE  used < avail
OBVIOUS

LEMMA WorkWrites ==
    ASSUME TypeOK, WriteInv,
           DnloadBusy \/ ManifestBusy \/ BufferFragment \/ WriteRefused \/ WriteBegin
                \/ FlashErase \/ FlashProgram \/ SectorDone \/ Manifest \/ Finish
    PROVE  WriteInv'
<1> USE LayoutAssumption
<1> USE DEF commonVars, WriteInv
<1>0. /\ dfu_data \in DfuData /\ blocks \in Nat
      /\ bytes_avail \in Nat /\ dn_base_addr \in Nat /\ total_len \in Nat
      /\ ERR_WRITE # STATUS_OK /\ ERR_ADDRESS # STATUS_OK /\ ERR_STALLEDPKT # STATUS_OK
  BY DEF TypeOK, CommonTypeOK, DfuData, blocks, ERR_WRITE, ERR_ADDRESS,
         ERR_STALLEDPKT, STATUS_OK
<1>1. CASE DnloadBusy \/ ManifestBusy
  <2>1. /\ UNCHANGED <<bytes_avail, dn_base_addr, total_len, retval, wr_addr>>
        /\ mpc \in {"dispatch", "getstatus"} /\ blocks' = blocks
        /\ \/ mpc' = "busy" /\ state' = "DNBUSY"
           \/ mpc' = "manifest" /\ state' = "MANIFEST" /\ state = "MANIFEST_SYNC"
    BY <1>0, <1>1 DEF DnloadBusy, ManifestBusy, DoGetStatus, AtGetStatus, Begin,
           DfuData, state, blocks
  <2> QED
    BY <1>0, <2>1 DEF PlacesInv, CountersInv, Opened
<1>2. CASE BufferFragment
  <2>1. /\ UNCHANGED <<bytes_avail, dn_base_addr, total_len, wr_addr>>
        /\ mpc = "busy" /\ mpc' = "finish" /\ retval' = STATUS_OK
        /\ blocks' = blocks /\ state' = state
    BY <1>0, <1>2 DEF BufferFragment, DfuData, state, blocks
  <2> QED
    BY <1>0, <2>1 DEF PlacesInv, CountersInv, Opened, Busy
<1>3. ASSUME NEW alt \in Alt, Writable(alt), OpenPartition(alt), mpc = "busy"
      PROVE  /\ dn_base_addr' # 0 /\ blocks <= total_len'
             /\ total_len' <= bytes_avail' /\ total_len' \in Nat /\ bytes_avail' \in Nat
             /\ \E a \in {1, 2} : /\ dn_base_addr' = PartitionBase(a)
                                 /\ bytes_avail' = PartitionEnd(a) - PartitionBase(a)
  <2>1. retval = STATUS_OK
    BY <1>3 DEF PlacesInv
  <2>2. CASE dn_base_addr # 0
    BY <1>0, <1>3, <2>1, <2>2 DEF OpenPartition, CountersInv, Opened
  <2>3. CASE dn_base_addr = 0
    BY <1>0, <1>3, <2>1, <2>3
    DEF OpenPartition, CountersInv, Writable, PartitionBase, PartitionEnd
  <2> QED
    BY <2>2, <2>3
<1>4. dfu_data.alt_setting \in Alt
  BY <1>0 DEF DfuData
<1>5. CASE WriteRefused
  <2>1. /\ mpc = "busy" /\ mpc' = "written" /\ blocks' = blocks /\ state' = state
        /\ retval' # STATUS_OK
    BY <1>0, <1>5 DEF WriteRefused, blocks, state
  <2>2. dn_base_addr' # 0 => /\ total_len' <= bytes_avail'
                             /\ \E a \in {1, 2} : Opened(a)'
    BY <1>0, <1>3, <1>4, <1>5, <2>1 DEF WriteRefused, CountersInv, Opened
  <2> QED
    BY <2>1, <2>2 DEF PlacesInv, CountersInv
<1>6. CASE WriteBegin
  <2>1. /\ mpc = "busy" /\ mpc' = "erase" /\ blocks' = blocks /\ state' = state
        /\ retval' = retval /\ wr_addr' = dn_base_addr' + blocks
    BY <1>6 DEF WriteBegin, blocks, state
  <2>2. HasRoom
    BY <1>6 DEF WriteBegin
  <2>3. /\ dn_base_addr' # 0 /\ blocks <= total_len' /\ total_len' <= bytes_avail'
        /\ total_len' \in Nat /\ bytes_avail' \in Nat /\ \E a \in {1, 2} : Opened(a)'
    BY <1>3, <1>4, <1>6, <2>1 DEF WriteBegin, Opened
  <2>4. total_len' < bytes_avail'
    <3>1. bytes_avail' - total_len' < 0 \/ bytes_avail' - total_len' >= 1
      BY <2>2, Zenon DEF HasRoom
    <3>2. total_len' <= bytes_avail' /\ total_len' \in Nat /\ bytes_avail' \in Nat
      BY <2>3, Zenon
    <3> QED
      BY <3>1, <3>2, RoomIsRoom, Zenon
  <2> QED
    BY <2>1, <2>3, <2>4 DEF PlacesInv, CountersInv
<1>7. CASE FlashErase
  <2>1. /\ UNCHANGED <<bytes_avail, dn_base_addr, total_len, wr_addr, retval>>
        /\ mpc = "erase" /\ mpc' = "program" /\ blocks' = blocks /\ state' = state
    BY <1>7 DEF FlashErase, blocks, state
  <2> QED
    BY <2>1 DEF PlacesInv, CountersInv, Opened
<1>8. CASE FlashProgram
  <2>1. /\ UNCHANGED <<bytes_avail, dn_base_addr>> /\ total_len' = total_len + 1
        /\ mpc = "program" /\ mpc' = "written" /\ retval' = STATUS_OK
        /\ blocks' = blocks /\ state' = state
    BY <1>8 DEF FlashProgram, ProgramSector, blocks, state
  <2>2. retval = STATUS_OK /\ blocks <= total_len /\ total_len < bytes_avail
        /\ dn_base_addr # 0 /\ \E alt \in {1, 2} : Opened(alt)
    BY <2>1 DEF PlacesInv, CountersInv
  <2> QED
    BY <1>0, <2>1, <2>2 DEF PlacesInv, CountersInv, Opened
<1>9. CASE SectorDone
  <2>1. /\ UNCHANGED <<bytes_avail, dn_base_addr, total_len, retval>>
        /\ mpc = "written" /\ mpc' = "finish" /\ blocks' = blocks + 1 /\ state' = state
    BY <1>0, <1>9 DEF SectorDone, DfuData, blocks, state
  <2> QED
    BY <1>0, <2>1 DEF PlacesInv, CountersInv, Opened, Busy
<1>10. CASE Manifest
  <2>1. /\ UNCHANGED <<bytes_avail, total_len>> /\ dn_base_addr' = 0
        /\ mpc = "manifest" /\ mpc' = "finish" /\ retval' = STATUS_OK
        /\ blocks' = blocks /\ state' = state
    BY <1>0, <1>10 DEF Manifest, MakeManifest, DfuData, blocks, state
  <2> QED
    BY <1>0, <2>1 DEF PlacesInv, CountersInv, Opened, Busy
<1>11. CASE Finish
  <2>1. UNCHANGED <<bytes_avail, dn_base_addr, total_len>> /\ mpc = "finish"
    BY <1>11 DEF Finish
  <2>2. CASE Failure # STATUS_OK
    BY <1>11, <2>1, <2>2, FailWrites DEF Finish
  <2>3. CASE Failure = STATUS_OK
    <3>1. retval = STATUS_OK
      BY <1>0, <2>3 DEF Failure
    <3>2. /\ mpc' = "wait" /\ retval' = STATUS_OK /\ blocks' = blocks
          /\ state' = IF state = "DNBUSY" THEN "DNLOAD_SYNC" ELSE "MANIFEST_SYNC"
      BY <1>0, <1>11, <2>3, <3>1 DEF Finish, Loop, DfuData, blocks, state
    <3> QED
      BY <1>0, <2>1, <3>1, <3>2 DEF PlacesInv, CountersInv, Opened, Busy
  <2> QED
    BY <2>2, <2>3
<1> QED
  BY <1>1, <1>2, <1>5, <1>6, <1>7, <1>8, <1>9, <1>10, <1>11

LEMMA WriteStep == TypeOK /\ WriteInv /\ [Next]_vars => WriteInv'
<1> SUFFICES ASSUME TypeOK, WriteInv, [Next]_vars PROVE WriteInv'
  OBVIOUS
<1> USE DEF WriteInv
<1>1. CASE HostNext \/ ServicerNext
  <2>1. /\ UNCHANGED <<mpc, retval, wr_addr, bytes_avail, dn_base_addr, total_len>>
        /\ state' = state /\ blocks' = blocks
    BY <1>1, CommandsKeepWrites DEF state, blocks
  <2> QED
    BY <2>1 DEF PlacesInv, CountersInv, Opened
<1>2. CASE MachineNext
  BY <1>2, DispatchWrites, ErrorWrites, WorkWrites DEF MachineNext
<1>3. CASE Reset
  <2>1. /\ mpc' = "wait" /\ retval' = STATUS_OK /\ dn_base_addr' = 0
        /\ state' = "IDLE" /\ blocks' = 0
    BY <1>3 DEF Reset, BootData, state, blocks
  <2> QED
    BY <2>1 DEF PlacesInv, CountersInv
<1>4. CASE UNCHANGED vars
  BY <1>4 DEF vars, PlacesInv, CountersInv, Opened, state, blocks
<1> QED
  BY <1>1, <1>2, <1>3, <1>4 DEF Next

LEMMA WriteInit == Init => WriteInv
BY DEF Init, CommonInit, BootData, WriteInv, PlacesInv, CountersInv, state, blocks

LEMMA WriteInvSafe == TypeOK /\ WriteInv => WritesInsidePartition
<1> SUFFICES ASSUME TypeOK, WriteInv, mpc \in {"erase", "program"}
             PROVE  /\ wr_addr \in dn_base_addr .. dn_base_addr + bytes_avail - 1
                    /\ \E alt \in {1, 2} :
                          wr_addr \in PartitionBase(alt) .. PartitionEnd(alt) - 1
  BY Zenon DEF WritesInsidePartition
<1>1. /\ blocks \in Nat /\ dn_base_addr \in Nat /\ total_len \in Nat
      /\ bytes_avail \in Nat
  BY DEF TypeOK, CommonTypeOK, DfuData, blocks
<1>2. /\ dn_base_addr # 0 /\ wr_addr = dn_base_addr + blocks
      /\ blocks <= total_len /\ total_len < bytes_avail
      /\ \E alt \in {1, 2} : Opened(alt)
  BY DEF WriteInv, PlacesInv, CountersInv
<1> QED
  BY <1>1, <1>2, LayoutAssumption DEF Opened, PartitionBase, PartitionEnd

(* For every layout, host and history of aborts, errors and restarts, each *)
(* sector erased or programmed is in the partition that was opened.        *)
THEOREM WritesSafe == Spec => []WritesInsidePartition
BY WriteInit, WriteStep, WriteInvSafe, TypeCorrect, PTL DEF Spec

(* The factory image is never changed.                                     *)
THEOREM FactorySafe == Spec => FactoryReadOnly
<1> DEFINE Kept == \A a \in 0 .. UpgradeAddr - 1 : flash'[a] = flash[a]
<1>1. TypeOK /\ WritesInsidePartition /\ [Next]_vars => [Kept]_flash
  <2> SUFFICES ASSUME TypeOK, WritesInsidePartition, [Next]_vars, flash' # flash
               PROVE  Kept
    OBVIOUS
  <2>1. FlashErase \/ FlashProgram
    <3>1. ~ (HostNext \/ ServicerNext)
      BY CommandsKeepWrites
    <3>2. ~ (Reset \/ UNCHANGED vars)
      BY DEF Reset, vars
    <3>3. MachineNext
      BY <3>1, <3>2 DEF Next
    <3> QED
      BY <3>3 DEF MachineNext, commonVars, Wake, Take, EnterError, DoDnload, DoUpload,
         UploadStalls, DoClrStatus, DoAbort, DoSetAlternate, Handle, GetStatusElsewhere, SyncDone, DnloadBusy,
         ManifestBusy, DoGetStatus, BufferFragment, WriteRefused, WriteBegin,
         SectorDone, Manifest, Finish
  <2>2. mpc \in {"erase", "program"} /\ wr_addr \in Nat
        /\ \E s : flash' = [flash EXCEPT ![wr_addr] = s]
    BY <2>1 DEF FlashErase, FlashProgram, EraseSector, ProgramSector, TypeOK
  <2>3. wr_addr >= UpgradeAddr
    BY <2>2, LayoutAssumption DEF WritesInsidePartition, PartitionBase, PartitionEnd
  <2>4. \A a \in 0 .. UpgradeAddr - 1 : a # wr_addr /\ a \in Addr
    BY <2>3, LayoutAssumption DEF Addr
  <2> QED
    BY <2>2, <2>4 DEF TypeOK, CommonTypeOK
<1> QED
  BY <1>1, TypeCorrect, WritesSafe, PTL DEF Spec, FactoryReadOnly
-----------------------------------------------------------------------------
(* The busy states.                                                        *)

LEMMA NeverBusyStep ==
    TypeOK /\ NeverDispatchedBusy /\ [Next]_vars => NeverDispatchedBusy'
<1> SUFFICES ASSUME TypeOK, NeverDispatchedBusy, [Next]_vars
             PROVE  NeverDispatchedBusy'
  OBVIOUS
<1> USE DEF NeverDispatchedBusy, Busy, Settled, state
<1>0. dfu_data \in DfuData
  BY DEF TypeOK
<1>1. CASE HostNext \/ ServicerNext
  BY <1>1, CommandsKeepWrites
<1>2. CASE Wake
  BY <1>2 DEF Wake
<1>stall. CASE Stall
  BY <1>stall DEF Stall, Fail
<1>3. CASE Take /\ ~ Stall
  BY <1>0, <1>3 DEF Take
<1>4. CASE DoDnload /\ ~ Stall
  <2>1. dfu_data'.current_state \in {"DNLOAD_SYNC", "MANIFEST_SYNC"}
    BY <1>0, <1>4, ResetType DEF DoDnload, Handle, DfuData
  <2> QED
    BY <2>1
<1>5. CASE (DoClrStatus \/ DoAbort \/ DoSetAlternate) /\ ~ Stall
  BY <1>0, <1>5, ResetFields DEF DoClrStatus, DoAbort, DoSetAlternate, Handle
<1>6. CASE DoUpload
  <2>1. dfu_data'.current_state \in {"UPLOAD_IDLE", "IDLE"}
    BY <1>0, <1>6 DEF DoUpload, UploadData, DfuData
  <2> QED
    BY <2>1
<1>7. CASE GetStatusElsewhere /\ ~ Stall
  BY <1>0, <1>7 DEF GetStatusElsewhere, DoGetStatus
<1>8. CASE SyncDone
  BY <1>0, <1>8 DEF SyncDone, DoGetStatus, DfuData
<1>9. CASE DnloadBusy \/ ManifestBusy \/ BufferFragment \/ WriteRefused \/ WriteBegin
           \/ FlashErase \/ FlashProgram \/ SectorDone \/ Manifest
  <2>1. mpc' \in {"busy", "manifest", "erase", "program", "written", "finish"}
    BY <1>9 DEF DnloadBusy, ManifestBusy, Begin, BufferFragment, WriteRefused,
           WriteBegin, FlashErase, FlashProgram, SectorDone, Manifest
  <2> QED
    BY <2>1
<1>10. CASE Finish \/ EnterError
  <2>1. mpc' = "error" \/ dfu_data'.current_state \in {"DNLOAD_SYNC", "MANIFEST_SYNC", "ERROR"}
    BY <1>0, <1>10 DEF Finish, Fail, EnterError, DfuData
  <2> QED
    BY <2>1
<1>11. CASE Reset
  BY <1>11 DEF Reset, BootData
<1>12. CASE UNCHANGED vars
  BY <1>12 DEF vars
<1> QED
  BY <1>stall, <1>1, <1>2, <1>3, <1>4, <1>5, <1>6, <1>7, <1>8, <1>9, <1>10, <1>11, <1>12
  DEF Next, MachineNext, UploadStalls

(* No request finds the machine busy, even when it was sent while a sector *)
(* was being written or the machine was told to move to the error state.   *)
THEOREM NeverBusySafe == Spec => []NeverDispatchedBusy
<1>1. Init => NeverDispatchedBusy
  BY DEF Init, BootData, NeverDispatchedBusy, Busy, state
<1> QED
  BY <1>1, NeverBusyStep, TypeCorrect, PTL DEF Spec
-----------------------------------------------------------------------------
(* The data of an upload.                                                  *)

(* What the machine leaves for the servicer to copy: the fragment asked    *)
(* for, or a state in which there is none.                                 *)
LEMMA DispatchUpload ==
    ASSUME TypeOK, MailboxInv, DoUpload
    PROVE  dfu_data'.current_state \in Settled
           /\ (dfu_data'.current_state = "UPLOAD_IDLE" => Served')
<1> DEFINE alt == dfu_data.alt_setting
           block == dfu_data.transfer_block
           cell == FragmentAt(alt, block)
<1>0. dfu_data \in DfuData /\ block \in Nat /\ dfu_data' = UploadData
      /\ UNCHANGED flash /\ ClearBuffer \in Sector /\ 0 \in Frag
  BY LayoutAssumption DEF TypeOK, DfuData, DoUpload, commonVars, ClearBuffer, Sector, Cell, Frag
<1>1. CASE Readable(alt, block)
  <2>1. dfu_data' = [dfu_data EXCEPT
             !.data_xfer_length = 1,
             !.dfu_data_buffer = [ClearBuffer EXCEPT ![0] = cell],
             !.transfer_block = block + 1,
             !.current_state = "UPLOAD_IDLE"]
    BY <1>0, <1>1 DEF UploadData
  <2>2. /\ dfu_data'.current_state = "UPLOAD_IDLE" /\ dfu_data'.data_xfer_length = 1
        /\ dfu_data'.dfu_data_buffer = [ClearBuffer EXCEPT ![0] = cell]
        /\ dfu_data'.transfer_block = block + 1 /\ dfu_data'.alt_setting = alt
    BY <1>0, <2>1 DEF DfuData
  <2>3. dfu_data'.dfu_data_buffer[0] = cell
    BY <1>0, <2>2 DEF Sector
  <2>4. dfu_data'.transfer_block - 1 = block /\ dfu_data'.transfer_block > 0
    BY <1>0, <2>2
  <2>5. FragmentAt(dfu_data.alt_setting, dfu_data.transfer_block - 1)' = cell
    BY <1>0, <2>2, <2>4, Zenon DEF FragmentAt
  <2> QED BY <2>2, <2>3, <2>4, <2>5 DEF Served, Settled
<1>2. CASE ~ Readable(alt, block)
  BY <1>0, <1>2 DEF UploadData, DfuData, Settled
<1> QED BY <1>1, <1>2

LEMMA UploadStep ==
    TypeOK /\ MailboxInv /\ SemaphoreInv /\ UploadInv /\ [Next]_vars => UploadInv'
<1> SUFFICES ASSUME TypeOK, MailboxInv, SemaphoreInv, UploadInv, [Next]_vars
             PROVE  UploadInv'
  OBVIOUS
<1> USE DEF mailbox, machine, servicer
<1>0. ASSUME UNCHANGED <<dfu_data, flash>> PROVE Served' = Served /\ state' = state
  BY <1>0, Zenon DEF Served, FragmentAt, state
<1>1. ASSUME UNCHANGED machine, mpc # "getstatus" \/ state' = state,
             spc \in {"idle", "status", "give", "notify"},
             spc' \in {"idle", "status", "give", "notify", "sem"},
             UNCHANGED upload_semaphore
      PROVE  UploadInv'
  BY <1>1 DEF UploadInv, SemaphoreInv, UploadWoken
<1>2. CASE HostNext \/ StatusSettled \/ StatusDnloadSync \/ StatusManifestSync
             \/ StatusTooEarly \/ StatusStillBusy
  BY <1>1, <1>2, CommandsKeepMailbox, CommandsKeepWrites DEF ServicerNext, state
<1>3. CASE Give
  BY <1>1, <1>3 DEF Give, state
<1>4. CASE Notify
  BY <1>1, <1>4 DEF Notify, state
<1>5. CASE UploadTake
  <2>1. UNCHANGED <<dfu_data, flash, mpc, posted, notification_value>>
        /\ upload_semaphore
    BY <1>5 DEF UploadTake, commonVars
  <2> QED BY <1>0, <2>1 DEF UploadInv
<1>6. CASE UploadCopy
  <2>1. UNCHANGED <<dfu_data, flash, mpc, posted, notification_value, upload_semaphore>>
        /\ spc = "copy" /\ spc' = "idle"
    BY <1>6 DEF UploadCopy, commonVars
  <2> QED BY <1>0, <2>1 DEF UploadInv
<1>7. CASE Wake
  <2>1. ~ (upload_semaphore \/ spc = "copy")
    BY <1>7 DEF Wake, UploadInv, MailboxInv
  <2> QED BY <1>7, <2>1 DEF Wake, UploadInv
<1>8. CASE Take
  <2>1. ~ (upload_semaphore \/ spc = "copy")
    BY <1>8 DEF Take, UploadInv
  <2>2. counter = 1 => posted = 0
    BY <1>8 DEF Take, MailboxInv, Given, TypeOK
  <2> QED BY <1>8, <2>1, <2>2 DEF Take, Stall, Fail, Forget, UploadInv
<1>9. CASE DoUpload
  <2>1. /\ posted' = posted /\ posted = 0 /\ mpc' = "getstatus"
    BY <1>9 DEF DoUpload, UploadInv
  <2>2. state' \in Settled /\ (state' = "UPLOAD_IDLE" => Served')
    BY <1>9, DispatchUpload DEF state
  <2> QED BY <2>1, <2>2 DEF UploadInv
<1>10. CASE GetStatusElsewhere /\ mpc = "getstatus"
  <2>1. /\ UNCHANGED <<dfu_data, flash, posted, upload_semaphore, spc>> /\ mpc' = "wait"
    BY <1>10 DEF GetStatusElsewhere, DoGetStatus, Loop, UploadInv, commonVars
  <2> QED BY <1>0, <2>1 DEF UploadInv
<1>11. CASE MachineNext /\ ~ Wake /\ ~ Take /\ ~ DoUpload /\ ~ EnterError /\ mpc # "getstatus"
  <2>1. /\ mpc \notin {"wait", "getstatus", "error"} /\ mpc' \notin {"dispatch", "getstatus"}
        /\ mpc' = "error" /\ "UPLOAD" \in notification_value' =>
              mpc = "dispatch" /\ UNCHANGED notification_value
        /\ UNCHANGED <<spc, upload_semaphore, posted>>
    <3>1. /\ mpc' # "dispatch" /\ mpc # "wait" /\ UNCHANGED <<spc, upload_semaphore, posted>>
          /\ mpc' = "error" /\ "UPLOAD" \in notification_value' =>
                mpc = "dispatch" /\ UNCHANGED notification_value
      BY <1>11, HandlingKeepsMailbox, HandlingKeepsSemaphore DEF Forget
    <3>2. mpc' # "getstatus" /\ mpc # "error"
      BY <1>11 DEF MachineNext, DoDnload, DoClrStatus, DoAbort, DoSetAlternate, Handle,
             UploadStalls, GetStatusElsewhere, SyncDone, DnloadBusy, ManifestBusy,
             DoGetStatus, AtGetStatus, Loop, Begin, Stall, Fail, BufferFragment,
             WriteRefused, WriteBegin, FlashErase, FlashProgram, SectorDone, Manifest, Finish
    <3> QED BY <1>11, <3>1, <3>2
  <2> QED BY <2>1 DEF UploadInv
<1>12. CASE MachineNext /\ mpc = "getstatus" /\ ~ GetStatusElsewhere
  <2>1. state \in Settled
    BY <1>12 DEF UploadInv
  <2> QED
    BY <1>12, <2>1 DEF MachineNext, Settled, Wake, Take, EnterError, DoDnload, DoUpload,
       UploadStalls, DoClrStatus, DoAbort, DoSetAlternate, Handle, SyncDone, DnloadBusy,
       ManifestBusy, BufferFragment, WriteRefused, WriteBegin, FlashErase, FlashProgram,
       SectorDone, Manifest, Finish
<1>error. CASE EnterError
  <2>1. /\ ~ (upload_semaphore \/ spc = "copy")
        /\ UNCHANGED <<posted, spc>> /\ mpc' \in {"wait", "getstatus"}
        /\ state' = "ERROR"
        /\ mpc' = "getstatus" => posted = 0
        /\ upload_semaphore' => mpc' = "getstatus"
    <3>1. ~ (upload_semaphore \/ spc = "copy") /\ UNCHANGED <<posted, spc>>
      BY <1>error DEF UploadInv, EnterError
    <3>2. state' = "ERROR"
      BY <1>error DEF TypeOK, DfuData, EnterError, state
    <3> QED BY <1>error, <3>1, <3>2 DEF UploadInv, EnterError, Loop
  <2> QED BY <2>1 DEF UploadInv, Settled
<1>13. CASE Reset
  BY <1>13 DEF UploadInv, Reset
<1>14. CASE UNCHANGED vars
  <2>1. UNCHANGED <<dfu_data, flash, mpc, posted, notification_value, upload_semaphore, spc>>
    BY <1>14 DEF vars
  <2> QED BY <1>0, <2>1, Zenon DEF UploadInv
<1> QED
  BY <1>2, <1>3, <1>4, <1>5, <1>6, <1>7, <1>8, <1>9, <1>10, <1>11, <1>12, <1>13, <1>14,
     <1>error
  DEF Next, ServicerNext

(* What dfu_int_upload copies is the fragment read for it, whatever the    *)
(* host sent before and however it was merged.                             *)
THEOREM UploadSafe == Spec => []UploadIntact
<1>1. Init => MailboxInv /\ SemaphoreInv /\ UploadInv
  BY DEF Init, MailboxInv, Given, SemaphoreInv, UploadWoken, UploadInv
<1>2. UploadInv => UploadIntact
  BY DEF UploadInv, UploadIntact, Served
<1> QED
  BY <1>1, <1>2, TypeCorrect, MailboxStep, SemaphoreStep, UploadStep, PTL DEF Spec
=============================================================================
