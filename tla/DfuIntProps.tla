----------------------------- MODULE DfuIntProps -----------------------------
(***************************************************************************)
(* What the device-control firmware update promises: the properties of     *)
(* DfuInt, in the order of the hazards they are about.                     *)
(***************************************************************************)
EXTENDS DfuInt

(* Every variable has its type, and the servicer names a request exactly   *)
(* while it hands one over.                                                *)
TypeOK ==
    /\ CommonTypeOK
    /\ dfu_data \in DfuData
    /\ notified \subseteq Request /\ counter \in Nat /\ posted \in Nat
    /\ upload_semaphore \in BOOLEAN
    /\ spc \in {"idle", "status", "give", "notify", "sem", "copy"}
    /\ request \in Request \cup {"none"} /\ observed \in DfuState /\ reply \in Reply
    /\ request # "none" <=> spc \in {"give", "notify"}
    /\ mpc \in {"wait", "take", "dispatch", "getstatus", "busy", "erase",
                "program", "written", "manifest", "finish", "error"}
    /\ notification_value \subseteq Request /\ woken \in Nat
    /\ retval \in Status /\ wr_addr \in Nat /\ tmp_buf \in Sector
    /\ watchdog \in BOOLEAN /\ sent \in Seq(Payload)

(* Whatever the host's timing, a request is acted on only when it is the   *)
(* only one the machine woke with: the counter catches every request that  *)
(* was merged with another, of its own kind or not (the claim of the       *)
(* comment in dfu_int_state_machine that the bits never need checking).    *)
OneRequestPerDispatch ==
    mpc \notin {"wait", "take", "error"} =>
        woken = 1 /\ \E r \in Request : notification_value = {r}

(* The upload semaphore is given only while the servicer waits for it, so  *)
(* dfu_int_upload never returns on a semaphore left over from an earlier   *)
(* request, with the data of that request in the buffer.                   *)
SemaphoreHasWaiter == upload_semaphore => spc = "sem"

(* When dfu_int_upload copies the shared buffer it holds the fragment read *)
(* for this very upload: the machine has nothing left to do that writes it,*)
(* whatever requests preceded the upload.                                  *)
UploadIntact ==
    spc = "copy" /\ state = "UPLOAD_IDLE" =>
        /\ dfu_data.transfer_block > 0
        /\ dfu_data.data_xfer_length = 1
        /\ dfu_data.dfu_data_buffer[0] =
              FragmentAt(dfu_data.alt_setting, dfu_data.transfer_block - 1)

(* With a paced host, the servicer that waits for its semaphore has been   *)
(* given it or its request is still on the way, unmerged: a wake-up that is*)
(* refused never takes the request with it (the recovery branch of         *)
(* dfu_int_state_machine gives nothing back).                              *)
WaiterRemembered ==
    spc = "sem" =>
        \/ upload_semaphore
        \/ notified = {"UPLOAD"}
        \/ /\ mpc \in {"take", "dispatch", "error"}
           /\ notification_value = {"UPLOAD"} /\ woken = 1

(* A sector is erased and programmed only inside the partition the         *)
(* download opened, although the address comes from download_block_number  *)
(* and the space check from total_len, two counters reset at different     *)
(* times: aborts, errors and alternate settings never let them drift to    *)
(* the next partition or past the end of the flash.                        *)
WritesInsidePartition ==
    mpc \in {"erase", "program"} =>
        /\ wr_addr \in dn_base_addr .. dn_base_addr + bytes_avail - 1
        /\ \E alt \in {1, 2} :
              wr_addr \in PartitionBase(alt) .. PartitionEnd(alt) - 1

(* The factory image is read-only (dfu_state_machine.h): no step changes a *)
(* sector below the upgrade partition, a watchdog reset in the middle of a *)
(* write included.                                                         *)
FactoryReadOnly ==
    [][\A a \in 0 .. UpgradeAddr - 1 : flash'[a] = flash[a]]_flash

(* Where fragment k (from 0) of the download under way is kept.            *)
StoredFragment(k) ==
    LET block == k \div NUM_FRAGMENTS
    IN  IF block < dfu_data.download_block_number
        THEN flash[dn_base_addr + block][k % NUM_FRAGMENTS]
        ELSE dfu_data.dfu_data_buffer[k % NUM_FRAGMENTS]

(* With a paced host, each fragment of the download is where its place in  *)
(* the sequence says, in the flash or in the sector being assembled, and   *)
(* none has been lost, repeated or reordered.                              *)
ImageAssembled ==
    Quiet /\ spc = "idle" /\ state \in {"DNLOAD_SYNC", "DNLOAD_IDLE"} =>
        /\ Len(sent) = dfu_data.download_block_number * NUM_FRAGMENTS
                       + dfu_data.frag_number
                       + (IF dfu_data.in_progress THEN 1 ELSE 0)
        /\ \A k \in 0 .. Len(sent) - 1 : StoredFragment(k) = sent[k + 1]

(* dfu_int_get_status predicts the next state from its own copy of the     *)
(* transition rules; once the machine is quiet again it is in that state,  *)
(* or has left the busy one that was predicted.  A poll that repeats the   *)
(* timeout of a busy machine and reads the state again within              *)
(* dfu_int_error answers the IDLE that lasts until the error is stored.    *)
Predicted(answer) ==
    CASE answer.next = "DNBUSY"   -> {"DNLOAD_SYNC", "ERROR"}
      [] answer.next = "MANIFEST" -> {"MANIFEST_SYNC"}
      [] answer.next = "IDLE" /\ answer.timeout > 0 -> {"ERROR"}
      [] OTHER                    -> {answer.next}

PredictionHolds ==
    Quiet /\ spc = "idle" /\ reply # NoReply => state \in Predicted(reply)

(* The machine never dispatches a request while in a busy state: the       *)
(* comment on the default branch of GETSTATUS believes it, and every       *)
(* request that arrives during a flash operation relies on it.             *)
NeverDispatchedBusy == mpc \in {"wait", "take", "dispatch", "getstatus"} => state \notin Busy

(* What a host that polls too early was told is not lost: when the answer  *)
(* was dfuERROR the machine is in error, or about to be, or still has the  *)
(* deferred move to make, however the poll and the end of the flash        *)
(* operation fell together.  Late it may be: a flag set after the machine  *)
(* has tested it is left for the next flash operation to obey.             *)
DeferredErrorKept ==
    spc = "idle" /\ reply.next = "ERROR" =>
        state = "ERROR" \/ mpc = "error" \/ dfu_data.move_to_error

(* A flash operation or manifestation, once begun, ends: the machine       *)
(* leaves the busy states by itself, however often and however early the   *)
(* host polls meanwhile.                                                   *)
BusyEnds == state \in Busy ~> state \notin Busy

(* The servicer task gets back from an upload, so that it can serve the    *)
(* next command: "we must give it back regardless of what happened".       *)
UploadReturns == spc = "sem" ~> spc = "idle"
=============================================================================
