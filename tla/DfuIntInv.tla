------------------------------ MODULE DfuIntInv ------------------------------
(***************************************************************************)
(* The inductive strengthenings behind the safety properties of DfuInt,    *)
(* for a host of any timing.                                               *)
(***************************************************************************)
EXTENDS DfuIntProps

(* Requests counted and not yet taken: the notified ones, the ones the     *)
(* machine woke with, and the one between give and notify.  Merging only   *)
(* ever leaves the counter too high.                                       *)
Given == (IF mpc = "take" THEN woken ELSE 0) + (IF spc = "notify" THEN 1 ELSE 0)

MailboxInv ==
    /\ counter >= posted + Given
    /\ posted = 0 => notified = {}
    /\ posted = 1 => \E r \in Request : notified = {r}
    /\ notified # {} => posted >= 1
    /\ mpc = "take" => woken >= 1
    /\ mpc \notin {"wait", "take", "error"} => woken = 1
    /\ mpc = "error" => notification_value = {} \/ (notification_value = {"UPLOAD"} /\ woken = 1)
    /\ mpc # "wait" /\ woken = 1 => \E r \in Request : notification_value = {r}

(* An upload not yet served is in one place, its caller waiting and the    *)
(* semaphore free.                                                         *)
UploadWoken == mpc \in {"take", "dispatch", "error"} /\ "UPLOAD" \in notification_value

SemaphoreInv ==
    /\ upload_semaphore => spc = "sem"
    /\ "UPLOAD" \in notified => spc = "sem" /\ ~upload_semaphore /\ ~UploadWoken
    /\ UploadWoken => spc = "sem" /\ ~upload_semaphore

(* An upload is served with no request behind it, so that until its data   *)
(* is copied the machine only ends the GETSTATUS it falls through to.      *)
Served ==
    /\ dfu_data.transfer_block > 0
    /\ dfu_data.data_xfer_length = 1
    /\ dfu_data.dfu_data_buffer[0] =
          FragmentAt(dfu_data.alt_setting, dfu_data.transfer_block - 1)

UploadInv ==
    /\ mpc \in {"dispatch", "error"} /\ "UPLOAD" \in notification_value => posted = 0
    /\ mpc = "getstatus" => state \in Settled
    /\ upload_semaphore \/ spc = "copy" =>
          /\ posted = 0
          /\ mpc \in {"wait", "getstatus"}
          /\ state = "UPLOAD_IDLE" => Served

(* The two write counters.  While a refused write is on its way to the     *)
(* error that resets it, download_block_number may be ahead of total_len.  *)
blocks == dfu_data.download_block_number

Opened(alt) ==
    /\ dn_base_addr = PartitionBase(alt)
    /\ bytes_avail = PartitionEnd(alt) - PartitionBase(alt)

PlacesInv ==
    /\ mpc \in {"busy", "erase", "program", "written"} => state = "DNBUSY"
    /\ mpc = "manifest" => state = "MANIFEST"
    /\ mpc = "finish" => state \in Busy
    /\ mpc \notin {"written", "finish", "error"} => retval = STATUS_OK
    /\ mpc = "error" => state = "IDLE" /\ blocks = 0
    /\ state \in {"MANIFEST_SYNC", "MANIFEST"} => blocks = 0

CountersInv ==
    /\ dn_base_addr # 0 => total_len <= bytes_avail /\ \E alt \in {1, 2} : Opened(alt)
    /\ retval = STATUS_OK =>
          /\ dn_base_addr = 0 => blocks = 0
          /\ dn_base_addr # 0 => blocks <= total_len
          /\ mpc = "written" => dn_base_addr # 0 /\ blocks < total_len
    /\ mpc \in {"erase", "program"} =>
          /\ dn_base_addr # 0
          /\ wr_addr = dn_base_addr + blocks
          /\ total_len < bytes_avail

WriteInv == PlacesInv /\ CountersInv
=============================================================================
