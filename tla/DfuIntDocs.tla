----------------------------- MODULE DfuIntDocs -----------------------------
(***************************************************************************)
(* Statements that comments of the firmware-update sources make and that   *)
(* the code does not keep.  Each one is the property of a run in which TLC *)
(* finds the behaviour that breaks it.                                     *)
(***************************************************************************)
EXTENDS DfuIntRefinement

(* "If in dfuERROR, sets status to OK and pushes to dfuIDLE" (CLRSTATUS):  *)
(* a lone CLRSTATUS, with no other request made since, is acted on.  Once  *)
(* two requests have been merged the counter stays one too high, and every *)
(* later request, this one included, is taken for a merged one.            *)
LoneClrStatus ==
    /\ mpc = "take" /\ notification_value = {"CLRSTATUS"} /\ woken = 1
    /\ notified = {} /\ spc = "idle"
    /\ state = "ERROR"

ClearStatusRecovers == [][LoneClrStatus /\ Take => mpc' = "dispatch"]_vars

(* "The correct memory partition is selected based on the value of alt"    *)
(* (dfu_common_write_to_flash): with a paced host the sector written is in *)
(* the partition selected.                                                 *)
WritesGoToSelectedPartition ==
    mpc \in {"erase", "program"} =>
        wr_addr \in PartitionBase(dfu_data.alt_setting)
                        .. PartitionEnd(dfu_data.alt_setting) - 1
=============================================================================
