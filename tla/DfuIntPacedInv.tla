--------------------------- MODULE DfuIntPacedInv ---------------------------
(***************************************************************************)
(* The inductive strengthenings behind what DfuInt promises a paced host:  *)
(* the pace, the answers of get_status, and the image.                     *)
(***************************************************************************)
EXTENDS DfuIntInv, DfuIntRefinement

(* A paced host has one request on its way, which the machine meets idle;  *)
(* while the machine works it is at most polled.                           *)
PacedInv ==
    /\ posted = IF notified = {} THEN 0 ELSE 1
    /\ notified # {} => mpc = "wait" /\ spc \in {"idle", "sem"}
    /\ spc \in {"give", "notify"} => Quiet
    /\ mpc \in {"take", "dispatch"} => spc \in {"idle", "sem"}
    /\ mpc = "error" /\ notification_value # {} => spc \in {"idle", "sem"}
    /\ mpc = "getstatus" => spc \in {"idle", "sem", "copy"}
    /\ mpc = "take" => woken = 1
    /\ counter = posted + Given
    /\ spc = "status" => observed \in Busy \/ (Quiet /\ observed = state)

(* What a download or manifestation left to do means for the state.        *)
ProgressInv ==
    /\ dfu_data.in_progress => state \in {"DNLOAD_SYNC", "MANIFEST_SYNC"} \cup Busy
    /\ mpc = "finish" => ~ dfu_data.in_progress
    /\ mpc = "finish" /\ state = "MANIFEST" => retval = STATUS_OK

(* The answer a host holds: as long as its GETSTATUS is on its way, the    *)
(* state the machine will enter; while the machine works, the busy state.  *)
Working == mpc \in {"busy", "erase", "program", "written", "manifest", "finish"}

Successor ==
    IF state = "DNLOAD_SYNC" THEN IF dfu_data.in_progress THEN "DNBUSY" ELSE "DNLOAD_IDLE"
    ELSE IF state = "MANIFEST_SYNC" THEN IF dfu_data.in_progress THEN "MANIFEST" ELSE "IDLE"
    ELSE state

(* The states a machine that was seen busy may have stopped in.            *)
After(busy) == Predicted([next |-> busy, timeout |-> 0])

PredictionInv ==
    /\ ~ dfu_data.move_to_error
    /\ spc = "status" /\ observed \in Busy =>
          IF Working THEN state = observed ELSE SettledState \in After(observed)
    /\ reply # NoReply =>
          /\ spc \in {"idle", "give", "notify"} /\ mpc # "getstatus"
          /\ InFlight \in {{"none"}, {"GETSTATUS"}}
          /\ InFlight = {"GETSTATUS"} =>
                reply.next = Successor /\ (reply.next = "IDLE" => reply.timeout = 0)
          /\ Working => reply.next = state
          /\ (Quiet \/ mpc = "error") /\ spc = "idle" => SettledState \in Predicted(reply)

(* A download that is being stored, or is about to be, has a timeout.      *)
Storing ==
    \/ state = "DNBUSY"
    \/ spc = "status" /\ observed = "DNBUSY"
    \/ InFlight = {"GETSTATUS"} /\ Successor = "DNBUSY"

TimeoutInv == Storing => dfu_data.previous_timeout_ms > 0

(* Whatever the host's polls, an answer of dfuERROR has its cause still    *)
(* there: no request but the GETSTATUS it announced can have removed it.   *)
DeferredInv ==
    /\ reply # NoReply => /\ spc \in {"idle", "give", "notify"} /\ mpc # "getstatus"
                          /\ InFlight \in {{"none"}, {"GETSTATUS"}}
    /\ reply.next = "ERROR" =>
          state = "ERROR" \/ mpc = "error" \/ dfu_data.move_to_error

(* The image: extra counts the fragment in the buffer that frag_number has *)
(* not been advanced over yet.                                             *)
Assembled(extra) ==
    /\ Len(sent) = blocks * NUM_FRAGMENTS + dfu_data.frag_number + extra
    /\ \A k \in 0 .. Len(sent) - 1 : StoredFragment(k) = sent[k + 1]

Arriving == IF InFlight = {"DNLOAD"} THEN dfu_data.data_xfer_length ELSE 0

ImageInv ==
    /\ state \notin {"DNLOAD_SYNC", "DNBUSY", "DNLOAD_IDLE"} =>
          dfu_data.frag_number = 0 /\ blocks = 0
    /\ state \in {"IDLE", "DNLOAD_IDLE"} => Assembled(Arriving)
    /\ state = "DNLOAD_SYNC" /\ InFlight # {"DNLOAD"} =>
          Assembled(IF dfu_data.in_progress THEN 1 ELSE 0)
    /\ mpc \in {"busy", "erase", "program"} => Assembled(1)
    /\ mpc \in {"erase", "program"} =>
          dfu_data.frag_number = LastFrag /\ tmp_buf = dfu_data.dfu_data_buffer
    /\ mpc = "written" /\ retval = STATUS_OK =>
          /\ Assembled(1) /\ dfu_data.frag_number = LastFrag
          /\ flash[dn_base_addr + blocks] = dfu_data.dfu_data_buffer
    /\ mpc = "finish" /\ state = "DNBUSY" /\ retval = STATUS_OK => Assembled(0)
=============================================================================
