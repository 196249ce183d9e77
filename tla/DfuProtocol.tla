----------------------------- MODULE DfuProtocol -----------------------------
(***************************************************************************)
(* What the device-control firmware update promises a host that waits for  *)
(* each request to be handled: a single-threaded DFU device.  A request is *)
(* handed over, and later served in one step by the transition its diagram *)
(* in dfu_state_machine.c draws; a busy state completes by itself.  There  *)
(* are no tasks, no mailbox and no counter here: DfuIntRefinement shows    *)
(* that the two tasks of DfuInt implement this machine.                    *)
(***************************************************************************)
VARIABLES
    pstate,     \* the DFU state
    pending,    \* the request handed over and not yet served, or "none"
    todo        \* a block or a manifestation waits to be, or is being, done

pvars == <<pstate, pending, todo>>

Requests == {"DNLOAD", "ZLP", "UPLOAD", "GETSTATUS", "CLRSTATUS", "ABORT",
             "SETALTERNATE"}

PInit == pstate = "IDLE" /\ pending = "none" /\ todo = FALSE

(* A request is accepted when the last one is served and nothing is busy.  *)
Issue(r) ==
    /\ pending = "none"
    /\ pstate \notin {"DNBUSY", "MANIFEST"}
    /\ pending' = r
    /\ UNCHANGED <<pstate, todo>>

Serve(r, next, work) ==
    /\ pending = r
    /\ pending' = "none"
    /\ pstate' = next
    /\ todo' = work

Goes(from, r, to, work) == pstate \in from /\ Serve(r, to, work)

(* Every state a request is not valid in leads to dfuERROR, ABORT in       *)
(* dfuIDLE included: that is what the code does (its diagram differs).     *)
Refused(valid, r) == pstate \notin valid /\ Serve(r, "ERROR", FALSE)

ServeDnload ==
    \/ Goes({"IDLE", "DNLOAD_IDLE"}, "DNLOAD", "DNLOAD_SYNC", TRUE)
    \/ Refused({"IDLE", "DNLOAD_IDLE"}, "DNLOAD")

ServeZlp ==
    \/ Goes({"DNLOAD_IDLE"}, "ZLP", "MANIFEST_SYNC", TRUE)
    \/ Refused({"DNLOAD_IDLE"}, "ZLP")

ServeUpload ==
    \/ Goes({"IDLE", "UPLOAD_IDLE"}, "UPLOAD", "UPLOAD_IDLE", FALSE)
    \/ Goes({"IDLE", "UPLOAD_IDLE"}, "UPLOAD", "IDLE", FALSE)
    \/ Refused({"IDLE", "UPLOAD_IDLE"}, "UPLOAD")

ServeGetStatus ==
    \/ todo /\ Goes({"DNLOAD_SYNC"}, "GETSTATUS", "DNBUSY", TRUE)
    \/ todo /\ Goes({"MANIFEST_SYNC"}, "GETSTATUS", "MANIFEST", TRUE)
    \/ ~todo /\ Goes({"DNLOAD_SYNC"}, "GETSTATUS", "DNLOAD_IDLE", FALSE)
    \/ ~todo /\ Goes({"MANIFEST_SYNC"}, "GETSTATUS", "IDLE", FALSE)
    \/ /\ pstate \notin {"DNLOAD_SYNC", "MANIFEST_SYNC"}
       /\ Serve("GETSTATUS", pstate, todo)

ServeClrStatus ==
    \/ Goes({"ERROR"}, "CLRSTATUS", "IDLE", FALSE)
    \/ Refused({"ERROR"}, "CLRSTATUS")

ServeAbort ==
    \/ Goes({"UPLOAD_IDLE", "DNLOAD_IDLE"}, "ABORT", "IDLE", FALSE)
    \/ Refused({"UPLOAD_IDLE", "DNLOAD_IDLE"}, "ABORT")

ServeSetAlternate == Serve("SETALTERNATE", "IDLE", FALSE)

ServeAny ==
    \/ ServeDnload \/ ServeZlp \/ ServeUpload \/ ServeGetStatus
    \/ ServeClrStatus \/ ServeAbort \/ ServeSetAlternate

(* The block is stored, or the flash refuses it.                           *)
Complete ==
    /\ pstate \in {"DNBUSY", "MANIFEST"}
    /\ \/ /\ pstate' = IF pstate = "DNBUSY" THEN "DNLOAD_SYNC" ELSE "MANIFEST_SYNC"
          /\ todo' = FALSE
       \/ /\ pstate = "DNBUSY"
          /\ pstate' = "ERROR"
          /\ todo' = FALSE
    /\ UNCHANGED pending

PowerCycle == pstate' = "IDLE" /\ pending' = "none" /\ todo' = FALSE

PNext == (\E r \in Requests : Issue(r)) \/ ServeAny \/ Complete \/ PowerCycle

(* What it may do, ...                                                     *)
PSafety == PInit /\ [][PNext]_pvars

(* ... and what it does not fail to do: a request that was accepted is     *)
(* served, and a busy state completes.                                     *)
PFairness == WF_pvars(ServeAny) /\ WF_pvars(Complete)
=============================================================================
