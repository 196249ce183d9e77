-------------------------- MODULE DfuIntRefinement --------------------------
(***************************************************************************)
(* The two tasks of DfuInt, under a paced host that respects the timeouts, *)
(* implement the single-threaded machine of DfuProtocol.                   *)
(***************************************************************************)
EXTENDS DfuIntProps

(* The request on its way: in the servicer's hands, in the mailbox, or     *)
(* read by the machine and not yet acted on.                               *)
InFlight ==
    CASE spc \in {"give", "notify"}  -> {request}
      [] notified # {}               -> notified
      [] mpc \in {"take", "dispatch"} -> notification_value
      [] OTHER                       -> {"none"}

PendingRequest ==
    LET r == CHOOSE x \in InFlight : TRUE
    IN  IF r = "DNLOAD" /\ dfu_data.data_xfer_length = 0 THEN "ZLP" ELSE r

(* An error in the making is one.                                          *)
SettledState == IF mpc = "error" THEN "ERROR" ELSE state

Protocol == INSTANCE DfuProtocol WITH
    pstate  <- SettledState,
    pending <- PendingRequest,
    todo    <- dfu_data.in_progress \/ state \in Busy

(* Every step of either task is a step of the single-threaded machine or a *)
(* stutter: two copies of the transition rules, a mailbox, a counter and a *)
(* deferred error flag look to a paced host like one atomic state machine. *)
ImplementsProtocol == Protocol!PSafety

(* The fairness of the two tasks is enough to keep that machine going: it  *)
(* is never left able to serve a request or to complete, and does not.     *)
ProtocolGoesOn == Protocol!PFairness
=============================================================================
