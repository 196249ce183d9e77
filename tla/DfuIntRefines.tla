---------------------------- MODULE DfuIntRefines ----------------------------
(***************************************************************************)
(* The proof that, before a paced host that respects the timeouts, every   *)
(* step of the two tasks of DfuInt is a step of the single-threaded        *)
(* machine of DfuProtocol or a stutter.                                    *)
(***************************************************************************)
EXTENDS DfuIntPaced
-----------------------------------------------------------------------------
(* What DfuProtocol sees as its variable todo, and the name it gives to a  *)
(* request.                                                                *)
Todo    == dfu_data.in_progress \/ state \in Busy
Name(r) == IF r = "DNLOAD" /\ dfu_data.data_xfer_length = 0 THEN "ZLP" ELSE r

LEMMA PendingOf ==
    ASSUME NEW r
    PROVE  /\ InFlight = {r} => PendingRequest = Name(r)
           /\ InFlight' = {r} => PendingRequest' = Name(r)'
<1>1. (CHOOSE x \in {r} : TRUE) = r
  OBVIOUS
<1> QED BY <1>1 DEF PendingRequest, Name

LEMMA Stutters ==
    ASSUME InFlight' = InFlight, SettledState' = SettledState, Todo' = Todo,
           dfu_data'.data_xfer_length = dfu_data.data_xfer_length
    PROVE  UNCHANGED Protocol!pvars
<1>1. (CHOOSE x \in InFlight' : TRUE) = (CHOOSE x \in InFlight : TRUE)
  OBVIOUS
<1>2. PendingRequest' = PendingRequest
  BY <1>1 DEF PendingRequest
<1> QED BY <1>2 DEF Protocol!pvars, Todo

(* A request is handed over.                                               *)
LEMMA IssueMaps ==
    ASSUME Paced, Base, PacedInv, Submitted \/ StatusPost
    PROVE  \E r \in Protocol!Requests : Protocol!Issue(r)
<1> USE DEF Base
<1>1. Quiet /\ spc \notin {"give", "notify"}
  BY HostEffect, StatusEffect DEF PacedInv
<1>2. PendingRequest = "none" /\ SettledState = state /\ state \notin {"DNBUSY", "MANIFEST"}
  BY <1>1, PendingOf DEF InFlight, Quiet, Name, NeverDispatchedBusy, Busy, SettledState
<1>3. PendingRequest' \in Protocol!Requests
  <2>1. InFlight' = {request'} /\ request' \in Request
    BY FlightKept, HostEffect, StatusEffect DEF Request
  <2> QED BY <2>1, PendingOf DEF Name, Request, Protocol!Requests
<1>4. SettledState' = state /\ Todo' = Todo
  <2>1. HostNext \/ ServicerNext
    BY DEF HostNext, Submitted, ServicerNext, StatusPost
  <2>2. mpc' = "wait"
    BY <1>1, CommandsKeepMailbox DEF Quiet, machine, HostNext, Submitted, StatusPost
  <2> QED BY <2>1, <2>2, HostFields DEF Todo, state, SettledState
<1> QED BY <1>2, <1>3, <1>4 DEF Protocol!Issue, Todo

(* It is served,                                                           *)
LEMMA DispatchMaps ==
    ASSUME Paced, Base, PacedInv, Dispatch
    PROVE  Protocol!ServeAny
<1> USE DEF Base
<1>0. /\ Handled /\ mpc = "dispatch"
      /\ dfu_data.data_xfer_length \in {0, 1}
      /\ SettledState = state
  BY Steps DEF Handled, Dispatch, DoDnload, DoUpload, UploadStalls, DoClrStatus, DoAbort,
     DoSetAlternate, SettledState, Handle, Wake, Take, TypeOK, DfuData
<1>1. InFlight = notification_value /\ PendingRequest' = "none"
  <2>1. notified = {} /\ spc \notin {"give", "notify"}
    BY <1>0 DEF PacedInv
  <2> QED BY <1>0, <2>1, FlightKept, PendingOf DEF InFlight, Name
<1>2. /\ Cleared("IDLE") /\ mpc' = "wait" => SettledState' = "IDLE" /\ Todo' = FALSE
      /\ Failing => SettledState' = "ERROR" /\ Todo' = FALSE
      /\ mpc' # "error" => SettledState' = state'
  BY DEF Cleared, Failing, Todo, Busy, state, SettledState
<1>3. CASE DoDnload /\ dfu_data.data_xfer_length = 1
  <2>1. PendingRequest = "DNLOAD"
    BY <1>1, <1>3, PendingOf DEF DoDnload, Handle, Name
  <2>2. IF state \in {"IDLE", "DNLOAD_IDLE"}
        THEN SettledState' = "DNLOAD_SYNC" /\ Todo' = TRUE
        ELSE SettledState' = "ERROR" /\ Todo' = FALSE
    BY <1>2, <1>3, HandleFields DEF Now, Todo, Busy, state
  <2> QED BY <1>0, <1>1, <2>1, <2>2
      DEF Protocol!ServeAny, Protocol!ServeDnload, Protocol!Goes, Protocol!Refused,
          Protocol!Serve, Todo
<1>4. CASE DoDnload /\ dfu_data.data_xfer_length = 0
  <2>1. PendingRequest = "ZLP"
    BY <1>1, <1>4, PendingOf DEF DoDnload, Handle, Name
  <2>2. IF state = "DNLOAD_IDLE"
        THEN SettledState' = "MANIFEST_SYNC" /\ Todo' = TRUE
        ELSE SettledState' = "ERROR" /\ Todo' = FALSE
    <3>1. IF state = "DNLOAD_IDLE" THEN Now("MANIFEST_SYNC", TRUE) /\ mpc' = "wait"
          ELSE Failing
      <4>1. dfu_data.data_xfer_length # 1
        BY <1>4
      <4> QED BY <1>4, <4>1, HandleFields
    <3> QED BY <1>2, <3>1 DEF Now, Todo, state
  <2> QED BY <1>0, <1>1, <2>1, <2>2
      DEF Protocol!ServeAny, Protocol!ServeZlp, Protocol!Goes, Protocol!Refused,
          Protocol!Serve, Todo
<1>5. CASE DoUpload \/ UploadStalls
  <2>1. PendingRequest = "UPLOAD"
    BY <1>1, <1>5, PendingOf DEF DoUpload, UploadStalls, Name
  <2>2. IF state \in {"IDLE", "UPLOAD_IDLE"}
        THEN SettledState' \in {"UPLOAD_IDLE", "IDLE"} /\ Todo' = FALSE
        ELSE SettledState' = "ERROR" /\ Todo' = FALSE
    <3>1. state \in {"IDLE", "UPLOAD_IDLE"} => dfu_data.in_progress = FALSE
      BY DEF ProgressInv, Busy, TypeOK, DfuData
    <3>2. CASE DoUpload
      <4>1. mpc' = "getstatus" /\ state \in {"IDLE", "UPLOAD_IDLE"}
        BY <3>2, HandleFields
      <4>2. state' \in {"UPLOAD_IDLE", "IDLE"} /\ dfu_data'.in_progress = FALSE
        BY <3>1, <3>2, <4>1, HandleFields DEF Now, state
      <4> QED BY <1>2, <4>1, <4>2 DEF Todo, Busy
    <3>3. CASE UploadStalls
      BY <1>2, <3>3, HandleFields
    <3> QED BY <1>5, <3>2, <3>3
  <2> QED BY <1>0, <1>1, <2>1, <2>2
      DEF Protocol!ServeAny, Protocol!ServeUpload, Protocol!Goes, Protocol!Refused,
          Protocol!Serve, Todo
<1>6. CASE DoClrStatus
  <2>1. PendingRequest = "CLRSTATUS"
    BY <1>1, <1>6, PendingOf DEF DoClrStatus, Handle, Name
  <2>2. SettledState' = (IF state = "ERROR" THEN "IDLE" ELSE "ERROR") /\ Todo' = FALSE
    <3>1. IF state = "ERROR" THEN Cleared("IDLE") /\ mpc' = "wait" ELSE Failing
      BY <1>6, HandleFields
    <3> QED BY <1>2, <3>1
  <2> QED BY <1>0, <1>1, <2>1, <2>2
      DEF Protocol!ServeAny, Protocol!ServeClrStatus, Protocol!Goes, Protocol!Refused,
          Protocol!Serve, Todo
<1>7. CASE DoAbort
  <2>1. PendingRequest = "ABORT"
    BY <1>1, <1>7, PendingOf DEF DoAbort, Handle, Name
  <2>2. /\ SettledState' = (IF state \in {"UPLOAD_IDLE", "DNLOAD_IDLE"} THEN "IDLE"
                             ELSE "ERROR")
        /\ Todo' = FALSE
    <3>1. IF state \in {"UPLOAD_IDLE", "DNLOAD_IDLE"} THEN Cleared("IDLE") /\ mpc' = "wait"
          ELSE Failing
      BY <1>7, HandleFields
    <3> QED BY <1>2, <3>1
  <2> QED BY <1>0, <1>1, <2>1, <2>2
      DEF Protocol!ServeAny, Protocol!ServeAbort, Protocol!Goes, Protocol!Refused,
          Protocol!Serve, Todo
<1>8. CASE DoSetAlternate
  <2>1. PendingRequest = "SETALTERNATE"
    BY <1>1, <1>8, PendingOf DEF DoSetAlternate, Handle, Name
  <2>2. SettledState' = "IDLE" /\ Todo' = FALSE
    BY <1>2, <1>8, HandleFields
  <2> QED BY <1>0, <1>1, <2>1, <2>2
      DEF Protocol!ServeAny, Protocol!ServeSetAlternate, Protocol!Serve, Todo
<1> QED BY <1>0, <1>3, <1>4, <1>5, <1>6, <1>7, <1>8 DEF Dispatch

(* GETSTATUS by one of the machine's own steps; after an upload these only *)
(* end the case the upload fell through to.                                *)
LEMMA MovesMap ==
    ASSUME Paced, Base, PacedInv, GetStatusElsewhere \/ SyncDone \/ GoesBusy
    PROVE  Protocol!ServeAny \/ UNCHANGED Protocol!pvars
<1> USE DEF Base
<1>0. /\ Handled /\ mpc \in {"dispatch", "getstatus"}
      /\ mpc = "dispatch" => notification_value = {"GETSTATUS"}
      /\ SettledState = state /\ SettledState' = state'
  <2>1. mpc' \in {"wait", "busy", "manifest"}
    BY Steps, WorkFields
  <2> QED BY <2>1, Steps DEF Handled, Wake, Take, SettledState
<1>1. /\ InFlight' = {"none"} /\ PendingRequest' = "none"
      /\ InFlight = IF mpc = "dispatch" THEN {"GETSTATUS"} ELSE {"none"}
  <2>1. notified = {} /\ spc \notin {"give", "notify"}
    BY <1>0 DEF PacedInv
  <2> QED BY <1>0, <2>1, FlightKept, PendingOf DEF InFlight, Name
<1>2. CASE mpc = "dispatch"
  <2>1. PendingRequest = "GETSTATUS"
    BY <1>1, <1>2, PendingOf DEF Name
  <2>2. CASE GetStatusElsewhere
    <3>1. state' = state /\ state \in Settled /\ Todo' = Todo
      BY <2>2, WorkFields DEF state, Todo
    <3> QED BY <1>0, <1>1, <2>1, <3>1
        DEF Protocol!ServeAny, Protocol!ServeGetStatus, Protocol!Serve, Todo, Settled
  <2>3. CASE SyncDone
    <3>1. /\ state \in {"DNLOAD_SYNC", "MANIFEST_SYNC"} /\ ~ Todo /\ Todo' = FALSE
          /\ state' = IF state = "DNLOAD_SYNC" THEN "DNLOAD_IDLE" ELSE "IDLE"
      BY <2>3, WorkFields DEF state, Todo, Now, Busy
    <3> QED BY <1>0, <1>1, <2>1, <3>1
        DEF Protocol!ServeAny, Protocol!ServeGetStatus, Protocol!Goes, Protocol!Serve, Todo
  <2>4. CASE GoesBusy
    <3>1. /\ state \in {"DNLOAD_SYNC", "MANIFEST_SYNC"} /\ Todo /\ Todo' = TRUE
          /\ state' = IF state = "DNLOAD_SYNC" THEN "DNBUSY" ELSE "MANIFEST"
      BY <2>4, WorkFields DEF GoesBusy, state, Todo, Now, Busy
    <3> QED BY <1>0, <1>1, <2>1, <3>1
        DEF Protocol!ServeAny, Protocol!ServeGetStatus, Protocol!Goes, Protocol!Serve, Todo
  <2> QED BY <2>2, <2>3, <2>4
<1>3. CASE mpc = "getstatus"
  <2>1. GetStatusElsewhere
    BY <1>3, WorkFields DEF UploadInv, GoesBusy, Settled
  <2>2. UNCHANGED dfu_data /\ InFlight' = InFlight
    BY <1>1, <1>3, <2>1, WorkFields
  <2> QED BY <1>0, <2>2, Stutters DEF Todo, state
<1> QED BY <1>0, <1>2, <1>3

(* The busy states, from the inside and at their end.                      *)
LEMMA WorkMaps ==
    ASSUME Paced, Base, PacedInv, PredictionInv, BusyWork \/ Finish
    PROVE  Protocol!Complete \/ UNCHANGED Protocol!pvars
<1> USE DEF Base
<1>0. /\ Handled /\ mpc \in {"busy", "erase", "program", "written", "manifest", "finish"}
      /\ state \in Busy /\ SettledState = state
  BY Steps DEF Handled, SettledState, BusyWork, BufferFragment, WriteRefused, WriteBegin, FlashErase,
     FlashProgram, SectorDone, Manifest, Finish, Wake, Take, Working, WriteInv, PlacesInv,
     Busy
<1>1. InFlight' = {"none"} /\ InFlight = {"none"}
  <2>1. notified = {} /\ spc \notin {"give", "notify"}
    BY <1>0 DEF PacedInv, Quiet
  <2> QED BY <1>0, <2>1, FlightKept DEF InFlight
<1>2. PendingRequest = "none" /\ PendingRequest' = "none"
  BY <1>1, PendingOf DEF Name
<1>3. CASE BusyWork
  <2>1. SettledState' = state /\ Todo' = Todo
    BY <1>0, <1>3, Steps, BusyFields DEF Todo, SettledState, Working
  <2> QED BY <1>0, <1>2, <2>1 DEF Protocol!pvars, Todo
<1>4. CASE Finish
  <2>1. ~ dfu_data.in_progress /\ ~ dfu_data.move_to_error
        /\ (state = "MANIFEST" => retval = STATUS_OK)
    BY <1>4, Steps DEF ProgressInv, PredictionInv
  <2>2. /\ Todo' = FALSE
        /\ \/ SettledState' = IF state = "DNBUSY" THEN "DNLOAD_SYNC" ELSE "MANIFEST_SYNC"
           \/ state = "DNBUSY" /\ SettledState' = "ERROR"
    <3>1. CASE retval = STATUS_OK
      <4>1. /\ Now(IF state = "DNBUSY" THEN "DNLOAD_SYNC" ELSE "MANIFEST_SYNC",
                   dfu_data.in_progress)
            /\ mpc' = "wait"
        BY <1>4, <2>1, <3>1, WorkFields
      <4> QED BY <2>1, <4>1 DEF Now, Todo, Busy, state, SettledState
    <3>2. CASE retval # STATUS_OK
      <4>1. Failing /\ state = "DNBUSY"
        BY <1>0, <1>4, <2>1, <3>2, WorkFields DEF Busy
      <4> QED BY <4>1 DEF Failing, Cleared, Todo, Busy, state, SettledState
    <3> QED BY <3>1, <3>2
  <2> QED BY <1>0, <1>2, <2>2 DEF Protocol!Complete, Todo, Busy
<1> QED BY <1>3, <1>4

(* Storing the error it was heading for changes nothing.                   *)
LEMMA EnterErrorMaps ==
    ASSUME Paced, Base, PacedInv, EnterError
    PROVE  UNCHANGED Protocol!pvars
<1> USE DEF Base
<1>1. mpc = "error" /\ mpc' \in {"wait", "getstatus"} /\ state = "IDLE"
  BY Steps DEF WriteInv, PlacesInv
<1>2. InFlight' = {"none"} /\ InFlight = {"none"}
  <2>1. Handled
    BY <1>1, Steps DEF Handled, Wake, Take
  <2>2. notified = {} /\ spc \notin {"give", "notify"}
    BY <1>1 DEF PacedInv, Quiet
  <2> QED BY <1>1, <2>1, <2>2, FlightKept DEF InFlight
<1>3. /\ state' = "ERROR" /\ dfu_data'.in_progress = dfu_data.in_progress
      /\ dfu_data'.data_xfer_length = dfu_data.data_xfer_length
  BY WorkFields DEF Now, state
<1>4. SettledState' = SettledState /\ Todo' = Todo
  BY <1>1, <1>3 DEF SettledState, Todo, Busy
<1> QED BY <1>2, <1>3, <1>4, Stutters

LEMMA StepMaps ==
    ASSUME Paced, ~ EarlyPolls, Base, PacedInv, PredictionInv, [Next]_vars
    PROVE  [Protocol!PNext]_(Protocol!pvars)
<1> USE DEF Base
<1>1. CASE Submitted \/ StatusPost
  BY <1>1, IssueMaps DEF Protocol!PNext
<1>2. CASE \/ (Unsubmitted \/ GetStatus) /\ ~ Submitted
           \/ StatusStillBusy \/ UploadTake \/ UploadCopy
  <2>1. InFlight' = InFlight
    BY <1>2, FlightKept DEF StatusOnly
  <2>2. (HostNext \/ ServicerNext) /\ ~ Submitted /\ ~ StatusTooEarly
    <3>1. ~ Submitted
      BY <1>2, HostEffect, StatusEffect DEF StatusOnly, UploadTake, UploadCopy
    <3> QED BY <1>2, <3>1 DEF HostNext, ServicerNext, Unsubmitted, StatusTooEarly
  <2>3. /\ SettledState' = SettledState /\ Todo' = Todo
        /\ dfu_data'.data_xfer_length = dfu_data.data_xfer_length
    <3>1. mpc' = mpc
      BY <1>2, CommandsKeepMailbox
      DEF machine, HostNext, Unsubmitted, UploadTake, UploadCopy
    <3> QED BY <2>2, <3>1, HostFields DEF Todo, state, SettledState
  <2> QED BY <2>1, <2>3, Stutters
<1>3. CASE Give \/ Notify \/ Wake \/ Take
  <2>1. InFlight' = InFlight /\ UNCHANGED dfu_data
    BY <1>3, FlightKept
  <2>2. SettledState' = SettledState
    <3>1. mpc # "error" /\ mpc' # "error"
      <4>1. CASE Take
        <5>1. counter = 1
          BY <4>1 DEF Take, TypeOK, PacedInv, Given
        <5> QED BY <4>1, <5>1 DEF Take
      <4>2. CASE Give \/ Notify \/ Wake
        BY <4>2 DEF Give, Notify, Wake, PacedInv, Quiet, machine
      <4> QED BY <1>3, <4>1, <4>2
    <3> QED BY <2>1, <3>1 DEF SettledState, state
  <2> QED BY <2>1, <2>2, Stutters DEF Todo, state
<1>4. CASE Dispatch
  BY <1>4, DispatchMaps DEF Protocol!PNext
<1>5. CASE GetStatusElsewhere \/ SyncDone \/ GoesBusy
  BY <1>5, MovesMap DEF Protocol!PNext
<1>6. CASE BusyWork \/ Finish
  BY <1>6, WorkMaps DEF Protocol!PNext
<1>7. CASE Reset
  <2>1. SettledState' = "IDLE" /\ Todo' = FALSE /\ InFlight' = {"none"}
    BY <1>7 DEF SettledState, Reset, BootData, Todo, Busy, state, InFlight
  <2>2. PendingRequest' = "none"
    BY <2>1, PendingOf DEF Name
  <2> QED BY <2>1, <2>2 DEF Protocol!PNext, Protocol!PowerCycle, Todo
<1>8. CASE UNCHANGED vars
  <2>1. InFlight' = InFlight /\ UNCHANGED dfu_data /\ SettledState' = SettledState
    BY <1>8, Zenon DEF vars, InFlight, SettledState, state
  <2> QED BY <2>1, Stutters DEF Todo, state
<1>9. CASE EnterError
  BY <1>9, EnterErrorMaps
<1>10. Submitted \/ Unsubmitted \/ GetStatus \/ ~ HostNext
  BY DEF HostNext, Submitted, Unsubmitted
<1> QED
  BY <1>1, <1>2, <1>3, <1>4, <1>5, <1>6, <1>7, <1>8, <1>9, <1>10, Steps
  DEF Next, ServicerNext, StatusPost, StatusTooEarly

(* A host that leaves each request its time and respects the timeouts sees *)
(* a single-threaded device: the two tasks, their mailbox and their counter*)
(* never do what the machine of DfuProtocol could not.                     *)
THEOREM ProtocolSafe ==
    ASSUME Paced, ~ EarlyPolls
    PROVE  Spec => ImplementsProtocol
<1>1. Init => Protocol!PInit
  <2> SUFFICES ASSUME Init PROVE Protocol!PInit
    OBVIOUS
  <2>1. SettledState = "IDLE" /\ Todo = FALSE /\ InFlight = {"none"}
    BY DEF SettledState, Init, BootData, Todo, Busy, state, InFlight
  <2>2. PendingRequest = "none"
    BY <2>1, PendingOf DEF Name
  <2> QED BY <2>1, <2>2 DEF Protocol!PInit, Todo
<1>2. Base /\ PacedInv /\ Told /\ [Next]_vars => [Protocol!PNext]_(Protocol!pvars)
  BY StepMaps DEF Told
<1> QED BY <1>1, <1>2, PredictedSafe, PTL
    DEF Spec, ImplementsProtocol, Protocol!PSafety
=============================================================================
