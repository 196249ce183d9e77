# A TLA+ model of the voice-kit XMOS firmware

The firmware runs on the two tiles of an XU316, each an SMP FreeRTOS. It takes
audio from microphones and I2S, cleans it in a pipeline of stages, sends it out
over I2S, answers a host over I2C device control, and updates itself over
device control or USB. The product built by the repository is
`ffva_int_fixed_delay`; the other pipelines and the speech recognisers are kept
in the tree.

This directory holds modules translated from the sources, TLC configurations
that check them on small instances, and proofs that hold for every instance.
The state of the work: **firmware update over device control and beside USB, the
start-up and the input of the audio, its path to the I2S output, and stage 1 of
both adec pipelines with its delay buffer are modelled, checked and in good part
proved. What is left out, and why, is told under "Not modelled".**

## Inventory

| Component | State | Operations | Meets | Hard part | Correct when |
|---|---|---|---|---|---|
| `dfu_common.c` | base, room and length of the open download; the flash | write, manifest, read, reboot | both update transports | statics shared without a lock; reset at different times | writes stay in the partition; the factory image is kept |
| `dfu_state_machine.c`, `dfu_servicer.c` | `dfu_data`, two notification mailboxes, a semaphore | eight commands; one task that serves them | control dispatch, `dfu_common` | two tasks on one unlocked structure; merged notifications; early polls | nothing merged is acted on, predictions come true, nothing hangs |
| `usb_dfu.c` | none of its own | download, manifest, upload, abort, detach callbacks | `dfu_common` | runs beside the device-control task | the same, with both transports active |
| `control/servicer.c` | constant tables | validate, dispatch read or write | I2C device control, both servicers | none: lookups, one command at a time | a command reaches its own handler or is refused |
| `configuration_servicer.c` | stage of each output channel, VNR value | read, write, push VNR | audio output | written by one task, read per sample by another | one frame comes from one stage |
| `configuration_common.c` | size and identifier of the partition | initialise; read, write and flush have no caller | flash | none in this firmware | - |
| `main.c` | flush flag, phases of the rate callbacks | pipeline input and output, I2S callbacks, start-up | pipelines, drivers | two drivers on one clock, one of them flushed; blocking receives, dropped samples | no stall; microphones and reference stay in step; each sample sent is of a stage asked for |
| pipelines (`fixed_delay`, `adec`, `adec_alt_arch`, ...) | stage state, delay buffers, flags of the frame | one function per stage; a hop between tiles | `main.c`, DSP libraries | flags travel with a frame from one tile to the other | exactly one canceller; the delay is what was asked |
| `delay_buffer.c` | a ring per channel | delay a sample, change the delay, clear | `adec` stage 1 | wrap-around, change of sign | the delay in force exactly; no stale sample after a change |
| `platform_start.c` | none | start sequence of each tile | every driver | the tiles meet in one message | no audio before the codec is out of reset |
| speech recognition, wake-word | ring and stream buffers | put and get audio | pipeline output | switched off, or glue for binary libraries | - |
| `gpio_test`, USB descriptors, PLL | - | - | - | none | - |

`PROJECT.json` lists every component with what is modelled of it, and every
hazard with its line and the properties that cover it.

## Modules

The firmware-update modules and the audio modules do not share state: the code's
only link between them is the control dispatch, which keeps none. The audio
modules follow one another: `AudioInput` makes the frames that `AudioPath`, or
`Stage1` in the adec pipelines, takes in; what each assumes of the one before it
is what that one is checked for.

| Module | What it is |
|---|---|
| `DfuCommon` | `dfu_common.c`: its three statics and the flash, and the operators the transports act through |
| `DfuInt` | `dfu_state_machine.c` and `dfu_servicer.c`: the host's commands, the servicer task, the machine task, the watchdog |
| `DfuIntProps` | the properties of `DfuInt` |
| `DfuProtocol` | the abstract specification: a single-threaded device that serves one request at a time |
| `DfuIntRefinement` | the mapping under which `DfuInt` implements `DfuProtocol` |
| `DfuIntDocs` | statements of the sources' comments that the code does not keep |
| `MCDfuInt` | the instance TLC checks |
| `DfuIntInv` | the inductive strengthenings of the safety properties |
| `DfuIntProofs`, `DfuIntSafety` | the proofs of the types and of what any host is promised |
| `DfuIntPacedInv` | the inductive strengthenings of what a paced host is promised |
| `DfuIntPaced`, `DfuIntRefines` | the proofs of that: the image, the predictions, the steps of `DfuProtocol` |
| `DfuShared` | `usb_dfu.c` and the machine task as two users of `dfu_common.c`, which is taken apart into its accesses of the statics |
| `DfuSharedProps`, `DfuSharedInv`, `DfuSharedProofs`, `MCDfuShared` | its properties, inductive invariants, proofs and instance |
| `AudioPath` | frames from the microphones to I2S: the delay stage, the stages of both tiles, the output and the stages that hosts write |
| `AudioPathProps`, `AudioPathInv`, `AudioPathProofs`, `MCAudioPath` | its properties, inductive invariant, proofs and instance |
| `DelayBuffer` | `delay_buffer.c`: the ring that delays the microphones or the reference |
| `Stage1` | stage 1 of both adec pipelines on top of it, and the IC stage of the other tile that follows its flag |
| `Stage1Props`, `Stage1Proofs`, `MCStage1` | its properties, proofs and instance |
| `AudioInput` | the start of the two tiles, the clock of microphones and I2S with their drivers, and `audio_pipeline_input` |
| `AudioInputProps`, `AudioInputProofs`, `MCAudioInput` | its properties, proofs and instance |

### How `DfuInt` corresponds to the code

The variables of `DfuCommon` are the statics of `dfu_common.c`, by their names.
`dfu_data` is the structure of that name without its two handles and
`timeout_start`; `move_to_error_status` is set and read with its flag, always to
the same value, and is left out. `notified` is notification index 0 of the machine task and `counter`
is index 1. `spc` and `mpc` are the program counters of the servicer task and
the machine task, and `request`, `observed`, `notification_value`, `retval`,
`wr_addr` and `tmp_buf` their locals; between `Fail` and `EnterError`, the two
halves of `dfu_int_error`, `retval` is its argument. `posted`, `woken` and `sent` are history
variables: no guard reads them.

- A command (`Download` ... `Reboot`) is the body of a `dfu_int_*` function up
  to its notification calls. These are two actions, `Give` and `Notify`,
  since the machine may run between them. `dfu_int_upload` goes on with
  `UploadTake` and `UploadCopy`.
- `dfu_int_get_status` is `GetStatus`, which reads the state it branches on, and
  one action per branch for the rest. Where the code reads `current_state` a
  second time the compiler may or may not reload it: both values are allowed.
- The machine's loop is `Wake` (`xTaskNotifyWait`), `Take`
  (`ulTaskNotifyTakeIndexed` and the test), and one action per case. A case that
  works on the flash is several: the state becomes busy, the write is refused or
  begins, the sector is erased, programmed, the fields are updated, and
  `Finish` tests `move_to_error`, where an early poll may interfere.
- `dfu_int_error` resets the state to dfuIDLE and then stores dfuERROR. These are two
  actions, `Fail` and `EnterError`, so a `get_status` in between reads dfuIDLE. The
  compiler may leave the first store out; the behaviours are then a subset.
- `Reset` is the watchdog that `reboot()` arms. It may strike between any two
  steps; only the flash survives.

Lengths count fragments (0 or 1), addresses count sectors, and fragments per
sector is a constant. A short fragment is a fragment. The 16-bit block counters
are unbounded: the room check keeps the download's below the size of the flash,
and a transfer block past the partition reads nothing and goes back to 0.
The clock is not modelled: with `EarlyPolls` a poll of a busy machine may or may
not be early, and a manifestation, whose timeout is 0, is never polled early.

### How `DfuShared` corresponds to the code

The product is built with both transports (`appconfI2C_DFU_ENABLED`,
`appconfUSB_DFU_ONLY_ENABLED`). A transport is reduced to what it does to
`dfu_common`: it downloads blocks from 0 on, aborts, manifests. `block` is the
machine's `download_block_number` or the block number the USB host counts.
Each read or write of a static in `dfu_common_write_to_flash` is an action; the
locals of the call are `part` (the case of the switch), `addr` and `operand`, the
static it has read and is about to use with another. The space check reads
`bytes_avail` and `total_len` (`RoomRead`, `CheckRoom`), in an order that C leaves to
the compiler, so both are allowed; opening a partition reads the base again or uses the
one just stored (`BaseRead`), before the difference is stored (`OpenAvail`).
`total_len += length` is a read and a write (`Count`, `Store`), after the driver's lock
has been released. `overlapped` is a history variable: two downloads were under way at
once since the partition was opened. `Reset` may strike at any time: the
watchdog, or a power cut.

### How `AudioPath` corresponds to the code

A frame is its number and its six channels in the order of `frame_data_t`. What a
channel holds is the stage it last went through and the numbers of the
frames its microphone and reference audio come from, so that audio that is
overwritten, delayed or taken from another frame shows. Each stage is the
effect of its function on the channels: the AEC fills both sample channels, IC
and NS write channel 0 and, in the fixed-delay pipeline, a channel of the
reference; the AGC writes channel 0 only.

- The tasks are those `generic_pipeline_init` makes of the stage arrays: input
  and delay, AEC and the hop to tile 0, IC, NS, AGC and output. They own the frame they
  work on, so a stage is one step; the queues between them are bounded.
- `delay_buf` is the stream buffer, by frames, and `mic_delay` the
  delay in samples, with its sign. `GivesFrame` is the comparison of the bytes available.
- `audio_pipeline_output` is taken apart: `AgcTask` hands it the frame,
  `CopySample` is one channel of one sample and reads the servicer's variable
  anew as the code does, `Send` is `rtos_i2s_tx`. `tmp` is the function's
  array, uninitialised at first (`Garbage`) and gone after the call. `WriteStage` may come between any
  two of these and stores any value, as `configuration_servicer_write_cmd` does.
- `rtos_i2s_tx` is called without a timeout: `Send` waits until the driver, which
  `i2s2_start` gives room for 1.2 frames, can take the whole array. `i2s_send` counts
  the samples it holds and `I2s` is a period of the word clock, which takes one. While
  the output waits, the queues behind it fill up, and nothing else in the model
  depends on the clock. How many samples must be free is the driver's, which is external.
- `held` and `emitted` are history variables.

The pipeline `"adec"` is that of both adec directories outside delay estimation and,
in the alternating architecture, with the AEC on (`Stage1` has the rest): one task on tile 1, no stream buffer, and stages that leave the reference alone.
The build is the one of the product (`appconfI2S_MODE_MASTER` without TDM). `fixed_delay`'s
`stage_vnr_and_ic` tests `appconfAUDIO_PIPELINE_SKIP_IC_AND_VAD`, while
`app_conf.h` sets `..._SKIP_IC_AND_VNR`; with no stage skipped this is no difference.

### How `DelayBuffer` and `Stage1` correspond to the code

`alt_arch` says which of the two directories was built: their `stage_1.c` differ
in the controller and the rewritten output, and in the channels the AEC has.

- `delay_buffer`, `curr_idx` and `delay_samples` are the fields of
  `delay_buf_state_t`. A sample is its signal and the time it was taken.
  `GetDelayedSamples` takes one sample of every channel through
  `get_delayed_sample`; the code goes channel by channel, which are
  independent of one another. `UpdateDelay` is `update_delay_samples` with
  `reset_partial_delay_buffer` of every channel, in whose terms `Cleared` is
  written: two `memset`s, with and without a wrap.
- `TakeSample` is `get_delayed_frame`, sample by sample, and `ProcessFrame` the rest of
  `stage_1_process_frame` with the hop to tile 0: the activity of the reference and
  ADEC's answer are its inputs, `alt_arch_controller` decides the bypass, the
  count and the flag, the AEC writes the channels it is configured for, the output is
  rewritten and, while estimating, overwritten; at the end the AEC may be
  initialised anew. `StageVnrAndIc` is the IC stage, which sets its bypass from the frame's flag.
- What an output channel holds is the AEC's output, a microphone, or what was on
  the stack (`stage_1_out` is not initialised).
- `now`, `since`, `absent` and `cycles` are history variables, as are three
  fields of a frame.

ADEC is a library and external: with its automatic mode off, as
`initialize_pipeline_stages` sets it, it leaves normal operation only when a
cycle is forced, and asks for delays only from
the frame that begins the estimation to the one that ends it. When a forced cycle begins
and when it ends is the library's: either may be any frame, with the echo canceller
bypassed or not. Also external:
`aec_init` clears the bypass, and `aec_reset_state` does not touch it.
`DelayBufferAssumption` excludes a delay of the whole ring, at which the sample
just written would come back: nothing in the tree bounds what ADEC asks for.

### How `AudioInput` corresponds to the code

`tile0` and `tile1` are what `startup_task` does on each tile; of
`platform_start` the steps that start audio and the message of
`audio_codec_start` are kept. `Tick` is one period of the 48 kHz clock, which
the microphones and I2S share: `I2sTick` is the I2S driver with
`i2s_send_downsample_cb` (`phase` is its static `i`), and `MicTick` the
microphone driver, which delivers a block of `FrameAdvance` samples and, when it
already has the two it was given room for, drops it. `i2s_buf` is the driver's ring of 2.2
frames. Their contents are the times at which a sample, or the first of a block, came in.

`audio_pipeline_input` is the flush (`FlushPoll`, `FlushWait`, the static
`flushed`) and then the two receives in turn, `MicRx` and `I2sRx`. The
pipeline calls it when it likes: the task may take any number of periods
between two steps. The drivers are external; a block or a frame is taken in one
piece. `frame`, `frames`, `mic_lost` and `i2s_lost` are history variables.

## Runs

The layout is a factory sector, one or two upgrade sectors and one data sector,
of two fragments each. This is enough for a sector that is being assembled and one
that is complete, for a partition that fills up, and for a neighbour on each
side of it. `Paced` hosts wait for a request to be handled and poll only after the timeout;
the others send anything at any time, while the counter is below `MaxPending`.

| Run | Host | Shows |
|---|---|---|
| `DfuInt_early` | paced, but polls a busy machine at any time; two payloads, two upgrade sectors | `ImageAssembled`, `DeferredErrorKept`, `BusyEnds` |
| `DfuInt_alts` | paced, all alternate settings, two transfer blocks | `PredictionHolds`, `UploadIntact`, `WaiterRemembered`, `WritesInsidePartition`, `FactoryReadOnly`, `ImplementsProtocol`, `ProtocolGoesOn`, `UploadReturns` |
| `DfuInt_unpaced` | any timing, early polls, up to two pending | `TypeOK`, `OneRequestPerDispatch`, `SemaphoreHasWaiter`, `NeverDispatchedBusy`, `UploadIntact`, `WritesInsidePartition` |
| `DfuShared_turns` | two, any interleaving | `SharedTypeOK`, `TurnsStayInside`, `SectorsNeverMixed` |
| `AudioPath_stages` | writes stages at any time | `AudioPathTypeOK`, `StageAsConfigured`, `BufferHasRoom`, `FramesComeOut` |
| `Stage1_frames` | none; the reference comes and goes | `Stage1TypeOK`, `DelayedExactly`, `OutputDefined`, `OneCanceller`, `HoldRespected`, `DelayCorrectedOnce`, `IcTakesOver` |
| `AudioInput_frames` | none; the input task is late by any time | `AudioInputTypeOK`, `CodecBeforeAudio`, `NeverBlocks`, `RingRefusesFirst`, `ReferenceNotNewer`, `LagWithinRing`, `LagSteady` |

`MaxPending = 2` is where requests merge, the counter drifts and stays adrift;
a larger value only adds to the drift, and the theorems below need no bound.
Two payloads tell a lost, repeated or exchanged fragment apart. The runs of an unpaced host do
not check deadlock: with the counter adrift the bound stops the host, and
without the bound the servicer can be left waiting for ever, which is a finding.
Liveness is checked with the paced host; that a busy machine gets out of it also with
one whose polls come at any time (`DfuInt_early`). A host that does not wait between requests makes no difference to it: a
busy machine takes no request, which is `NeverDispatchedBusy`, proved below.

`DfuShared_turns` has an upgrade partition of one sector and a data partition of two, so
that a length or a base kept from one does not fit the other. Images of two sectors
fill the larger and overflow the smaller. Once two downloads overlap, `total_len` can pass
`bytes_avail`, the difference wraps and every block is admitted from then on: `MaxTotal`
stops the hosts there. Hosts that take turns never reach it. The transports
do the same things, so the run is symmetric in them.

`AudioPath_stages` counts the delay in units of 80 samples, so that the product's 40 ms are
eight and a frame is three, and neither divides the other; it also has no delay
and a negative one. Four frames fill the buffer, go round it and still have one
behind; `MaxFrames` bounds them, and the recording ends there. The I2S driver holds
three samples, so that a frame of two fits once all but one of the frame before it have gone,
as with the product's 288 and 240: the output waits for the clock. The output loop
copies two samples of two channels each, which is enough for a stage to change between
channels, between samples and between frames. The hosts write the bare microphones, the stage NS, which is kept
in one pipeline and not in the other, and a value that is no stage;
`MaxHeld` bounds the stages one channel has during one frame.

`Stage1_frames` has a ring of three frames of two samples, two channels, delays of
both signs that fit between two samples of a frame or do not and whose spans wrap or do not, a hold of two frames
and two frames between the tiles, so that a hold may begin, be interrupted and
end before, while and after the delay is estimated, and a change of delay finds
the ring filled by the same signal or the other. The clock goes round after twice the ring,
which tells every age in it apart.

`AudioInput_frames` has frames of five samples and the product's ratio of 2.2
frames for the ring. `MaxTime` is 110 periods, seven frames and a third: the
flush, the three frames that still hold what came before it, and then enough
for the ring to fill, refuse and be emptied again. The clock ends there, hence
no deadlock check. The tiles and the input task may stop anywhere and go on later.

Fairness (`FairSpec`) is weak fairness of each task. In the audio models each
task of the pipeline has a thread of its own, fed by microphones that never stop,
and the second I2S, whose clocks the chip makes itself (`rtos_i2s2_master_init`), goes on;
were it to stop, the output would wait for ever, and `FramesComeOut` promises nothing.
`AudioInput` has no liveness property and states no fairness.
For firmware update: `dfu_servicer` creates the
machine task with its own priority on a scheduler with several cores and time
slicing, so neither can be kept from running; a flash operation is a call that returns. No
fairness is assumed of the host or of the watchdog.

### Where the code and its comments part

Each is a run that TLC ends with the behaviour; the quotes are in
`PROJECT.json`.

- `DfuInt_doc_clrstatus`: once two requests have shared a wake-up the counter
  stays one too high, and no request, CLRSTATUS included, is served until a reboot.
- `DfuInt_doc_upload`: an upload merged with another request is refused without
  its semaphore, and the servicer waits for ever.
- `DfuInt_doc_partition`: after an abort, a download to another alternate
  setting is written to the partition of the aborted one.
- `DfuShared_factory`: a manifestation of one transport clears the base the other
  has just tested, and that one's block is written at the start of the flash.
- `AudioPath_doc_delay`: the delay stage gives back whole frames, so the 40 ms
  configured become 30.

These have no run. A poll judged too early may set `move_to_error` after the machine has
tested it, though the comment there says that the flag "is checked after it finishes
being busy": the host is told dfuERROR and the machine goes on. `DeferredErrorKept` allows it:
the flag is still set, and fails the next fragment or the manifestation unless the state is
reset before (`StatusTooEarly`, `Finish`). A download that ends within a sector loses its last fragments, though
the doc of `dfu_common_make_manifest` promises that all data is flushed (`Handle`,
`MakeManifest`). The comments of `audio_pipeline_output` call channels 2 and 3 the audio
of IC and NS, which in the adec pipelines they are not: hence `Delivered` in
`StageAsConfigured`. A stage no branch names sends uninitialised samples
(`CopySample`). The first frames of a delay pass undelayed and are then sent again
(`Behind`). An abort in dfuIDLE is an error and not ignored
(`DoAbort`), the transfer block does not default to 0 after an abort (`ResetState`),
and every sector is erased, whichever timeout the host was given (`FlashErase`).
In `adec/stage1`, which processes two channels, the correlation factor of the second is
stored behind the only one the frame has. It is two words: the first falls on
`ref_active_flag`, and from there goes to ADEC (`FlagsLeft`); the second falls past the
end of `frame_data_t`, and what lies there is not modelled.

What `AudioInput` says of the reference: it is older than the microphones it is
paired with by a lag that start-up fixes, from none to 1.2 frames, 0 to 18 ms,
and which no lateness of the task changes; the microphone delay the product adds
covers it. The first three frames still hold reference from before the flush. All
of this is until the ring refuses a sample for the first time, when the task is late
by what the ring has to spare: from then on the alignment is
another, and the read may block and the reference be newer than the microphones.

## Proofs

TLAPS proves these for every layout that satisfies `LayoutAssumption` (the
partitions are in order and the images fit in them), every number of fragments,
every set of payloads and every host, of any timing, that satisfies
`HostAssumption`.

| Theorem | Property | Argument |
|---|---|---|
| `TypeCorrect` | `TypeOK` | inductive as it stands; the fragment index is bounded by the test that chooses between buffering and writing, and the fragment an upload reads by `SectorOfBlock` |
| `OneRequestSafe` | `OneRequestPerDispatch` | `MailboxInv`: the counter is at least the requests notified, plus those woken with and not taken, plus the one between give and notify. So merging can only leave it too high, and when it is 1 at `Take` exactly one request was woken with |
| `SemaphoreSafe` | `SemaphoreHasWaiter` | `SemaphoreInv`: an upload is in the mailbox, or woken with, or its semaphore is given, never two of these, and the servicer waits in each |
| `WritesSafe` | `WritesInsidePartition` | `WriteInv`: the block number is at most `total_len`, which is below the room while a sector is written. A refused write breaks the first part until the error it leads to, hence the exception for a failed `retval`; manifestation resets the base only once the block number is 0 |
| `FactorySafe` | `FactoryReadOnly` | only `FlashErase` and `FlashProgram` change the flash, at an address `WritesSafe` bounds |
| `NeverBusySafe` | `NeverDispatchedBusy` | inductive with the types |
| `UploadSafe` | `UploadIntact` | `UploadInv`: an upload is served with no request behind it, since the counter was 1 and the servicer waits. From the semaphore to the copy the machine can at most end the GETSTATUS it falls through to, in a settled state, which writes nothing |
| `ImageSafe` | `ImageAssembled`, for a paced host | `ImageInv`, below |
| `PredictionSafe` | `PredictionHolds`, for a paced host that respects the timeouts | `PredictionInv`, below |
| `WaiterSafe` | `WaiterRemembered`, for a paced host | inductive with `PacedInv`: the counter is 1 at `Take`, so no wake-up that holds an upload is refused |
| `DeferredSafe` | `DeferredErrorKept`, for a paced host, whenever it polls | `DeferredInv`: after an answer of dfuERROR the machine is in error, about to be, or has the flag set, and no request but the GETSTATUS that the answer announced is on its way to clear either |
| `ProtocolSafe` | `ImplementsProtocol`, for a paced host that respects the timeouts | each action maps to one of `DfuProtocol` or to a stutter, by `PacedInv` and `PredictionInv` |
| `SharedTypeCorrect` | `SharedTypeOK` | with the base among three values, so that no difference of the statics is negative |
| `SectorsSafe` | `SectorsNeverMixed` | `LockInv`: who is about to program holds the lock, and its sector is erased |
| `TurnsSafe` | `TurnsStayInside` | `TurnsInv`: while no downloads have overlapped one transport at most is under way, and what it finds in the statics is known at each statement; in between, its block is at most `total_len`, which is at most the room |

The last three are for any number of transports and images of any size, and
assume that a cleared fragment differs from every other content.

| Theorem | Property | Argument |
|---|---|---|
| `AudioPathTypeCorrect` | `AudioPathTypeOK` | inductive as it stands |
| `BufferRoomSafe` | `BufferHasRoom` | `BufferInv`: the buffer holds the last frames captured, no more than fit the delay, and once that many have come in, exactly the quotient |
| `StageAsConfiguredSafe` | `StageAsConfigured` | `PathInv`: `BufferInv` gives what the delay stage puts into a frame; `QueueInv` says of each queue what the channels of a frame hold there, and one lemma per stage takes a frame from one to the next; `OutputInv` says that the frame going out went through all of them and that the samples not copied yet are untouched |
| `Stage1TypeCorrect` | `Stage1TypeOK` | the count grows only while it is at most the hold; every index is taken modulo the ring |
| `DelaySafe` | `DelayedExactly` | the slots before the index hold the last samples in their order, of the signal that is delayed now, and the ones before the change, as far as the delay reaches, are clear. One lemma says that `Cleared`, for all its cases, is the span before the index |
| `OutputSafe` | `OutputDefined` | the AEC has all channels, or the controller rewrites them, or the estimation overwrites them |
| `OneCancellerSafe` | `OneCanceller` | each frame between the tiles carries the flag that its samples need |
| `HoldSafe` | `HoldRespected` | the count never exceeds the frames of silence, and the bypass is set only once it exceeds the hold |
| `DelayOnceSafe` | `DelayCorrectedOnce` | a cycle has begun exactly when it is no longer armed, so none can begin again, and only a cycle under way changes the delay |
| `AudioInputTypeCorrect` | `AudioInputTypeOK` | inductive with the drivers' room |
| `CodecSafe` | `CodecBeforeAudio` | one message at most, sent after the pin is set and taken before the microphones start |
| `NeverBlocksSafe`, `RingRefusesFirstSafe` | `NeverBlocks`, `RingRefusesFirst` | `Ahead`: while it has refused nothing, the ring holds in time, its samples and the phase of the next, at least what the blocks still to be paired have, the one being filled included |
| `ReferenceSafe` | `ReferenceNotNewer` | `Older`: no sample of the ring is newer than the microphone sample it will meet |
| `LagWithinRingSafe`, `LagSteadySafe` | `LagWithinRing`, `LagSteady` | `LagInv`: every sample of the ring and every block is dated by its place, so that what meets is apart by one drift; the drift is fixed by the flush and the stale frames, and the room of the ring bounds it |

These hold for any delay of either sign, any frame size, queue length and number
of channels, any values that hosts write, any hold, any number of frames between
the tiles, any ring that satisfies its module's assumption and a clock that runs
for any time. The properties
are not inductive by themselves: `WritesInsidePartition` says nothing of the two
counters before a write begins, and `OneRequestPerDispatch` nothing of the
mailbox a wake-up will empty.

### What a paced host is promised

`Paced` and `EarlyPolls` are constants; the five theorems assume `Paced`, two of
them also `~ EarlyPolls`. That is a host that goes by the answers
of `get_status`, and it is needed: polled early, the machine may go on after the host was told
dfuERROR, and an unpaced host's requests merge.

- `PacedInv` says what the pace comes to inside: one request is on its way at
  most (`InFlight`), the machine meets it idle, and the counter is what is posted
  and given, so `Take` never refuses. In particular a request changes hands
  four times with nothing else moving, which is why `Give`, `Notify`, `Wake` and
  `Take` are stutters of `DfuProtocol`.
- `ProgressInv`, for any host: a block or a manifestation is left to do only in
  the SYNC and busy states, none is when a flash operation has ended, and a
  manifestation never fails in the flash.
- `PredictionInv` follows the answer of `get_status` from the read of the state
  to the step it predicted. While its GETSTATUS is on its way the answer is the
  state the machine will enter (`Successor`); while the machine works it is the
  busy state; once all is quiet the machine is there or has left it. `TimeoutInv` rules
  the rest out: a poll of a busy machine that reads the state again may catch
  dfuIDLE in the middle of an error, and it then answers dfuIDLE with a timeout,
  which a settled dfuIDLE never has; `Predicted` therefore expects dfuERROR after it. The servicer and
  the machine each have their copy of the transition rules: `AnswerIsSuccessor` and the
  lemmas on the machine's steps compare the two.
- `ImageInv` follows the image through each step of a write. `Assembled(n)` says
  that all fragments sent are stored, with `n` of them in the buffer beyond
  `frag_number`: one while a fragment arrives, waits or is being written, none when it
  has been advanced over. The lemmas that carry it are one per kind of
  step: a fragment put behind the others (`FragmentArrives`), counted
  (`FragmentCounted`), the partition opened (`PartitionOpened`), a sector erased or
  programmed without touching the ones before it (`SectorWritten`, which needs
  `WriteInv`), and the sector counted in its place of the fragments
  (`SectorCounted`). `FragmentPlace` is the arithmetic of quotient and remainder
  under all of them.

TLC found each of these to hold of the instances of the runs before it was proved.

### What is only model-checked

The liveness properties (`ProtocolGoesOn`, `UploadReturns`, `BusyEnds`,
`FramesComeOut`, `IcTakesOver`): with `ENABLED` and fairness they are out of the
prover's reach. Every other property of a run that passes is proved.

## Not modelled

- The time before the machine task first waits: a request then would be notified
  to a null handle. The model's first state is the machine waiting.
- Tearing within one action: the memory copies of `dfu_data_buffer`, and the
  three assignments after a write, are one step each, and so are the two stores of an
  early poll, `move_to_error` and its status: a machine that tested the flag between them
  would enter dfuERROR with the status OK. A paced host cannot see the others
  apart. For an unpaced one the contents of a partly downloaded buffer are
  not claimed.
- In `DfuInt`, a second transport: `DfuShared` has it, without the machine's
  protocol. Another user of the flash between two calls of the same driver: the
  driver's lock covers a whole write. A USB download whose last block is short
  of a sector stops at an `xassert` whose effect a submodule defines.
- The samples themselves, and what travels with a frame to the AGC (the VNR flag, energies).
- The I2S send callback: the product writes to the second I2S instance, which has
  no filter, so its buffer stays empty. The I2S slave, TDM, and audio over USB
  are not built in the product.
- The rest of `platform_start.c` and `platform_init.c`: calls of drivers with
  parameters. That commands may come before the servicers wait for them is decided
  by the device-control library, which is not in the tree.
- Payload layout of the commands, and those that only read. `control/servicer.c`
  validates a command against constant tables and calls its handler: there is no
  state, and nothing runs between.
- `configuration_common.c` beyond its initialisation: nothing calls it.
- The echo canceller's frame: a sequence of numeric library calls, of which
  `Processed` keeps the channels that are written.
- The empty pipeline keeps nothing: on either tile it waits for a frame from
  the other, which no code sends. No target builds the referenceless one.
- Wake-word (switched off), the speech recognisers' glue (third-party code for
  binary libraries, with a generated table of 7,000 lines), the GPIO test
  (nothing calls it), USB descriptors (tables), the PLL (a fixed sequence of writes).

These are also why the modules cover a small part of the repository's lines: most
of the others are that table, vendored headers, parameters of drivers and of numeric
libraries, and code that the product leaves out.

## Plan

The model has what the code decides by itself, and what it is checked for is
proved but for liveness. What is left, in this order:

1. Weaker hypotheses: which of the promises to a paced host survive early polls
   besides the image, the waiter and the deferred error, and what an unpaced host may still rely on.
2. The safety under the other liveness properties: in which states a task of the
   audio pipeline can wait, and for whom.
3. That the frames `AudioInput` makes are the ones `AudioPath` and `Stage1` take in.
