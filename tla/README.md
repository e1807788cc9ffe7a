# TLA+ models of the wctdm24xxp driver

This directory holds TLC-checkable TLA+ models of the Digium TDM2400P/TDM800P
analog card driver (`src/linux/drivers/dahdi/wctdm24xxp/base.c`,
`wctdm24xxp.h`) and of the VPMADT032 echo-canceller interface it uses
(`src/linux/drivers/dahdi/voicebus/GpakCust.c`).  Every definition is
translated from those sources; `PROJECT.json` maps each one to the lines it
models, lists the TLC runs, the mutants that show each checked property can
fail, the findings and the hazards of the code.

## The system and how its parts interact

The card exchanges one frame with the host every 125 us.  Each frame carries
one command word per module slot (a register read or write, tagged with an
8-bit ident) and returns the replies to the commands sent a few frames earlier.

* **Command slot store** (`cmdq[card]`, `empty_slot`, `cmd_dequeue`,
  `cmd_decipher`, `cmd_retransmit`, `wctdm_setreg`, `wctdm_getreg`).  Process
  context fills the `USER_COMMANDS` slots of a card; the interrupt handler owns
  the `ISR_COMMANDS` slots, which poll the hook and line state into
  `isrshadow` and carry the linefeed writes queued in `wc->sethook`.  A gap in
  the received idents makes `cmd_retransmit` resend every transmitted command
  of the cards below `wc->cards`; the VPM100 units (cards 24..27) are not
  among them.  `cmd_dequeue` sends nothing but a filler in the first frame of
  a chunk.  The last frame of a chunk carries no ident (`base.c:863`): it does
  not advance `txident`, and the receiver neither reads its ident nor checks
  it for a gap (`base.c:1012`).  A command sent in it keeps the ident it was
  stamped with, which the next chunk's first frame also carries, and so it is
  completed with that frame's answer.
* **VPM100 echo canceller** (`wctdm_vpm_check`, `echocan_create`,
  `echocan_free`).  Cards 24..27 of the same store are the VPM100 units.
  Their ISR slots poll the DTMF-on (0xb9) and DTMF-off (0xbd) interrupt
  registers.  After each chunk, `wctdm_isr_misc` calls `wctdm_vpm_check`,
  which queues the value read for write-back through `sethook`, clears the
  shadow and cancels the ISR slot.  DAHDI's echo-canceller calls write the
  unit's channel registers through `wctdm_vpm_out`.
* **VPMADT032 command channel** (`vpmadt032_getreg_full_async`,
  `vpmadt032_setpage`, `gpakReadDspMemory`, `gpakWriteDspMemory`,
  `cmd_vpmadt032_retransmit`).  The same frames carry commands of the echo
  canceller DSP from `pending_cmds` through `active_cmds` back to `free_cmds`.
  The DSP's memory is paged; the driver caches the page in `vpm->curpage`.
* **Echo-canceller change queue** (`vpmadt032_echocan_with_params`,
  `vpmadt032_check_and_schedule_update`, `vpmadt032_bh`).  DAHDI echo-canceller
  requests become change orders, coalesced per channel and applied by a
  workqueue, which issues G.PAK calls through the command channel and records
  the applied parameters in `curecstate`.
* **Line monitors**, run from the interrupt for each module:
  `wctdm_voicedaa_check_hook` (FXO: ring, battery, polarity),
  `wctdm_proslic_check_hook` and `wctdm_proslic_recheck_sanity` (FXS: hook
  debounce, the OPPENDING linefeed handshake and power alarms) and
  `wctdm_qrvdri_check_hook` (QRV radio: COR/CTCSS debounce).  They read the
  `isrshadow` values of the command store and queue linefeed writes in
  `wc->sethook`; DAHDI's `hooksig` and the driver's ioctls change the same
  state from process context.
* **Native bridging** (`wctdm_dacs`): rewrites the TDM slot registers of two
  ports through the command store.
* **Probe and module detection** (`wctdm_init_one`, `wctdm_locate_modules`,
  `wctdm_post_initialize`): before the span is registered the probing process
  walks the ports, trying the ProSLIC (FXS) init with automatic then manual
  calibration, the VoiceDAA (FXO), the QRV card, and on port 2 of a 4- or
  8-port board the alternate chip select (`wc->altcs`), which `CMD_BYTE`
  turns into other bytes of the frame.  The ports found get their `cardflag`
  bit and their signalling; `wctdm_open` refuses a port without the bit.
* **Board lifecycle** (`wctdm_open`, `wctdm_close`, `wctdm_remove_one`):
  `wc->usecount` and `wc->dead` decide when the board is released.

The command store is the layer every other component writes through.  The
models of the monitors, the ioctls and bridging abstract it to its effect (a
queued write reaches the chip after the next interrupt, a read value is the
`isrshadow` of some earlier interrupt); `WctdmCmdq` checks that abstraction's
foundation: replies reach the command they answer and every access returns.

## Modules

| module | models | state | actions |
|---|---|---|---|
| `WctdmCmdq` | command slot store and frame codec, and the VPM100 DTMF path | `cmds`, `isrshadow`, `sethook`, `txident`/`rxident`, the frames in flight (`wire`), the registers (`hw`), the callers (`pc`, `req`, `hit`, `ret`) | `Transmit` (`wctdm_transmitprep`/`cmd_dequeue`, then `wctdm_vpm_check` after the last frame of a chunk), `Receive` (`wctdm_receiveprep`/`cmd_decipher`/`cmd_retransmit`), `LoseFrame`, `Call` (with `EchocanTarget`: a process writes a VPM100 only through `wctdm_vpm_out`), `Setreg`, `GetregEnqueue`, `GetregFinish`, `Interrupt` (a signal ends `schluffen`), `Hooksig`, `SetregIntr`, `DtmfDetect` (the chip raises a DTMF interrupt bit) |
| `MC_WctdmCmdq` | model values and symmetry for TLC | | |
| `Vpmadt032Cmd` | VPMADT032 command channel and page cache | command objects and the three lists, `curpage`, the DSP memory and page register, the callers of `gpakRead/WriteDspMemory` | `Transmit`, `Receive`, `LoseFrame`, `Start`, `IoWait`, `SetPage`, `RAsync`, `RReturn`, `LAsync`, `LReturn`, `WSetreg` |
| `ChangeOrder` | echo-canceller change queue and `vpmadt032_bh` | `change_list`, `curecstate`, the work item, the DSP's channels | `EchocanCreate`, `EchocanFree`, `AllocFail`, `BhStart`, `GetNextOrder`, `ApplyOrder` |
| `EcQueue` | what the queue promises: requests applied per channel in FIFO order, the last one winning | `hist`, `cache` | `Request`, `Apply` |
| `FxoHook` | `wctdm_voicedaa_check_hook`, the FXO part of `wctdm_hooksig`, the neon MWI reset of `wctdm_open` | `wc->mods[card].fxo` (neon MWI fields included), the reported hook state, the channel alarm, the `fwringdetect` and `neonmwi_monitor` parameters | `CheckHook` (one 1 ms sample: ring, battery, alarm, polarity, then neon MWI through `NeonDetect` and `NeonExpire`), `Hooksig`, `Startup`, `Open` |
| `FxsLine` | FXS hook debounce, `recheck_sanity`, linefeed requests from `wctdm_hooksig` and the ioctls | `wc->mods[card].fxs`, `sethook`, the linefeed register, `isrshadow`, `intcount`, the phone, the ioctl thread | `Tick` (one `wctdm_isr_misc` with `handle_transmit`), `Hooksig`, `SetPolarity`, `Vmwi`, `VmwiConfig`, `OnHookTransfer`, `SetReg` (queues its write and returns, like `wctdm_setreg_full`), `SetLasttxhook`, `PhoneHook`, `PowerAlarm` |
| `QrvHook` | `wctdm_qrvdri_check_hook`, the QRV radio ioctls, keying and close | `radmode`, `debouncetime`, `qrvdebtime`, `qrvhook`, the key register, the progress of a close (`closing`) | `CheckHook`, `Input`, `Ioctl`, `Hooksig`, and `wctdm_close` in the steps the interrupt can run between: `Close` (entry, then `CloseRx` for the first card: `qrvhook` reset, lines 3065-3066), `CloseReset` (lines 3067-3077), `CloseRx` of the second card |
| `Dacs` | `wctdm_dacs_connect` / `_disconnect` | `dacssrc`, transmit and receive slots | `Connect`, `Disconnect` |
| `ModuleDetect` | `wctdm_locate_modules`, `CMD_BYTE`, `wctdm_post_initialize`, the end of `wctdm_init_one` | the plugged modules (`hw`) and the byte each listens on (`wire`), `modtype`, `altcs`, `cardflag`, `sigcap`, the port reached (`det`), `phase` | `Probe` (one pass of the port loop; the init functions are the sets of results they can return: `ProslicResults`, `DaaResults`, `QrvResult`), `Register` (post_initialize and `dahdi_register`, which may fail) |
| `Lifecycle` | `usecount`/`dead` in open, close and remove, after the probe of `ModuleDetect` (which it extends) | `usecount`, `dead`, the number of releases, per-user progress | `OpenRead` (with the `cardflag` test), `OpenWrite`, `CloseRead`, `CloseWrite`, `CloseCheck`, `RemoveTest` (the `usecount` test of `wctdm_remove_one`), `RemoveFinish` (the release or `dead = 1` it chose), and `ModuleDetect`'s actions before registration |

Each action models a whole handler or one step of it where the code can be
interrupted between steps (an `await` of the frame clock, a sleep, or an
unlocked read-modify-write).  Data are abstracted: registers and values are
model values or a few integers; counters of the code keep their arithmetic,
scaled where the code's constants are large (a debounce of 20 ms is 3
interrupts, `intcount` is kept modulo 8 with the same window test).  Names of
variables and operators follow the code.

`ChangeOrder` refines `EcQueue`: it instantiates `EcQueue` with a refinement
mapping (the outstanding requests of a channel, read from the order in the
worker's hands and the change list, and `curecstate` as the cache), and the
main run checks `EcQueueSpec`, the abstract specification, as a property.

## Runs

Run them with `tlc -workers 2 -config <cfg> <module>` in this directory.
Every property of a passing run also has a mutant in `PROJECT.json`: a
plausible bug in one mapped definition under which TLC finds that property
violated with the run's own configuration.

| run | module / cfg | expect | what it checks |
|---|---|---|---|
| `cmdq_main` | `MC_WctdmCmdq` / `MC_WctdmCmdq.cfg` | pass | `TypeOK`; `ReplyMatching`: whenever a receive interrupt completes a command, the byte it stores is the hardware's answer to that very command (same slot, same fill), never to a filler or another slot; this is checked for every frame but the first of a chunk, which completes the commands of the previous chunk's identless last frame (see `ReplyMatchingAll` below). Two processes share one foreground slot beside the two ISR slots, one frame is lost, signals end waits, idents wrap modulo 3, three frames per chunk. |
| `cmdq_live` | `MC_WctdmCmdq` / `MC_WctdmCmdq_live.cfg` | pass | On a VPM100 unit: `CallsReturn`: every `wctdm_vpm_out` write returns, the second one after waiting for the only foreground slot; `HookPolled`: ISR slot 0 (the DTMF-on poll) is emptied again and again; `DtmfAcknowledged`: every DTMF interrupt bit the chip raises is eventually written back and cleared, even though `wctdm_vpm_check` cancels ISR slots and overwrites `sethook`, and a frame is lost that `cmd_retransmit` does not repair for a VPM100: the slot of a command in the lost frame is freed only when the ident comes round again. Without signals (see `NoOrphanRead` below). |
| `vpm_main` | `MC_Vpmadt032Cmd` / `MC_Vpmadt032Cmd.cfg` | pass | `TypeOK`; `ReplyMatching` for VPMADT032 commands; `NoLostCommand`: every command object is on exactly one list or held by a caller; `CallsReturn`: every `gpakRead/WriteDspMemory` returns. One lost frame, one request of up to two words. |
| `vpm_pageloss` | `MC_Vpmadt032Cmd` / `MC_Vpmadt032Cmd_pageloss.cfg` | violation | `PageCoherent`: when no command is in flight, the DSP's page register equals `curpage`. Violated: see the findings. |
| `co_main` | `MC_ChangeOrder` / `MC_ChangeOrder.cfg` | pass | `TypeOK`; `EcMatchesTap`: the DSP's canceller and software companding of each channel are on exactly when `curecstate` says the tap length is non-zero; `EcQueueSpec`: the queue refines `EcQueue`. Two channels, four requests, one failed allocation. |
| `fxo_main` | `MC_FxoHook` / `MC_FxoHook.cfg` | pass | `TypeOK`; `BatteryDebounced` and `PolarityDebounced`: the battery and polarity states change only after a full debounce of consistent samples; `NeonMwiDebounced`: neon MWI is declared only after `NEONMWI_ON_DEBOUNCE + 1` consecutive monitored samples with battery present above `neonmwi_level`; `NeonMwiLapses`: while MWI is held, a pulse was seen within the last `neonmwi_offlimit_cycles - 1` monitored checks. |
| `fxs_main` | `FxsLine` / `MC_FxsLine.cfg` | pass | `TypeOK`; `HookDebounced`: the hook state reported to DAHDI changes only after `HookWin` consecutive interrupts sampled the new state, across a transmit signal, an ioctl, a `WCTDM_SET_REG`, a power alarm and a hook change. |
| `fxs_wedge` | `FxsLine` / `MC_FxsLine_wedge.cfg` | violation | `PendingConfirmed`: a linefeed request (OPPENDING) is eventually confirmed. Violated by a power alarm while a request is pending. |
| `qrv_main` | `QrvHook` / `MC_QrvHook.cfg` | pass | `TypeOK`; `QrvDebounced`: a receive change is reported only after the decoded inputs held it for the channel's debounce. Debounce times 2 and 3, radio-mode ioctls, keying, and a close whose stores interleave with the interrupt. That each change is eventually reported (`HookReported`) does not hold: see `MC_QrvHook_close.cfg` below. |
| `dacs_main` | `MC_Dacs` / `MC_Dacs.cfg` | pass | `TypeOK`; `Restored`: after bridges between ProSLIC ports are made and undone in any order, every port without a bridge is back on its own slots. Four cards, one of them QRV. |
| `dacs_fxo` | `MC_Dacs` / `MC_Dacs_fxo.cfg` | violation | `Restored`: every port without a bridge is back on its own slots. Violated when the source of an undone bridge is a DAA. |
| `life_main` | `Lifecycle` / `MC_Lifecycle.cfg` | pass | `TypeOK`; `DetectedAsPlugged`: every port walked carries the type of the module plugged there, and a plugged module whose init did not fail is installed; `CmdByteDistinct`: under the chip selects detection chose, the command bytes of the ports and the VPM100 units are distinct and inside the command area of the frame (offsets 0..83, after the 24 audio bytes); `DetectDone`: detection ends. Every mix of FXS, FXO, QRV and empty ports on an alternate-wired TDM410, then one channel opened three times while the board is removed. Releasing the board exactly once, and always, does not hold: see the `MC_Lifecycle_*` cfgs below. |

## Findings

* **`vpm_pageloss`** (`base.c:980`).  `cmd_vpmadt032_retransmit` moves the
  active command to the tail of `pending_cmds`.  When the frame carrying a
  page-change write is lost and `vpmadt032_setpage` has meanwhile queued the
  next page change, the first write is resent after the second: the DSP ends on
  the first page while `curpage` names the second, and accesses that skip the
  page change because the cache says it is current hit the wrong page.
* **`fxs_wedge`** (`base.c:1201`).  `wctdm_proslic_recheck_sanity` only
  treats an open linefeed as a power alarm when no request is pending.  A
  power alarm that opens the line while OPPENDING is set leaves the request
  unconfirmable: LINE_STATE reads open, `lasttxhook` never matches it, and the
  ioctls waiting in `set_lasttxhook_interruptible` time out.
* **`dacs_fxo`** (`base.c:3236`).  For a DAA source `wctdm_dacs_disconnect`
  writes registers 34/35 of `card`, the destination, not of
  `wc->dacssrc[card]`.  After a bridge from one DAA to another is undone, the
  source DAA still transmits on the bridge slot (`24 + card`) instead of its
  own.

## Bounds

Each cfg states its bounds in its header.  They are chosen so that the case a
property is about happens at least once in every order:

* Command store: one FXS card, one foreground slot beside the two ISR slots (so
  the foreground slot fills and a second process waits), two requests, a
  latency of two frames and one lost frame, so that a retransmission overlaps
  commands still in flight; the 8-bit ident is kept modulo 3, which wraps
  within the run while never aliasing more than the frames in flight.  A
  chunk has three frames in `cmdq_main`: the filler frame, one frame with an
  ident of its own, and the identless last frame.  `cmdq_live` uses five
  frames per chunk and a VPM100 unit alone.  With fewer frames the DTMF-off
  poll would always fall in the last frame; the driver has eight.  The four
  idents a chunk uses are coprime with the modulus 3, as the driver's seven
  are with 256, so every ident comes back at every frame position; with a
  common factor, a VPM100 slot left by a lost frame could share its ident
  with the poll forever, which the driver cannot do.  An FXS card and a VPM100
  unit together exceed the time budget of a liveness run.
* VPM100 DTMF loss (`MC_WctdmCmdq_dtmf.cfg`): one unit, a process writing
  it, three requests, enough for a DTMF-on, a DTMF-off and an
  `echocan_create` write.
* VPMADT032 channel: two command objects, a two-word request (so a request
  has several commands in flight when a frame is lost), two pages, one lost
  frame, idents modulo 3.
* Change queue: two channels, four requests (enough for a request to
  coalesce into a queued order while the worker runs), one failed allocation.
* FXO monitor: debounce windows scaled to a few samples (battery debounce
  1, i.e. two agreeing samples, alarm timer 1, polarity 2, neon MWI
  declared on the second pulse and cleared two checks after the last), every
  sample of ring bit and voltage class at every step, the neon monitor on or
  off.  With `neonmwi_monitor` set `fwringdetect` makes no difference (both
  select the crossing detector), so that combination is left out.
* FXS line: `intcount` modulo 8 with a recheck window of two interrupts in
  eight (the code's `intcount & 0xfc` test selects 4 of 256), a debounce of a
  few interrupts, one transmit signal, one ioctl, one `WCTDM_SET_REG`, one
  power alarm, one hook change.  `palarms`, an `int` the code keeps counting
  past `MAX_ALARMS`, is explored up to `MaxPalarms` = 4 (state constraint
  `PalarmsBound`), two more than `MAX_ALARMS`.
* QRV: debounce times 2 and 3 (`QRV_DEBOUNCETIME` of 20 scaled to 3), two
  input changes, one ioctl, one close.  The edge debounce times 0 and 1 are
  the subject of `MC_QrvHook_zero.cfg` and `MC_QrvHook_cancel.cfg`.
* Bridging: four cards with one QRV.
* Detection and lifecycle: a 4-port board (the only size on which the retry
  of port 2 also moves ports 3 and 4, and `CMD_BYTE`'s altcs-3 remap is
  used), all 82 placements of FXS, FXO, QRV and empty modules, every result
  of the init functions; then three opens of one channel, enough for an open
  and a close on each side of each step of the removal.  The races between
  two users are in the `MC_Lifecycle_*` cfgs with two users and one open
  each.  An 8-port board (6724
  placements) is beyond a five-minute run.

## Fairness

Only what the code's scheduling guarantees is assumed.  The frame clock and
the interrupt run as long as the card is up, so `Transmit`, `Receive` and
`Tick` are weakly fair; frame loss, signals, power alarms, hook changes,
ioctls and requests from DAHDI are environment steps with no fairness.  A
process that is in the middle of a call and runnable is eventually scheduled
(weak fairness of the steps after a call started, and of the wake-up of an
ioctl sleeping in `set_lasttxhook_interruptible`).  A queued work item is
eventually run (`BhStart`, `GetNextOrder`, `ApplyOrder`).  A `wctdm_close`
or `wctdm_remove_one` that has started runs to its end (`closing # 0 /\
Close` in `QrvHook`, `RemoveFinish` in `Lifecycle`).  The probe runs
in the process loading the driver, so `Probe` and `Register` are weakly
fair.  Nobody is
required to open, close, remove or call anything.

## Further configurations

The project's runs are the twelve above.  The modules state further
properties, and these cfgs check them; they are not among the runs:

| cfg | property | result | what it shows |
|---|---|---|---|
| `MC_WctdmCmdq_reorder.cfg` | `ProgramOrder` | violated | `empty_slot` reuses the lowest free slot and `cmd_dequeue` sends the lowest slot first, so a later write to a register can reach the chip before an earlier one (`base.c:282`, `595-608`). |
| `MC_WctdmCmdq_dtmf.cfg` | `AckNotCancelled` | violated | The DTMF-on and DTMF-off bits are both set, and the DTMF-off bit is read first, so `wctdm_vpm_check` queues its write-back in `sethook`.  `cmd_checkisr` moves that write-back into ISR slot 0 while a `wctdm_vpm_out` write waits in a lower slot, so `cmd_dequeue` sends the foreground write first.  `wctdm_vpm_check` then handles the DTMF-on value read in the same interrupt and clears slot 0 before the write-back has been sent (`base.c:1649`).  The bit stays set, the next poll reads it again, and `DtmfAcknowledged` (in `cmdq_live`) shows that the write-back is eventually repeated. |
| `MC_WctdmCmdq_lastframe.cfg` | `ReplyMatchingAll` | violated | `ReplyMatching` over every frame.  The ISR line poll sent in the identless last frame is completed by the next chunk's first frame, which carries the ident the poll was stamped with, and takes the answer to that frame's filler (`base.c:863`, `1012`).  The same holds of `Vpmadt032Cmd`'s `ReplyMatchingAll` under `MC_Vpmadt032Cmd.cfg`: a page write sent in the last frame is completed by the next chunk's zeros. |
| `MC_WctdmCmdq_leak.cfg` | `NoOrphanRead` | violated | `wctdm_getreg` interrupted by a signal returns and leaves its read in the slot (`base.c:949`); with signals this also breaks `CallsReturn`, which is why `cmdq_live` runs without them. |
| `MC_Vpmadt032Cmd_order.cfg` | `PageCoherent`, `NoLostCommand`, `ReadCorrect` | pass | on a reliable bus with memory, the page cache is right and reads return the last value written. |
| `MC_Vpmadt032Cmd_reorder.cfg` | `ReadCorrect` | violated | a retransmitted write is moved behind a newer read of the same address (`base.c:980`). |
| `MC_Vpmadt032Cmd_enomem.cfg` | `PageCoherent` | violated | `vpmadt032_setpage` sets `curpage` before the page write that fails for want of memory (`GpakCust.c:189`). |
| `MC_Vpmadt032Cmd_leak.cfg` | `NoLostCommand` | violated | `gpakReadDspMemory` returns on a failed allocation, leaving its issued reads (`GpakCust.c:751`). |
| `MC_ChangeOrder_nlp.cfg` | `NlpApplied` | violated | `setchanconfig_from_state` reads the NLP settings from `curecstate` before `vpmadt032_bh` has stored the new order (`base.c:322`, `GpakCust.c:394`). |
| `MC_ChangeOrder_dspfail.cfg` | `EcMatchesTap` | violated | `vpmadt032_bh` stores the order in `curecstate` even when its G.PAK calls failed (`GpakCust.c:394`). |
| `MC_FxoHook_unknown.cfg` | `BatteryDebouncedFromUnknown` | violated | from `BATTERY_UNKNOWN` a debounce started toward PRESENT is counted down by low samples toward LOST (`base.c:1419`). |
| `MC_FxoHook_ringoff.cfg` | `HookStateMatchesBattery` | violated | the end of a ring reports off-hook although the battery is lost (`base.c:1368`). |
| `MC_FxoHook_alarm.cfg` | `AlarmFollowsBattery` | violated | with `battalarm` equal to `battdebounce` the alarm timer is 0 (`base.c:1438`) and never runs, so a lost battery raises no alarm. |
| `MC_FxsLine_live.cfg` | `PendingConfirmed` | pass | without power alarms and register writes, every linefeed request is confirmed. |
| `MC_FxsLine_power.cfg` | `PowerAlarmReset` | pass | an on-hook line dropped to open by a power alarm is powered again. |
| `MC_FxsLine_regop.cfg` | `PendingConfirmed` | violated | `WCTDM_SET_REG` of LINE_STATE keeps `val & 0x0f`, which the `SLIC_LF_SETMASK` (0x07) comparison never matches (`base.c:2800`). |
| `MC_FxsLine_regrace.cfg` | `PendingConfirmed` | violated | `WCTDM_SET_REG` overwrites `lasttxhook` while a hooksig linefeed is queued (`base.c:2800`). |
| `MC_FxsLine_ringing.cfg` | `NoChangeWhileRinging` | violated | the polarity/VMWI ioctl reads `lasttxhook`, sleeps, and replaces a RINGING set meanwhile (`base.c:2862`). |
| `MC_FxsLine_stale.cfg` | `LineStateConfirmed` | violated | a LINE_STATE reading older than the write confirms the request (`base.c:1197`). |
| `MC_FxsLine_timeout.cfg` | `NoSilentTimeout` | violated | `set_lasttxhook_interruptible` gives up and the ioctl still returns success (`base.c:2164`). |
| `MC_QrvHook_cancel.cfg` | `HookReported` | violated | the report of channel 0 clears `qrvdebtime[card]`, cancelling channel 1's debounce (`base.c:1264`). |
| `MC_QrvHook_zero.cfg` | `HookReported` | violated | a debounce time of 0 is accepted and the change is never reported (`base.c:2966`). |
| `MC_QrvHook_close.cfg` | `HookReported` | violated | `wctdm_close` sets `qrvhook` to 0xff (`base.c:3066`); the interrupt sees a change to the newly decoded input and starts a debounce, which the close cancels by zeroing `qrvdebtime` (`base.c:3068`).  `qrvhook` already holds the new state, so the change is never reported. |
| `MC_QrvHook_cor.cfg` | `CarrierHonoured` | violated | the COR mode test uses `|` instead of `&` (`base.c:1241`). |
| `MC_Dacs_fanout.cfg` | `BridgeHeard` | violated | one ProSLIC source bridged to two destinations: undoing one bridge restores the source's transmit slot while the other destination still listens on the bridge slot (`base.c:3232`). |
| `MC_Lifecycle_uaf.cfg` | `NoUseAfterFree` | violated | remove releases the board between an open's `dead` test and its `usecount++` (`base.c:3027-3029`, `3855`). |
| `MC_Lifecycle_double.cfg` | `ReleaseOnce` | violated | two closes on a dead board both see `usecount` zero (`base.c:3080`). |
| `MC_Lifecycle_leak.cfg` | `Released` | violated | a removed board whose channels are all closed is never released: with two users, by a lost update of the unlocked `usecount++`/`--` (`base.c:3029`, `3053`) or by the race below. |
| `MC_Lifecycle_remove.cfg` | `Released` | violated | one user: `wctdm_remove_one` reads `usecount` 1 (`base.c:3855`), the close brings it to 0 and finds `dead` clear, then remove sets `dead` (`base.c:3860`); nobody releases the board. |
| `MC_Lifecycle_altcs.cfg` | `DetectedAsPlugged` | violated | on a 4-port board whose modules answer on the normal chip select, an empty port 2 is retried on the alternate one and `wctdm_locate_modules` switches ports 3 and 4 with it (`base.c:3624-3627`); their modules are then reported "Not installed".  The code assumes both wirings exist (it only retries when port 2 is silent); if every 4-port board were wired for the alternate select this would not arise. |
| `MC_Lifecycle_regfail.cfg` | `FailedProbeReleases` | violated | `dahdi_register` failing at the end of `wctdm_init_one` returns -1 with the voicebus started and the board allocated (`base.c:3800-3803`); nothing releases them. |

## Not modelled

* The key register write of a QRV module over a lossy bus: `cmd_checkisr`
  of the second QRV card overwrites slot 0 of `qrvcard` with `CMD_RD(3)`
  (`base.c:796`) right after the write was sent, so a lost frame loses it.
  `QrvHook` takes the bus to be reliable, and `WctdmCmdq` gives each card its
  own queue.
* The VPM100 init (`wctdm_vpm_init`): register programming at probe time,
  before `wc->vpm100` is set and the interrupt handler starts polling the
  units.
* The `FANCY_ECHOCAN` LED blinking (`wctdm24xxp.h:120` defines it): on some
  frames `cmd_dequeue` fills an idle VPM100 slot with a write of the LED
  register 0x1ab instead of the read of 0x1a0 (`base.c:619-624`), as
  `blinktimer` and `echocanpos` advance (`base.c:853-858`).  `WctdmCmdq`
  keeps the read for every filler: no slot takes a filler's answer, and no
  modelled state reads 0x1ab.
* ProSLIC and DAA initialisation, calibration and power-up: timed sequences
  of register writes against hardware responses.
* The rest of the probe: the allocations and voicebus set-up of
  `wctdm_init_one`, `wctdm_initialize`'s naming, and the VPM probe at the end
  of `wctdm_locate_modules` (`wctdm_vpm_init`, `vpmadt032_alloc`/`_init`,
  `config_vpmadt032`).  Inside detection, the init functions are abstracted to
  the results they return; what they write to the chip is not modelled.
* The teardown of `vpmadt032_free` and the hardware part of
  `wctdm_remove_one`.
* The G.PAK access shim (`gpakLockAccess`): a semaphore around G.PAK calls;
  what it relies on, that every command returns, is `CallsReturn`.  Its
  callers are in the G.PAK library, which is not in this repository, so a
  model of the interrupted `down_interruptible` at `GpakCust.c:845` (after
  which `gpakUnlockAccess` still calls `up`) would have to invent their
  calling pattern.  That interrupted `down_interruptible` is a defect of
  the shim as it stands: the semaphore's count can reach 2 and two callers
  then drive the DSP at once.
* The neon MWI events themselves: `FxoHook` checks `neonmwi_state`, from
  which the events are derived, but recording the last event doubled the
  state space of `fxo_main`.  `wctdm_open` clears `neonmwi_state` without
  queueing `DAHDI_EVENT_NEONMWI_INACTIVE` (`base.c:3036`); whether a user
  that saw ACTIVE is then misled is decided in dahdi-base, which is not in
  this repository.  This is listed as a hazard.
* QRV gains and `qrv_dosetup`.
* `xpp/xbus-sysfs.c` (sysfs formatting), the user tools under `src/tools`
  (their ioctls are the `FxsLine` actions), `wcte12xp.h` (another driver) and
  the generated `*.mod.c` files.
